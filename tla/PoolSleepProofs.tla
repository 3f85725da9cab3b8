-------------------------- MODULE PoolSleepProofs ---------------------------
(***************************************************************************)
(* Proofs about PoolSleep, for every number of workers and every finite    *)
(* set of external threads: the packed counters are exact, a set latch     *)
(* leaves nobody asleep, and an injected job is seen.                      *)
(*                                                                         *)
(* The invariant relates what a worker's place says (Placed), who runs     *)
(* whose child (Joined), what the queue of injected jobs holds (Injected)  *)
(* and who is about to wake whom (Noticed, Seen).  The last property needs *)
(* that workers never wait for each other in a circle (Grounded): workers  *)
(* that join do not look for injected jobs, so if all of them slept there  *)
(* would be nobody to run what they wait for.                              *)
(***************************************************************************)
EXTENDS PoolSleep, FiniteSetTheorems, TLAPS

WorkerLocs == {"root", "look", "scan", "no_work", "get_sleepy", "fall_asleep", "check_jec",
               "check_injected", "block", "blocked", "run", "new", "join", "notify", "wake",
               "stopped"}
ExternalLocs == {"idle", "push_to_empty", "push", "new_first", "new", "wake", "wait"}
IdleLocs == {"look", "scan", "no_work", "get_sleepy", "fall_asleep", "check_jec",
             "check_injected", "block", "blocked"}
AfterWake == {"join", "root", "run"}
WakeState == [i : 0 .. N, n : Nat, then : AfterWake \cup {"wait", "idle"}]

Typed ==
  /\ pc \in [Actors -> WorkerLocs \cup ExternalLocs]
  /\ \A w \in Workers : pc[w] \in WorkerLocs
  /\ \A e \in Externals : pc[e] \in ExternalLocs
  /\ pc[Pool] \in {"idle", "notify"}
  /\ counters \in [sleeping : Nat, inactive : Nat, jec : 0 .. JecSize - 1]
  /\ jobs_counter \in [Workers -> 0 .. JecSize - 1]
  /\ announced \in [Workers -> BOOLEAN]
  /\ is_blocked \in [Workers -> BOOLEAN]
  /\ active \in Nat
  /\ terminate \in [Workers -> LatchStates]
  /\ child \in [Workers -> LatchStates \cup {"none"}]
  /\ deque \in [Workers -> BOOLEAN]
  /\ injected \in Nat
  /\ owner \in [Workers -> Workers \cup Externals \cup {None}]
  /\ scan \in [Workers -> SUBSET Workers]
  /\ wake \in [Actors -> WakeState]
  /\ left \in [injects : [Externals -> Nat], forks : Nat]
  /\ waits \in SUBSET Externals

\* An actor that wakes others has a worker left to look at, and goes on where
\* it was told to.
WakingAt(a, places) ==
  pc[a] = "wake" => wake[a].i < N /\ wake[a].n > 0 /\ wake[a].then \in places

Waking ==
  /\ \A w \in Workers : WakingAt(w, AfterWake)
  /\ \A e \in Externals : WakingAt(e, {"wait"})
  /\ pc[Pool] = "notify" => wake[Pool].i < N

\* The workers that each counter counts, at given places and with given flags.
SleepersOf(p, b) == {w \in Workers : b[w] \/ p[w] \in {"check_injected", "block"}}
IdlersOf(p) == {w \in Workers : p[w] \in IdleLocs}
BlockedOf(b) == {w \in Workers : b[w]}

CountedOf(c, p, b, a) ==
  /\ c.sleeping = Cardinality(SleepersOf(p, b))
  /\ c.inactive = Cardinality(IdlersOf(p))
  /\ a + Cardinality(BlockedOf(b)) = N

Counted == CountedOf(counters, pc, is_blocked, active)

\* Where a worker is, or will be when it has woken others.
At(w) == IF pc[w] = "wake" THEN wake[w].then ELSE pc[w]

\* What a worker's place says about its flag, its job, its deque and its latch.
Placed(w) ==
  /\ is_blocked[w] => pc[w] = "blocked"
  /\ At(w) \in {"new", "join"} => Joins(w) /\ owner[w] # None
  /\ At(w) = "run" => ~Joins(w) /\ owner[w] # None
  /\ At(w) = "notify" => ~Joins(w) /\ owner[w] \in Workers
  /\ At(w) \in {"root", "scan", "stopped"} => ~Joins(w) /\ owner[w] = None
  /\ At(w) \in IdleLocs => (Joins(w) <=> owner[w] # None)
  /\ deque[w] => At(w) \in {"new", "join"} /\ child[w] \notin {"none", "set"}
  /\ pc[w] \in {"check_jec", "check_injected", "block", "blocked"}
       => Latch(w) \in {"sleeping", "set"}

\* Whose job a worker runs: it has not set that latch yet.
For(v) == IF pc[v] = "notify" THEN None ELSE owner[v]

\* A child that is joined is in the deque, or run by one worker, or done; and
\* no two workers run the same job.
Joined ==
  /\ \A v, w \in Workers : For(v) = w => child[w] \notin {"none", "set"} /\ ~deque[w]
  /\ \A w \in Workers : child[w] \notin {"none", "set"} /\ ~deque[w]
                          => \E v \in Workers : For(v) = w
  /\ \A u, v \in Workers : For(v) # None /\ For(u) = For(v) => u = v

\* Workers do not wait for each other in a circle.
Grounded ==
  \A S \in SUBSET Workers : S # {} => \E w \in S : \A v \in S : For(v) # w

\* The external threads whose job nobody has taken.
UntakenOf(ws, o) == ws \ {o[v] : v \in Workers}

\* The queue holds one job for each of them.
Injected ==
  /\ injected = Cardinality(UntakenOf(waits, owner))
  /\ \A e \in waits : pc[e] \in {"new", "new_first", "wake", "wait"}
  /\ \A v \in Workers : owner[v] \in Externals => owner[v] \in waits

\* The pool is dropped when nobody uses it any more.
Terminated ==
  pc[Pool] = "notify" \/ (\E w \in Workers : terminate[w] = "set") => Finished

\* Whoever sets the latch of a worker that has taken its mutex to sleep is
\* going to wake it, and waits for the mutex to do so.
Notifier(w) ==
  \/ pc[Pool] = "notify" /\ wake[Pool].i = w
  \/ \E v \in Workers : pc[v] = "notify" /\ owner[v] = w

NoticedAt(w) == (Locked(w) \/ is_blocked[w]) /\ Latch(w) = "set" => Notifier(w)

\* A worker that steals and has made its last check for injected jobs.
Asleep(w) == ~Joins(w) /\ (is_blocked[w] \/ pc[w] = "block")

Waker(e) == pc[e] \in {"new", "new_first", "wake"}

\* If that is every worker, whoever injected a job after the check is going to
\* wake one.
Seen ==
  injected > 0 /\ (\A w \in Workers : Asleep(w)) => \E e \in Externals : Waker(e)

Inv ==
  /\ Typed /\ Waking /\ Counted
  /\ \A w \in Workers : Placed(w)
  /\ Joined /\ Grounded /\ Injected /\ Terminated
  /\ \A w \in Workers : NoticedAt(w)
  /\ Seen

-----------------------------------------------------------------------------
(* Counting. *)

\* Workers are N, and a set of workers has at most N members.
LEMMA WorkersFinite ==
  /\ IsFiniteSet(Workers) /\ Cardinality(Workers) = N
  /\ \A S \in SUBSET Workers :
       IsFiniteSet(S) /\ Cardinality(S) \in Nat /\ Cardinality(S) <= N
<1>1. N \in Nat /\ N > 0 /\ 0 \in Int /\ N - 1 \in Int
  BY ConstantsAssumption
<1>2. IsFiniteSet(0 .. N - 1)
      /\ Cardinality(0 .. N - 1) = IF 0 > N - 1 THEN 0 ELSE N - 1 - 0 + 1
  BY <1>1, FS_Interval
<1>3. IsFiniteSet(Workers) /\ Cardinality(Workers) = N
  BY <1>1, <1>2 DEF Workers
<1>4. ASSUME NEW S \in SUBSET Workers
      PROVE  IsFiniteSet(S) /\ Cardinality(S) \in Nat /\ Cardinality(S) <= N
  <2>1. IsFiniteSet(S) /\ Cardinality(S) <= Cardinality(Workers)
    BY <1>3, FS_Subset
  <2> QED
    BY <1>3, <2>1, FS_CardinalityType
<1> QED
  BY <1>3, <1>4

\* Two sets of workers that differ in one worker at most.
LEMMA CountMove ==
  ASSUME NEW S \in SUBSET Workers, NEW T \in SUBSET Workers, NEW w \in Workers,
         \A v \in Workers \ {w} : v \in T <=> v \in S
  PROVE  Cardinality(T) = Cardinality(S) + (IF w \in T THEN 1 ELSE 0)
                                         - (IF w \in S THEN 1 ELSE 0)
<1> DEFINE R == S \ {w}
<1>1. R \in SUBSET Workers /\ w \notin R
  OBVIOUS
<1>2. IsFiniteSet(R) /\ Cardinality(R) \in Nat
  BY <1>1, WorkersFinite
<1>3. Cardinality(R \cup {w}) = Cardinality(R) + 1
  BY <1>1, <1>2, FS_AddElement
<1>4. S = IF w \in S THEN R \cup {w} ELSE R
  OBVIOUS
<1>5. T = IF w \in T THEN R \cup {w} ELSE R
  OBVIOUS
<1> HIDE DEF R
<1>6. Cardinality(S) = IF w \in S THEN Cardinality(R) + 1 ELSE Cardinality(R)
  BY <1>3, <1>4
<1>7. Cardinality(T) = IF w \in T THEN Cardinality(R) + 1 ELSE Cardinality(R)
  BY <1>3, <1>5
<1> QED
  BY <1>2, <1>6, <1>7

\* What one worker adds to each count.
One(x) == IF x THEN 1 ELSE 0
InSleepers(p, b, w) == b[w] \/ p[w] \in {"check_injected", "block"}

\* A step that moves one worker, and changes the counters as that worker's
\* place and flag change, keeps them exact.
LEMMA CountedStep ==
  ASSUME NEW c, NEW p, NEW b, NEW a, NEW c2, NEW p2, NEW b2, NEW a2, NEW w \in Workers,
         a \in Nat, CountedOf(c, p, b, a),
         \A v \in Workers \ {w} : /\ InSleepers(p2, b2, v) <=> InSleepers(p, b, v)
                                  /\ p2[v] \in IdleLocs <=> p[v] \in IdleLocs
                                  /\ b2[v] <=> b[v],
         c2.sleeping = c.sleeping + One(InSleepers(p2, b2, w)) - One(InSleepers(p, b, w)),
         c2.inactive = c.inactive + One(p2[w] \in IdleLocs) - One(p[w] \in IdleLocs),
         a2 = a - One(b2[w]) + One(b[w])
  PROVE  /\ CountedOf(c2, p2, b2, a2)
         /\ c2.sleeping \in Nat /\ c2.inactive \in Nat /\ a2 \in Nat
<1>1. /\ SleepersOf(p, b) \in SUBSET Workers /\ SleepersOf(p2, b2) \in SUBSET Workers
      /\ IdlersOf(p) \in SUBSET Workers /\ IdlersOf(p2) \in SUBSET Workers
      /\ BlockedOf(b) \in SUBSET Workers /\ BlockedOf(b2) \in SUBSET Workers
  BY DEF SleepersOf, IdlersOf, BlockedOf
<1>2. Cardinality(SleepersOf(p2, b2)) = Cardinality(SleepersOf(p, b))
        + One(InSleepers(p2, b2, w)) - One(InSleepers(p, b, w))
  <2>1. \A v \in Workers \ {w} : v \in SleepersOf(p2, b2) <=> v \in SleepersOf(p, b)
    BY DEF SleepersOf, InSleepers
  <2>2. /\ w \in SleepersOf(p2, b2) <=> InSleepers(p2, b2, w)
        /\ w \in SleepersOf(p, b) <=> InSleepers(p, b, w)
    BY DEF SleepersOf, InSleepers
  <2>3. Cardinality(SleepersOf(p2, b2)) = Cardinality(SleepersOf(p, b))
          + (IF w \in SleepersOf(p2, b2) THEN 1 ELSE 0) - (IF w \in SleepersOf(p, b) THEN 1 ELSE 0)
    BY <1>1, <2>1, CountMove
  <2> QED
    BY <2>2, <2>3 DEF One
<1>3. Cardinality(IdlersOf(p2)) = Cardinality(IdlersOf(p))
        + One(p2[w] \in IdleLocs) - One(p[w] \in IdleLocs)
  <2>1. \A v \in Workers \ {w} : v \in IdlersOf(p2) <=> v \in IdlersOf(p)
    BY DEF IdlersOf
  <2>2. /\ w \in IdlersOf(p2) <=> p2[w] \in IdleLocs
        /\ w \in IdlersOf(p) <=> p[w] \in IdleLocs
    BY DEF IdlersOf
  <2>3. Cardinality(IdlersOf(p2)) = Cardinality(IdlersOf(p))
          + (IF w \in IdlersOf(p2) THEN 1 ELSE 0) - (IF w \in IdlersOf(p) THEN 1 ELSE 0)
    BY <1>1, <2>1, CountMove
  <2> QED
    BY <2>2, <2>3 DEF One
<1>4. Cardinality(BlockedOf(b2)) = Cardinality(BlockedOf(b)) + One(b2[w]) - One(b[w])
  <2>1. \A v \in Workers \ {w} : v \in BlockedOf(b2) <=> v \in BlockedOf(b)
    BY DEF BlockedOf
  <2>2. (w \in BlockedOf(b2) <=> b2[w]) /\ (w \in BlockedOf(b) <=> b[w])
    BY DEF BlockedOf
  <2>3. Cardinality(BlockedOf(b2)) = Cardinality(BlockedOf(b))
          + (IF w \in BlockedOf(b2) THEN 1 ELSE 0) - (IF w \in BlockedOf(b) THEN 1 ELSE 0)
    BY <1>1, <2>1, CountMove
  <2> QED
    BY <2>2, <2>3 DEF One
<1>5. /\ Cardinality(SleepersOf(p2, b2)) \in Nat /\ Cardinality(IdlersOf(p2)) \in Nat
      /\ Cardinality(BlockedOf(b2)) \in Nat /\ Cardinality(BlockedOf(b2)) <= N
      /\ Cardinality(BlockedOf(b)) \in Nat /\ N \in Nat
  BY <1>1, WorkersFinite, ConstantsAssumption
<1>6. One(b2[w]) \in {0, 1} /\ One(b[w]) \in {0, 1}
  BY DEF One
<1>7. a + Cardinality(BlockedOf(b)) = N
  BY DEF CountedOf
<1>8. a2 + Cardinality(BlockedOf(b2)) = N /\ a2 \in Nat
  BY <1>4, <1>5, <1>6, <1>7
<1>9. c2.sleeping = Cardinality(SleepersOf(p2, b2)) /\ c2.inactive = Cardinality(IdlersOf(p2))
  BY <1>2, <1>3 DEF CountedOf
<1> QED
  BY <1>5, <1>8, <1>9 DEF CountedOf

\* The actors are distinct.
LEMMA Distinct ==
  /\ Pool \in Actors /\ Pool \notin Workers /\ Pool \notin Externals
  /\ \A w \in Workers : w \in Actors /\ w \notin Externals /\ w # Pool /\ w # None
                        /\ w \in 0 .. N /\ w < N /\ w + 1 \in 0 .. N
  /\ \A e \in Externals : e \in Actors /\ e \notin Workers /\ e # Pool /\ e # None
  /\ \A i \in 0 .. N : i < N => i \in Workers
  BY ConstantsAssumption DEF Actors, Workers

\* The jobs event counter stays in its bits.
LEMMA IncrementType ==
  ASSUME NEW j \in 0 .. JecSize - 1, NEW sleepy \in BOOLEAN
  PROVE  Increment(j, sleepy) \in 0 .. JecSize - 1
<1>1. JecSize \in Nat /\ JecSize > 0 /\ j + 1 \in Nat
  BY ConstantsAssumption
<1>2. (j + 1) % JecSize \in 0 .. JecSize - 1
  BY <1>1
<1> QED
  BY <1>2 DEF Increment

\* The pool starts awake and without jobs.
LEMMA InitInv == Init => Inv
<1> SUFFICES ASSUME Init PROVE Inv
  OBVIOUS
<1>1. JecSize \in Nat /\ JecSize > 0 /\ N \in Nat /\ MaxInjects \in Nat /\ MaxForks \in Nat
  BY ConstantsAssumption
<1>2. Typed
  <2>1. /\ pc \in [Actors -> WorkerLocs \cup ExternalLocs] /\ \A w \in Workers : pc[w] = "root"
        /\ \A e \in Externals : pc[e] = "idle"
        /\ pc[Pool] = "idle"
    BY Distinct DEF Init, WorkerLocs, ExternalLocs
  <2>2. wake \in [Actors -> WakeState]
    BY <1>1 DEF Init, WakeState
  <2> QED
    BY <1>1, <2>1, <2>2 DEF Init, Typed, LatchStates, WorkerLocs, ExternalLocs
<1>3. /\ \A w \in Workers : pc[w] = "root" /\ At(w) = "root"
      /\ \A e \in Externals : pc[e] = "idle"
      /\ pc[Pool] = "idle"
  BY Distinct DEF Init, At
<1>4. Waking
  BY <1>3 DEF Waking, WakingAt
<1>5. Counted
  <2>1. /\ SleepersOf(pc, is_blocked) = {} /\ IdlersOf(pc) = {} /\ BlockedOf(is_blocked) = {}
    BY <1>3 DEF Init, SleepersOf, IdlersOf, BlockedOf, IdleLocs
  <2>2. counters.sleeping = 0 /\ counters.inactive = 0 /\ active = N
    BY DEF Init
  <2>3. Cardinality({}) = 0
    BY FS_EmptySet
  <2> QED
    BY <1>1, <2>1, <2>2, <2>3 DEF Counted, CountedOf
<1>6. \A w \in Workers : Placed(w)
  BY <1>3 DEF Placed, Init, Joins, IdleLocs
<1>7. Joined /\ Grounded
  BY Distinct DEF Init, Joined, Grounded, For
<1>8. Injected
  <2>1. UntakenOf(waits, owner) = {}
    BY DEF Init, UntakenOf
  <2> QED
    BY <2>1, FS_EmptySet, Distinct DEF Init, Injected
<1>9. Terminated /\ Seen
  BY <1>3 DEF Init, Terminated, Seen
<1>10. \A w \in Workers : NoticedAt(w)
  BY <1>3 DEF Init, NoticedAt, Locked
<1> QED
  BY <1>2, <1>4, <1>5, <1>6, <1>7, <1>8, <1>9, <1>10 DEF Inv

-----------------------------------------------------------------------------
(* Steps of one worker that leave the jobs alone. *)

\* Only w moves; it may change its latch, but not set it or make it another.
Local(w) ==
  /\ \A b \in Actors \ {w} : pc'[b] = pc[b] /\ wake'[b] = wake[b]
  /\ \A v \in Workers \ {w} : /\ is_blocked'[v] = is_blocked[v] /\ child'[v] = child[v]
                              /\ terminate'[v] = terminate[v]
  /\ child'[w] = "none" <=> child[w] = "none"
  /\ child'[w] = "set" <=> child[w] = "set"
  /\ terminate'[w] = "set" <=> terminate[w] = "set"
  /\ pc[w] # "notify" /\ pc'[w] # "notify"
  /\ UNCHANGED poolVars

\* What has to be shown of w itself.
Shown(w) ==
  /\ Typed' /\ Counted' /\ WakingAt(w, AfterWake)' /\ Placed(w)'
  /\ (Locked(w) \/ is_blocked[w])' /\ Latch(w)' = "set"
       => (Locked(w) \/ is_blocked[w]) /\ Latch(w) = "set"
  /\ Asleep(w)' /\ injected > 0 => Asleep(w)

\* If nobody's child, deque or job changes, joins are as they were.
LEMMA JoinedKept ==
  ASSUME Joined, Grounded, UNCHANGED deque,
         \A v \in Workers : /\ For(v)' = For(v)
                            /\ child'[v] = "none" <=> child[v] = "none"
                            /\ child'[v] = "set" <=> child[v] = "set"
  PROVE  Joined' /\ Grounded'
<1>1. Joined'
  BY DEF Joined
<1>2. Grounded'
  BY DEF Grounded
<1> QED
  BY <1>1, <1>2

\* A worker that no step touches stays placed.
LEMMA PlacedKept ==
  ASSUME NEW v \in Workers, Placed(v), pc'[v] = pc[v], wake'[v] = wake[v],
         is_blocked'[v] = is_blocked[v], child'[v] = child[v], terminate'[v] = terminate[v],
         owner'[v] = owner[v], deque'[v] = deque[v]
  PROVE  Placed(v)'
<1>1. /\ At(v)' = At(v) /\ Latch(v)' = Latch(v) /\ (Joins(v)' <=> Joins(v))
  BY DEF At, Latch, Joins
<1> QED
  BY <1>1 DEF Placed

\* A step of a worker that leaves the jobs alone keeps the invariant if that
\* worker's own part of it is kept.
LEMMA LocalKept ==
  ASSUME Inv, NEW w \in Workers, Local(w), Shown(w)
  PROVE  Inv'
<1> USE Distinct
<1>1. Typed' /\ Counted'
  BY DEF Shown
<1>2. Waking'
  <2>1. \A v \in Workers \ {w} : WakingAt(v, AfterWake)'
    BY DEF Inv, Waking, WakingAt, Local
  <2>2. \A e \in Externals : WakingAt(e, {"wait"})'
    BY DEF Inv, Waking, WakingAt, Local
  <2>3. pc'[Pool] = "notify" => wake'[Pool].i < N
    BY DEF Inv, Waking, Local
  <2> QED
    BY <2>1, <2>2, <2>3 DEF Waking, Shown
<1>3. \A v \in Workers : Placed(v)'
  <2>1. ASSUME NEW v \in Workers \ {w} PROVE Placed(v)'
    BY PlacedKept DEF Inv, Local, poolVars
  <2> QED
    BY <2>1 DEF Shown
<1>4. Joined' /\ Grounded'
  <2>1. \A v \in Workers : /\ For(v)' = For(v)
                           /\ child'[v] = "none" <=> child[v] = "none"
                           /\ child'[v] = "set" <=> child[v] = "set"
    BY DEF Local, For, poolVars
  <2> QED
    BY <2>1, JoinedKept DEF Inv, Local, poolVars
<1>5. \A e \in Externals : pc'[e] = pc[e]
  BY DEF Local
<1>6. Injected'
  BY <1>5 DEF Inv, Injected, Typed, Local, poolVars
<1>7. Terminated'
  <2>1. Finished' <=> Finished
    BY <1>5 DEF Finished, Local, poolVars
  <2>2. pc'[Pool] = pc[Pool] /\ \A v \in Workers : terminate'[v] = "set" <=> terminate[v] = "set"
    BY DEF Local
  <2> QED
    BY <2>1, <2>2 DEF Inv, Terminated
<1>8. \A v \in Workers : NoticedAt(v)'
  <2>1. \A v \in Workers : Notifier(v) => Notifier(v)'
    BY DEF Notifier, Local, poolVars
  <2>2. ASSUME NEW v \in Workers \ {w} PROVE NoticedAt(v)'
    <3>1. /\ Latch(v)' = Latch(v) /\ (Locked(v)' <=> Locked(v))
          /\ (is_blocked'[v] <=> is_blocked[v])
      BY DEF Local, Latch, Joins, Locked
    <3> QED
      BY <2>1, <3>1 DEF Inv, NoticedAt
  <2>3. NoticedAt(w)'
    BY <2>1 DEF Inv, NoticedAt, Shown
  <2> QED
    BY <2>2, <2>3
<1>9. Seen'
  <2> SUFFICES ASSUME (injected > 0)', \A v \in Workers : Asleep(v)'
               PROVE  (\E e \in Externals : Waker(e))'
    BY DEF Seen
  <2>1. injected > 0
    BY DEF Local, poolVars
  <2>2. \A v \in Workers \ {w} : Asleep(v)
    BY DEF Asleep, Joins, Local
  <2>3. Asleep(w)
    BY <2>1 DEF Shown
  <2>4. \E e \in Externals : Waker(e)
    BY <2>1, <2>2, <2>3 DEF Inv, Seen
  <2> QED
    BY <1>5, <2>4 DEF Waker
<1> QED
  BY <1>1, <1>2, <1>3, <1>4, <1>6, <1>7, <1>8, <1>9 DEF Inv

\* SetLatch changes the latch that the worker waits on, and no other.
LEMMA SetLatchFacts ==
  ASSUME Typed, NEW w \in Workers, NEW x \in LatchStates, SetLatch(w, x)
  PROVE  /\ child' \in [Workers -> LatchStates \cup {"none"}]
         /\ terminate' \in [Workers -> LatchStates]
         /\ \A v \in Workers \ {w} : child'[v] = child[v] /\ terminate'[v] = terminate[v]
         /\ child'[w] = "none" <=> child[w] = "none"
         /\ Joins(w)' <=> Joins(w)
         /\ Latch(w)' = x
         /\ (x # "set" /\ Latch(w) # "set") \/ x = Latch(w) =>
              /\ child'[w] = "set" <=> child[w] = "set"
              /\ terminate'[w] = "set" <=> terminate[w] = "set"
<1>1. CASE Joins(w)
  BY <1>1 DEF Typed, SetLatch, Joins, Latch, LatchStates
<1>2. CASE ~Joins(w)
  BY <1>2 DEF Typed, SetLatch, Joins, Latch, LatchStates
<1> QED
  BY <1>1, <1>2

\* wake_any_threads starts at the first worker, or is not needed.
LEMMA WakeAnyFacts ==
  ASSUME Typed, NEW a \in Workers \cup Externals, NEW n \in Nat,
         NEW then \in AfterWake \cup {"wait"}, WakeAny(a, n, then)
  PROVE  /\ pc'[a] = IF n = 0 THEN then ELSE "wake"
         /\ pc' \in [Actors -> WorkerLocs \cup ExternalLocs]
         /\ \A b \in Actors \ {a} : pc'[b] = pc[b] /\ wake'[b] = wake[b]
         /\ wake' \in [Actors -> WakeState]
         /\ WakingAt(a, {then})'
         /\ At(a)' = then
<1>1. a \in Actors /\ N \in Nat /\ 0 < N /\ 0 \in 0 .. N
  BY ConstantsAssumption DEF Actors
<1>2. [i |-> 0, n |-> n, then |-> then] \in WakeState
  BY <1>1 DEF WakeState
<1>3. wake' = [wake EXCEPT ![a] = [i |-> 0, n |-> n, then |-> then]]
      /\ pc' = [pc EXCEPT ![a] = IF n = 0 THEN then ELSE "wake"]
  BY DEF WakeAny
<1>4. (IF n = 0 THEN then ELSE "wake") \in WorkerLocs \cup ExternalLocs
  BY DEF AfterWake, WorkerLocs, ExternalLocs
<1>5. /\ pc' \in [Actors -> WorkerLocs \cup ExternalLocs]
      /\ wake' \in [Actors -> WakeState]
      /\ \A b \in Actors \ {a} : pc'[b] = pc[b] /\ wake'[b] = wake[b]
      /\ pc'[a] = IF n = 0 THEN then ELSE "wake"
      /\ wake'[a] = [i |-> 0, n |-> n, then |-> then]
  BY <1>1, <1>2, <1>3, <1>4 DEF Typed
<1>6. WakingAt(a, {then})'
  <2>1. pc'[a] = "wake" /\ then # "wake" => n > 0
    BY <1>5
  <2>2. then # "wake"
    BY DEF AfterWake
  <2> QED
    BY <1>1, <1>5, <2>1, <2>2 DEF WakingAt
<1>7. At(a)' = then
  BY <1>5 DEF At, AfterWake
<1> QED
  BY <1>5, <1>6, <1>7

\* The same for one place: a worker that only moves from one to another.
LEMMA MoveFacts ==
  ASSUME Typed, NEW w \in Workers, NEW x \in WorkerLocs, pc' = [pc EXCEPT ![w] = x]
  PROVE  /\ pc' \in [Actors -> WorkerLocs \cup ExternalLocs]
         /\ \A v \in Workers : pc'[v] \in WorkerLocs
         /\ \A e \in Externals : pc'[e] \in ExternalLocs
         /\ pc'[Pool] \in {"idle", "notify"}
         /\ pc'[w] = x
         /\ \A b \in Actors \ {w} : pc'[b] = pc[b]
  BY Distinct DEF Typed

\* work_found: the worker leaves the loop with its flag down.
LEMMA WorkFoundFacts ==
  ASSUME Inv, NEW w \in Workers, NEW then \in AfterWake, WorkFound(w, then),
         pc[w] \in {"look", "scan"}, UNCHANGED <<is_blocked, active>>
  PROVE  /\ Counted'
         /\ counters' \in [sleeping : Nat, inactive : Nat, jec : 0 .. JecSize - 1]
         /\ announced' \in [Workers -> BOOLEAN]
         /\ pc' \in [Actors -> WorkerLocs \cup ExternalLocs]
         /\ wake' \in [Actors -> WakeState]
         /\ \A b \in Actors \ {w} : pc'[b] = pc[b] /\ wake'[b] = wake[b]
         /\ pc'[w] \in {then, "wake"}
         /\ At(w)' = then
         /\ WakingAt(w, AfterWake)'
<1> USE Distinct
<1>1. Typed /\ Counted
  BY DEF Inv
<1>2. SmallerOf(counters.sleeping, 2) \in Nat
  BY <1>1 DEF Typed, SmallerOf
<1>3. WakeAny(w, SmallerOf(counters.sleeping, 2), then)
      /\ counters' = [counters EXCEPT !.inactive = @ - 1]
      /\ announced' = [announced EXCEPT ![w] = FALSE]
  BY DEF WorkFound
<1>4. /\ pc'[w] \in {then, "wake"}
      /\ pc' \in [Actors -> WorkerLocs \cup ExternalLocs]
      /\ \A b \in Actors \ {w} : pc'[b] = pc[b] /\ wake'[b] = wake[b]
      /\ wake' \in [Actors -> WakeState]
      /\ WakingAt(w, {then})'
      /\ At(w)' = then
  BY <1>1, <1>2, <1>3, WakeAnyFacts
<1>5. WakingAt(w, AfterWake)'
  BY <1>4 DEF WakingAt
<1>6. pc[w] \in IdleLocs /\ pc'[w] \notin IdleLocs
      /\ pc[w] \notin {"check_injected", "block"} /\ pc'[w] \notin {"check_injected", "block"}
  BY <1>4 DEF IdleLocs, AfterWake
<1>7. Counted' /\ counters'.sleeping \in Nat /\ counters'.inactive \in Nat
  <2>1. \A v \in Workers \ {w} :
          /\ InSleepers(pc', is_blocked', v) <=> InSleepers(pc, is_blocked, v)
          /\ pc'[v] \in IdleLocs <=> pc[v] \in IdleLocs
          /\ is_blocked'[v] <=> is_blocked[v]
    BY <1>4 DEF InSleepers
  <2>2. One(InSleepers(pc', is_blocked', w)) = One(InSleepers(pc, is_blocked, w))
        /\ One(InSleepers(pc, is_blocked, w)) \in Nat
    BY <1>6 DEF InSleepers, One
  <2>3. One(pc'[w] \in IdleLocs) = 0 /\ One(pc[w] \in IdleLocs) = 1
    BY <1>6 DEF One
  <2>4. One(is_blocked'[w]) = One(is_blocked[w]) /\ One(is_blocked[w]) \in Nat
    BY DEF One
  <2>5. counters'.sleeping = counters.sleeping /\ counters'.inactive = counters.inactive - 1
        /\ counters.sleeping \in Nat /\ counters.inactive \in Nat /\ active \in Nat
    BY <1>1, <1>3 DEF Typed
  <2>6. /\ counters'.sleeping = counters.sleeping + One(InSleepers(pc', is_blocked', w))
                                  - One(InSleepers(pc, is_blocked, w))
        /\ counters'.inactive = counters.inactive + One(pc'[w] \in IdleLocs)
                                  - One(pc[w] \in IdleLocs)
        /\ active' = active - One(is_blocked'[w]) + One(is_blocked[w])
    BY <2>2, <2>3, <2>4, <2>5
  <2> QED
    BY <1>1, <2>1, <2>5, <2>6, CountedStep DEF Counted
<1>8. counters' \in [sleeping : Nat, inactive : Nat, jec : 0 .. JecSize - 1]
      /\ announced' \in [Workers -> BOOLEAN]
  BY <1>1, <1>3, <1>7 DEF Typed
<1> QED
  BY <1>4, <1>5, <1>7, <1>8

-----------------------------------------------------------------------------
(* The loop of a worker that looks for work. *)

\* Counting a step of one worker between places that are not wake or notify.
LEMMA CountedMove ==
  ASSUME Inv, NEW w \in Workers, NEW s \in Int, NEW i \in Int,
         \A v \in Workers \ {w} : pc'[v] = pc[v] /\ is_blocked'[v] = is_blocked[v],
         s = One(InSleepers(pc', is_blocked', w)) - One(InSleepers(pc, is_blocked, w)),
         i = One(pc'[w] \in IdleLocs) - One(pc[w] \in IdleLocs),
         active' = active - One(is_blocked'[w]) + One(is_blocked[w]),
         counters'.sleeping = counters.sleeping + s,
         counters'.inactive = counters.inactive + i
  PROVE  Counted' /\ counters'.sleeping \in Nat /\ counters'.inactive \in Nat /\ active' \in Nat
<1>1. Typed /\ Counted
  BY DEF Inv
<1>2. \A v \in Workers \ {w} :
        /\ InSleepers(pc', is_blocked', v) <=> InSleepers(pc, is_blocked, v)
        /\ pc'[v] \in IdleLocs <=> pc[v] \in IdleLocs
        /\ is_blocked'[v] <=> is_blocked[v]
  BY DEF InSleepers
<1>3. counters.sleeping \in Nat /\ counters.inactive \in Nat /\ active \in Nat
  BY <1>1 DEF Typed
<1>4. \A x : One(x) \in Int
  BY DEF One
<1>5. /\ counters'.sleeping = counters.sleeping + One(InSleepers(pc', is_blocked', w))
                                - One(InSleepers(pc, is_blocked, w))
      /\ counters'.inactive = counters.inactive + One(pc'[w] \in IdleLocs)
                                - One(pc[w] \in IdleLocs)
  BY <1>3, <1>4
<1> QED
  BY <1>1, <1>2, <1>3, <1>5, CountedStep DEF Counted

\* start_looking.
LEMMA StartLookingInv ==
  ASSUME Inv, NEW w \in Workers, start_looking(w)
  PROVE  Inv'
<1> USE Distinct
<1>1. Typed /\ Placed(w) /\ pc[w] = "root"
  BY DEF Inv, start_looking, Goto
<1> DEFINE x == IF terminate[w] = "set" THEN "stopped" ELSE "look"
           d == IF terminate[w] = "set" THEN 0 ELSE 1
<1>2. /\ x \in WorkerLocs /\ pc' = [pc EXCEPT ![w] = x]
      /\ UNCHANGED <<jobs_counter, announced, scan, is_blocked, active, terminate, child,
                     deque, injected, owner, left, waits, wake>>
  BY DEF start_looking, Goto, WorkerLocs, idleVars, poolVars
<1>3. /\ pc' \in [Actors -> WorkerLocs \cup ExternalLocs]
      /\ \A v \in Workers : pc'[v] \in WorkerLocs
      /\ \A e \in Externals : pc'[e] \in ExternalLocs
      /\ pc'[Pool] \in {"idle", "notify"}
      /\ pc'[w] = x
      /\ \A b \in Actors \ {w} : pc'[b] = pc[b]
  BY <1>1, <1>2, MoveFacts
<1>4. Counted' /\ counters'.sleeping \in Nat /\ counters'.inactive \in Nat /\ active' \in Nat
  <2>1. counters'.sleeping = counters.sleeping + 0 /\ counters'.inactive = counters.inactive + d
    BY <1>1 DEF start_looking, Typed
  <2>2. 0 = One(InSleepers(pc', is_blocked', w)) - One(InSleepers(pc, is_blocked, w))
    BY <1>1, <1>2, <1>3 DEF One, InSleepers
  <2>3. d = One(pc'[w] \in IdleLocs) - One(pc[w] \in IdleLocs)
    BY <1>1, <1>3 DEF One, IdleLocs
  <2>4. active' = active - One(is_blocked'[w]) + One(is_blocked[w])
    BY <1>1, <1>2 DEF One, Typed
  <2>5. d \in Int /\ 0 \in Int
    OBVIOUS
  <2> HIDE DEF d, x
  <2> QED
    BY <1>2, <1>3, <2>1, <2>2, <2>3, <2>4, <2>5, CountedMove
<1>5. Typed'
  <2>1. counters' \in [sleeping : Nat, inactive : Nat, jec : 0 .. JecSize - 1]
    BY <1>1, <1>4 DEF Typed, start_looking
  <2> QED
    BY <1>1, <1>2, <1>3, <2>1 DEF Typed
<1>6. Placed(w)'
  BY <1>1, <1>2, <1>3 DEF Placed, At, Joins, IdleLocs, Latch
<1>7. Shown(w)
  <2>1. WakingAt(w, AfterWake)' /\ ~Locked(w)' /\ ~is_blocked[w]' /\ ~Asleep(w)'
    BY <1>1, <1>2, <1>3 DEF WakingAt, Locked, Asleep, Placed
  <2> QED
    BY <1>4, <1>5, <1>6, <2>1 DEF Shown
<1>8. Local(w)
  BY <1>1, <1>2, <1>3 DEF Local, poolVars
<1> QED
  BY <1>7, <1>8, LocalKept

\* The latch a worker waits on has one of four states.
LEMMA LatchType ==
  ASSUME Typed, NEW w \in Workers
  PROVE  Latch(w) \in LatchStates
  BY DEF Typed, Latch, Joins

\* Places at which a worker holds its mutex, or waits with it released.
SleepLocs == {"check_jec", "check_injected", "block", "blocked"}

\* What a step of an idle worker w to place x, with y in its latch, has to do.
IdleStep(w, x, y) ==
  /\ pc' = [pc EXCEPT ![w] = x]
  /\ UNCHANGED <<deque, injected, owner, left, waits, wake>>
  /\ (y = Latch(w) /\ UNCHANGED <<child, terminate>>) \/ SetLatch(w, y)
  /\ (y # "set" /\ Latch(w) # "set") \/ y = Latch(w)
  /\ x = "scan" => ~Joins(w)
  /\ x \in SleepLocs => y \in {"sleeping", "set"}
  /\ is_blocked'[w] => x = "blocked"
  /\ \A v \in Workers \ {w} : is_blocked'[v] = is_blocked[v]
  /\ (x \in {"check_jec", "check_injected", "block"} \/ is_blocked'[w]) /\ y = "set"
       => Locked(w) \/ is_blocked[w]
  /\ ~Joins(w) /\ (is_blocked'[w] \/ x = "block") /\ injected > 0
       => is_blocked[w] \/ pc[w] = "block"
  /\ active' = active - One(is_blocked'[w]) + One(is_blocked[w])
  /\ \E s \in Int :
       /\ s = One(InSleepers(pc', is_blocked', w)) - One(InSleepers(pc, is_blocked, w))
       /\ counters'.sleeping = counters.sleeping + s
  /\ counters'.inactive = counters.inactive
  /\ counters' \in [sleeping : Int, inactive : Int, jec : 0 .. JecSize - 1]
  /\ jobs_counter' \in [Workers -> 0 .. JecSize - 1]
  /\ announced' \in [Workers -> BOOLEAN]
  /\ is_blocked' \in [Workers -> BOOLEAN]
  /\ scan' \in [Workers -> SUBSET Workers]

\* Such a step keeps the invariant.
LEMMA IdleInv ==
  ASSUME Inv, NEW w \in Workers, NEW x \in IdleLocs, NEW y \in LatchStates,
         pc[w] \in IdleLocs, IdleStep(w, x, y)
  PROVE  Inv'
<1> USE Distinct
<1>1. Typed /\ Placed(w)
  BY DEF Inv
<1>2. x \in WorkerLocs /\ pc' = [pc EXCEPT ![w] = x]
      /\ UNCHANGED <<deque, injected, owner, left, waits, wake>>
  BY DEF IdleStep, IdleLocs, WorkerLocs
<1>3. /\ pc' \in [Actors -> WorkerLocs \cup ExternalLocs]
      /\ \A v \in Workers : pc'[v] \in WorkerLocs
      /\ \A e \in Externals : pc'[e] \in ExternalLocs
      /\ pc'[Pool] \in {"idle", "notify"}
      /\ pc'[w] = x
      /\ \A b \in Actors \ {w} : pc'[b] = pc[b]
  BY <1>1, <1>2, MoveFacts
<1>4. /\ child' \in [Workers -> LatchStates \cup {"none"}]
      /\ terminate' \in [Workers -> LatchStates]
      /\ \A v \in Workers \ {w} : child'[v] = child[v] /\ terminate'[v] = terminate[v]
      /\ child'[w] = "none" <=> child[w] = "none"
      /\ Joins(w)' <=> Joins(w)
      /\ Latch(w)' = y
      /\ child'[w] = "set" <=> child[w] = "set"
      /\ terminate'[w] = "set" <=> terminate[w] = "set"
  <2>1. CASE y = Latch(w) /\ UNCHANGED <<child, terminate>>
    BY <1>1, <2>1 DEF Typed, Latch, Joins
  <2>2. CASE SetLatch(w, y)
    <3>1. (y # "set" /\ Latch(w) # "set") \/ y = Latch(w)
      BY DEF IdleStep
    <3> QED
      BY <1>1, <2>2, <3>1, SetLatchFacts
  <2> QED
    BY <2>1, <2>2 DEF IdleStep
<1>5. Counted' /\ counters'.sleeping \in Nat /\ counters'.inactive \in Nat /\ active' \in Nat
  <2>1. PICK s \in Int :
          /\ s = One(InSleepers(pc', is_blocked', w)) - One(InSleepers(pc, is_blocked, w))
          /\ counters'.sleeping = counters.sleeping + s
    BY DEF IdleStep
  <2>2. 0 = One(pc'[w] \in IdleLocs) - One(pc[w] \in IdleLocs)
    BY <1>3 DEF One
  <2>3. counters'.inactive = counters.inactive + 0
    BY <1>1 DEF IdleStep, Typed
  <2>4. /\ \A v \in Workers \ {w} : pc'[v] = pc[v] /\ is_blocked'[v] = is_blocked[v]
        /\ active' = active - One(is_blocked'[w]) + One(is_blocked[w])
    BY <1>3 DEF IdleStep
  <2>5. 0 \in Int
    OBVIOUS
  <2> QED
    BY <2>1, <2>2, <2>3, <2>4, <2>5, CountedMove
<1>6. Typed'
  <2>1. counters' \in [sleeping : Nat, inactive : Nat, jec : 0 .. JecSize - 1]
    BY <1>5 DEF IdleStep
  <2> QED
    BY <1>1, <1>2, <1>3, <1>4, <1>5, <2>1 DEF Typed, IdleStep
<1>7. At(w) = pc[w] /\ At(w)' = x
  BY <1>3 DEF At, IdleLocs
<1>8. Placed(w)'
  <2>1. ~deque[w] /\ (Joins(w) <=> owner[w] # None)
    BY <1>1, <1>7 DEF Placed, IdleLocs
  <2>2. x = "scan" => ~Joins(w)
    BY DEF IdleStep
  <2>3. x \in SleepLocs => y \in {"sleeping", "set"}
    BY DEF IdleStep
  <2>4. is_blocked'[w] => x = "blocked"
    BY DEF IdleStep
  <2> QED
    BY <1>2, <1>3, <1>4, <1>7, <2>1, <2>2, <2>3, <2>4 DEF Placed, IdleLocs, SleepLocs
<1>9. Shown(w)
  <2>1. WakingAt(w, AfterWake)'
    BY <1>3 DEF WakingAt, IdleLocs
  <2>2. (Locked(w) \/ is_blocked[w])' /\ Latch(w)' = "set"
          => (Locked(w) \/ is_blocked[w]) /\ Latch(w) = "set"
    BY <1>3, <1>4 DEF IdleStep, Locked
  <2>3. Asleep(w)' /\ injected > 0 => Asleep(w)
    BY <1>3, <1>4 DEF IdleStep, Asleep
  <2> QED
    BY <1>5, <1>6, <1>8, <2>1, <2>2, <2>3 DEF Shown
<1>10. Local(w)
  <2>1. pc[w] # "notify" /\ pc'[w] # "notify"
    BY <1>3 DEF IdleLocs
  <2>2. \A v \in Workers \ {w} : is_blocked'[v] = is_blocked[v]
    BY DEF IdleStep
  <2> QED
    BY <1>2, <1>3, <1>4, <2>1, <2>2 DEF Local, poolVars
<1> QED
  BY <1>9, <1>10, LocalKept

\* Between the places before the mutex is taken nothing is counted.
AwakeLocs == {"look", "scan", "no_work", "get_sleepy", "fall_asleep"}

\* A step of an idle worker between such places keeps the invariant.
LEMMA AwakeInv ==
  ASSUME Inv, NEW w \in Workers, NEW x \in AwakeLocs, NEW y \in LatchStates,
         pc[w] \in AwakeLocs, pc' = [pc EXCEPT ![w] = x],
         UNCHANGED <<is_blocked, active, deque, injected, owner, left, waits, wake>>,
         (y = Latch(w) /\ UNCHANGED <<child, terminate>>) \/ SetLatch(w, y),
         (y # "set" /\ Latch(w) # "set") \/ y = Latch(w),
         x = "scan" => ~Joins(w),
         counters'.sleeping = counters.sleeping, counters'.inactive = counters.inactive,
         counters' \in [sleeping : Int, inactive : Int, jec : 0 .. JecSize - 1],
         jobs_counter' \in [Workers -> 0 .. JecSize - 1],
         announced' \in [Workers -> BOOLEAN],
         scan' \in [Workers -> SUBSET Workers]
  PROVE  Inv'
<1> USE Distinct
<1>1. Typed /\ Placed(w)
  BY DEF Inv
<1>2. x \in IdleLocs /\ pc[w] \in IdleLocs /\ x \notin SleepLocs
  BY DEF AwakeLocs, IdleLocs, SleepLocs
<1>3. ~is_blocked[w] /\ ~is_blocked'[w]
  BY <1>1 DEF Placed, AwakeLocs
<1>4. pc'[w] = x
  BY <1>1 DEF Typed
<1>5. ~InSleepers(pc', is_blocked', w) /\ ~InSleepers(pc, is_blocked, w)
  BY <1>3, <1>4 DEF InSleepers, AwakeLocs
<1>6. \E s \in Int :
       /\ s = One(InSleepers(pc', is_blocked', w)) - One(InSleepers(pc, is_blocked, w))
       /\ counters'.sleeping = counters.sleeping + s
  <2>1. 0 = One(InSleepers(pc', is_blocked', w)) - One(InSleepers(pc, is_blocked, w))
    BY <1>5 DEF One
  <2>2. counters'.sleeping = counters.sleeping + 0 /\ 0 \in Int
    BY <1>1 DEF Typed
  <2> QED
    BY <2>1, <2>2
<1>7. active' = active - One(is_blocked'[w]) + One(is_blocked[w])
  BY <1>1, <1>3 DEF One, Typed
<1>8. x # "block" /\ x \notin {"check_jec", "check_injected", "block"}
  BY DEF AwakeLocs
<1>9. IdleStep(w, x, y)
  BY <1>1, <1>2, <1>3, <1>6, <1>7, <1>8 DEF IdleStep, Typed
<1> QED
  BY <1>2, <1>9, IdleInv

\* The head of the loop: leave with the latch set, or go on.
LEMMA ProbeInv ==
  ASSUME Inv, NEW w \in Workers, probe(w)
  PROVE  Inv'
<1> USE Distinct
<1>1. Typed /\ Placed(w) /\ pc[w] = "look" /\ ~is_blocked[w]
  BY DEF Inv, probe, Placed
<1>2. UNCHANGED <<is_blocked, active, terminate, child, deque, injected, owner, left, waits>>
  BY DEF probe, poolVars
<1>3. Latch(w) \in LatchStates
  BY <1>1, LatchType
<1>4. CASE /\ Latch(w) = "set"
           /\ WorkFound(w, IF Joins(w) THEN "join" ELSE "root")
           /\ UNCHANGED <<jobs_counter, scan>>
  <2> DEFINE x == IF Joins(w) THEN "join" ELSE "root"
  <2>1. x \in AfterWake /\ WorkFound(w, x)
    BY <1>4 DEF AfterWake
  <2>2. /\ Counted'
        /\ counters' \in [sleeping : Nat, inactive : Nat, jec : 0 .. JecSize - 1]
        /\ announced' \in [Workers -> BOOLEAN]
        /\ pc' \in [Actors -> WorkerLocs \cup ExternalLocs]
        /\ wake' \in [Actors -> WakeState]
        /\ \A b \in Actors \ {w} : pc'[b] = pc[b] /\ wake'[b] = wake[b]
        /\ pc'[w] \in {x, "wake"}
        /\ At(w)' = x
        /\ WakingAt(w, AfterWake)'
    <3> HIDE DEF x
    <3> QED BY <1>1, <1>2, <2>1, WorkFoundFacts
  <2>3. Typed'
    BY <1>1, <1>2, <1>4, <2>2 DEF Typed, WorkerLocs
  <2>4. Placed(w)'
    <3>1. /\ Joins(w)' <=> Joins(w)
          /\ Joins(w) <=> owner[w] # None
          /\ ~deque[w]
      BY <1>1, <1>2 DEF Joins, Placed, At, IdleLocs
    <3>2. At(w)' = x /\ pc'[w] \in {"join", "root", "wake"}
      BY <2>2
    <3> QED
      BY <1>1, <1>2, <3>1, <3>2 DEF Placed, IdleLocs
  <2>5. Shown(w)
    <3>1. ~Locked(w)' /\ ~is_blocked[w]' /\ ~Asleep(w)'
      BY <1>1, <1>2, <2>2 DEF Locked, Asleep
    <3> QED
      BY <2>2, <2>3, <2>4, <3>1 DEF Shown
  <2>6. Local(w)
    BY <1>1, <1>2, <2>2 DEF Local, poolVars
  <2> QED
    BY <2>5, <2>6, LocalKept
<1>5. CASE /\ Latch(w) # "set" /\ ~Joins(w)
           /\ pc' = [pc EXCEPT ![w] = "scan"]
           /\ scan' = [scan EXCEPT ![w] = Workers \ {w}]
           /\ UNCHANGED <<counters, jobs_counter, announced, wake>>
  <2>1. "scan" \in AwakeLocs /\ pc[w] \in AwakeLocs
    BY <1>1 DEF AwakeLocs
  <2>2. /\ counters' \in [sleeping : Int, inactive : Int, jec : 0 .. JecSize - 1]
        /\ jobs_counter' \in [Workers -> 0 .. JecSize - 1]
        /\ announced' \in [Workers -> BOOLEAN]
        /\ scan' \in [Workers -> SUBSET Workers]
    BY <1>1, <1>5 DEF Typed
  <2> QED
    BY <1>2, <1>5, <1>3, <2>1, <2>2, AwakeInv
<1>6. CASE /\ Latch(w) # "set" /\ Joins(w)
           /\ pc' = [pc EXCEPT ![w] = "no_work"]
           /\ UNCHANGED <<counters, idleVars, wake>>
  <2>1. "no_work" \in AwakeLocs /\ pc[w] \in AwakeLocs
    BY <1>1 DEF AwakeLocs
  <2>2. /\ counters' \in [sleeping : Int, inactive : Int, jec : 0 .. JecSize - 1]
        /\ jobs_counter' \in [Workers -> 0 .. JecSize - 1]
        /\ announced' \in [Workers -> BOOLEAN]
        /\ scan' \in [Workers -> SUBSET Workers]
    BY <1>1, <1>6 DEF Typed, idleVars
  <2> QED
    BY <1>2, <1>6, <1>3, <2>1, <2>2, AwakeInv
<1> QED
  BY <1>4, <1>5, <1>6 DEF probe

\* no_work_found: the worker announces itself, or is about to sleep.
LEMMA NoWorkFoundInv ==
  ASSUME Inv, NEW w \in Workers, no_work_found(w)
  PROVE  Inv'
<1> USE Distinct
<1>1. Typed /\ pc[w] = "no_work" /\ pc[w] \in AwakeLocs
      /\ "look" \in AwakeLocs /\ "get_sleepy" \in AwakeLocs
  BY DEF Inv, no_work_found, AwakeLocs
<1>2. UNCHANGED <<scan, is_blocked, active, terminate, child, deque, injected, owner, left,
                  waits, wake>>
  BY DEF no_work_found, poolVars
<1>3. Latch(w) \in LatchStates /\ scan' \in [Workers -> SUBSET Workers]
  BY <1>1, <1>2, LatchType DEF Typed
<1>4. CASE /\ ~announced[w]
           /\ counters' = [counters EXCEPT !.jec = Increment(@, FALSE)]
           /\ jobs_counter' = [jobs_counter EXCEPT ![w] = counters'.jec]
           /\ announced' = [announced EXCEPT ![w] = TRUE]
           /\ pc' = [pc EXCEPT ![w] = "look"]
  <2>0. PICK j \in 0 .. JecSize - 1 : j = Increment(counters.jec, FALSE)
    BY <1>1, IncrementType DEF Typed
  <2>1. counters' = [counters EXCEPT !.jec = j]
    BY <1>4, <2>0
  <2>2. /\ counters' \in [sleeping : Int, inactive : Int, jec : 0 .. JecSize - 1]
        /\ counters'.jec \in 0 .. JecSize - 1
        /\ counters'.sleeping = counters.sleeping /\ counters'.inactive = counters.inactive
    BY <1>1, <2>1 DEF Typed
  <2>3. /\ jobs_counter' \in [Workers -> 0 .. JecSize - 1]
        /\ announced' \in [Workers -> BOOLEAN]
    BY <1>1, <1>4, <2>2 DEF Typed
  <2> QED
    BY <1>1, <1>2, <1>3, <1>4, <2>2, <2>3, AwakeInv
<1>5. CASE /\ announced[w]
           /\ pc' = [pc EXCEPT ![w] = "get_sleepy"]
           /\ UNCHANGED <<counters, jobs_counter, announced>>
  <2>1. /\ counters' \in [sleeping : Int, inactive : Int, jec : 0 .. JecSize - 1]
        /\ counters'.sleeping = counters.sleeping /\ counters'.inactive = counters.inactive
        /\ jobs_counter' \in [Workers -> 0 .. JecSize - 1]
        /\ announced' \in [Workers -> BOOLEAN]
    BY <1>1, <1>5 DEF Typed
  <2> QED
    BY <1>1, <1>2, <1>3, <1>5, <2>1, AwakeInv
<1> QED
  BY <1>4, <1>5 DEF no_work_found

\* latch.get_sleepy.
LEMMA GetSleepyInv ==
  ASSUME Inv, NEW w \in Workers, get_sleepy(w)
  PROVE  Inv'
<1> USE Distinct
<1>1. Typed /\ pc[w] \in AwakeLocs /\ "look" \in AwakeLocs /\ "fall_asleep" \in AwakeLocs
  BY DEF Inv, get_sleepy, AwakeLocs
<1>2. UNCHANGED <<counters, jobs_counter, announced, scan, is_blocked, active, deque, injected,
                  owner, left, waits, wake>>
  BY DEF get_sleepy, poolVars, idleVars
<1>3. /\ Latch(w) \in LatchStates /\ scan' \in [Workers -> SUBSET Workers]
      /\ counters' \in [sleeping : Int, inactive : Int, jec : 0 .. JecSize - 1]
      /\ jobs_counter' \in [Workers -> 0 .. JecSize - 1]
      /\ announced' \in [Workers -> BOOLEAN]
  BY <1>1, <1>2, LatchType DEF Typed
<1>4. CASE Latch(w) = "unset"
  <2>1. SetLatch(w, "sleepy") /\ pc' = [pc EXCEPT ![w] = "fall_asleep"]
    BY <1>4 DEF get_sleepy
  <2>2. "sleepy" \in LatchStates
    BY DEF LatchStates
  <2> QED
    BY <1>1, <1>2, <1>3, <1>4, <2>1, <2>2, AwakeInv
<1>5. CASE Latch(w) # "unset"
  <2>1. UNCHANGED <<child, terminate>> /\ pc' = [pc EXCEPT ![w] = "look"]
    BY <1>5 DEF get_sleepy
  <2> QED
    BY <1>1, <1>2, <1>3, <1>5, <2>1, AwakeInv
<1> QED
  BY <1>4, <1>5

\* latch.fall_asleep, with the mutex taken.
LEMMA FallAsleepInv ==
  ASSUME Inv, NEW w \in Workers, fall_asleep(w)
  PROVE  Inv'
<1> USE Distinct
<1>1. Typed /\ Placed(w) /\ pc[w] = "fall_asleep" /\ pc[w] \in AwakeLocs /\ "look" \in AwakeLocs
  BY DEF Inv, fall_asleep, AwakeLocs
<1>2. UNCHANGED <<counters, jobs_counter, scan, is_blocked, active, deque, injected,
                  owner, left, waits, wake>>
  BY DEF fall_asleep, poolVars
<1>3. /\ Latch(w) \in LatchStates /\ scan' \in [Workers -> SUBSET Workers]
      /\ counters' \in [sleeping : Int, inactive : Int, jec : 0 .. JecSize - 1]
      /\ jobs_counter' \in [Workers -> 0 .. JecSize - 1]
      /\ announced' \in [Workers -> BOOLEAN]
  <2>1. announced' = announced \/ announced' = [announced EXCEPT ![w] = FALSE]
    BY DEF fall_asleep
  <2>2. announced' \in [Workers -> BOOLEAN]
    BY <1>1, <2>1 DEF Typed
  <2> QED
    BY <1>1, <1>2, <2>2, LatchType DEF Typed
<1>4. CASE Latch(w) = "sleepy"
  <2>1. SetLatch(w, "sleeping") /\ pc' = [pc EXCEPT ![w] = "check_jec"]
    BY <1>4 DEF fall_asleep
  <2>2. "sleeping" \in LatchStates /\ "check_jec" \in IdleLocs /\ pc[w] \in IdleLocs
        /\ "sleeping" # "set" /\ Latch(w) # "set"
    BY <1>1, <1>4 DEF LatchStates, IdleLocs
  <2>3. pc'[w] = "check_jec" /\ ~is_blocked[w]
    BY <1>1, <2>1 DEF Typed, Placed
  <2>4. \E s \in Int :
         /\ s = One(InSleepers(pc', is_blocked', w)) - One(InSleepers(pc, is_blocked, w))
         /\ counters'.sleeping = counters.sleeping + s
    <3>1. 0 = One(InSleepers(pc', is_blocked', w)) - One(InSleepers(pc, is_blocked, w))
      BY <1>1, <1>2, <2>3 DEF One, InSleepers
    <3>2. counters'.sleeping = counters.sleeping + 0 /\ 0 \in Int
      BY <1>1, <1>2 DEF Typed
    <3> QED
      BY <3>1, <3>2
  <2>5. active' = active - One(is_blocked'[w]) + One(is_blocked[w])
    BY <1>1, <1>2, <2>3 DEF One, Typed
  <2>6. IdleStep(w, "check_jec", "sleeping")
    BY <1>1, <1>2, <1>3, <2>1, <2>2, <2>3, <2>4, <2>5 DEF IdleStep, Typed
  <2> QED
    BY <2>2, <2>6, IdleInv
<1>5. CASE Latch(w) # "sleepy"
  <2>1. UNCHANGED <<child, terminate>> /\ pc' = [pc EXCEPT ![w] = "look"]
    BY <1>5 DEF fall_asleep
  <2> QED
    BY <1>1, <1>2, <1>3, <1>5, <2>1, AwakeInv
<1> QED
  BY <1>4, <1>5

\* Waking up: the worker is back at the head of its loop, counted as it was
\* or not at all.
LEMMA WakeUpInv ==
  ASSUME Inv, NEW w \in Workers, pc[w] \in SleepLocs, ~is_blocked[w], WakeUp(w),
         UNCHANGED <<jobs_counter, scan, is_blocked, active, deque, injected, owner, left,
                     waits, wake>>,
         counters' = IF InSleepers(pc, is_blocked, w)
                     THEN [counters EXCEPT !.sleeping = @ - 1] ELSE counters
  PROVE  Inv'
<1> USE Distinct
<1>1. Typed
  BY DEF Inv
<1> DEFINE y == IF Latch(w) = "sleeping" THEN "unset" ELSE Latch(w)
           s == IF InSleepers(pc, is_blocked, w) THEN 0 - 1 ELSE 0
<1>2. SetLatch(w, y) /\ pc' = [pc EXCEPT ![w] = "look"] /\ announced' = [announced EXCEPT ![w] = FALSE]
  BY DEF WakeUp
<1>3. y \in LatchStates /\ ((y # "set" /\ Latch(w) # "set") \/ y = Latch(w))
  BY <1>1, LatchType DEF LatchStates
<1>4. pc'[w] = "look" /\ "look" \in IdleLocs /\ pc[w] \in IdleLocs /\ "look" \notin SleepLocs
  BY <1>1, <1>2 DEF Typed, IdleLocs, SleepLocs
<1>5. /\ scan' \in [Workers -> SUBSET Workers]
      /\ counters' \in [sleeping : Int, inactive : Int, jec : 0 .. JecSize - 1]
      /\ counters'.inactive = counters.inactive
      /\ counters'.sleeping = counters.sleeping + s
      /\ jobs_counter' \in [Workers -> 0 .. JecSize - 1]
      /\ announced' \in [Workers -> BOOLEAN]
      /\ is_blocked' \in [Workers -> BOOLEAN]
  BY <1>1, <1>2 DEF Typed
<1>6. s \in Int /\ s = One(InSleepers(pc', is_blocked', w)) - One(InSleepers(pc, is_blocked, w))
  BY <1>4 DEF One, InSleepers
<1>7. active' = active - One(is_blocked'[w]) + One(is_blocked[w])
  BY <1>1 DEF One, Typed
<1>8. IdleStep(w, "look", y)
  <2> HIDE DEF y, s
  <2> QED
    BY <1>2, <1>3, <1>4, <1>5, <1>6, <1>7 DEF IdleStep
<1> QED
  BY <1>3, <1>4, <1>8, IdleInv

\* try_add_sleeping_thread, and the way back when the counter has moved.
LEMMA TryAddInv ==
  ASSUME Inv, NEW w \in Workers, try_add_sleeping_thread(w)
  PROVE  Inv'
<1> USE Distinct
<1>1. Typed /\ Placed(w) /\ pc[w] = "check_jec" /\ pc[w] \in SleepLocs /\ ~is_blocked[w]
      /\ ~InSleepers(pc, is_blocked, w)
  BY DEF Inv, try_add_sleeping_thread, SleepLocs, Placed, InSleepers
<1>2. UNCHANGED <<jobs_counter, scan, is_blocked, active, deque, injected, owner, left,
                  waits, wake>>
  BY DEF try_add_sleeping_thread, poolVars
<1>3. CASE counters.jec = jobs_counter[w]
  <2>1. /\ counters' = [counters EXCEPT !.sleeping = @ + 1]
        /\ pc' = [pc EXCEPT ![w] = "check_injected"]
        /\ UNCHANGED <<announced, child, terminate>>
    BY <1>3 DEF try_add_sleeping_thread
  <2>2. pc'[w] = "check_injected" /\ "check_injected" \in IdleLocs /\ pc[w] \in IdleLocs
    BY <1>1, <2>1 DEF Typed, IdleLocs
  <2>3. Latch(w) \in LatchStates /\ Latch(w) \in {"sleeping", "set"} /\ Locked(w)
    BY <1>1, LatchType DEF Placed, Locked
  <2>4. /\ scan' \in [Workers -> SUBSET Workers]
        /\ counters' \in [sleeping : Int, inactive : Int, jec : 0 .. JecSize - 1]
        /\ counters'.inactive = counters.inactive
        /\ counters'.sleeping = counters.sleeping + 1
        /\ jobs_counter' \in [Workers -> 0 .. JecSize - 1]
        /\ announced' \in [Workers -> BOOLEAN]
        /\ is_blocked' \in [Workers -> BOOLEAN]
    BY <1>1, <1>2, <2>1 DEF Typed
  <2>5. 1 = One(InSleepers(pc', is_blocked', w)) - One(InSleepers(pc, is_blocked, w)) /\ 1 \in Int
    BY <1>1, <2>2 DEF One, InSleepers
  <2>6. active' = active - One(is_blocked'[w]) + One(is_blocked[w])
    BY <1>1, <1>2 DEF One, Typed
  <2>7. IdleStep(w, "check_injected", Latch(w))
    BY <1>1, <1>2, <2>1, <2>2, <2>3, <2>4, <2>5, <2>6 DEF IdleStep
  <2> QED
    BY <2>2, <2>3, <2>7, IdleInv
<1>4. CASE counters.jec # jobs_counter[w]
  BY <1>1, <1>2, <1>4, WakeUpInv DEF try_add_sleeping_thread
<1> QED
  BY <1>3, <1>4

\* The last check for injected jobs.
LEMMA CheckInjectedInv ==
  ASSUME Inv, NEW w \in Workers, check_injected(w)
  PROVE  Inv'
<1> USE Distinct
<1>1. Typed /\ Placed(w) /\ pc[w] = "check_injected" /\ pc[w] \in SleepLocs /\ ~is_blocked[w]
      /\ InSleepers(pc, is_blocked, w)
  BY DEF Inv, check_injected, SleepLocs, Placed, InSleepers
<1>2. UNCHANGED <<jobs_counter, scan, is_blocked, active, deque, injected, owner, left,
                  waits, wake>>
  BY DEF check_injected, poolVars
<1>3. CASE ~Joins(w) /\ injected > 0
  BY <1>1, <1>2, <1>3, WakeUpInv DEF check_injected
<1>4. CASE ~(~Joins(w) /\ injected > 0)
  <2>1. pc' = [pc EXCEPT ![w] = "block"] /\ UNCHANGED <<counters, announced, child, terminate>>
    BY <1>4 DEF check_injected
  <2>2. pc'[w] = "block" /\ "block" \in IdleLocs /\ pc[w] \in IdleLocs
    BY <1>1, <2>1 DEF Typed, IdleLocs
  <2>3. Latch(w) \in LatchStates /\ Latch(w) \in {"sleeping", "set"} /\ Locked(w)
    BY <1>1, LatchType DEF Placed, Locked
  <2>4. /\ scan' \in [Workers -> SUBSET Workers]
        /\ counters' \in [sleeping : Int, inactive : Int, jec : 0 .. JecSize - 1]
        /\ counters'.inactive = counters.inactive
        /\ counters'.sleeping = counters.sleeping + 0
        /\ jobs_counter' \in [Workers -> 0 .. JecSize - 1]
        /\ announced' \in [Workers -> BOOLEAN]
        /\ is_blocked' \in [Workers -> BOOLEAN]
    BY <1>1, <1>2, <2>1 DEF Typed
  <2>5. 0 = One(InSleepers(pc', is_blocked', w)) - One(InSleepers(pc, is_blocked, w)) /\ 0 \in Int
    BY <1>1, <2>2 DEF One, InSleepers
  <2>6. active' = active - One(is_blocked'[w]) + One(is_blocked[w])
    BY <1>1, <1>2 DEF One, Typed
  <2>7. IdleStep(w, "block", Latch(w))
    BY <1>1, <1>2, <1>4, <2>1, <2>2, <2>3, <2>4, <2>5, <2>6 DEF IdleStep
  <2> QED
    BY <2>2, <2>3, <2>7, IdleInv
<1> QED
  BY <1>3, <1>4

\* The worker waits on its condition variable.
LEMMA BlockInv ==
  ASSUME Inv, NEW w \in Workers, block(w)
  PROVE  Inv'
<1> USE Distinct
<1>1. Typed /\ Placed(w) /\ pc[w] = "block" /\ ~is_blocked[w] /\ pc[w] \in IdleLocs
      /\ "blocked" \in IdleLocs
  BY DEF Inv, block, Goto, Placed, IdleLocs
<1>2. /\ pc' = [pc EXCEPT ![w] = "blocked"] /\ is_blocked' = [is_blocked EXCEPT ![w] = TRUE]
      /\ active' = active - 1
      /\ UNCHANGED <<counters, jobs_counter, announced, scan, terminate, child, deque, injected,
                     owner, left, waits, wake>>
  BY DEF block, Goto, idleVars, poolVars
<1>3. pc'[w] = "blocked" /\ is_blocked'[w]
      /\ \A v \in Workers \ {w} : is_blocked'[v] = is_blocked[v]
  BY <1>1, <1>2 DEF Typed
<1>4. Latch(w) \in LatchStates /\ Latch(w) \in {"sleeping", "set"} /\ Locked(w)
  BY <1>1, LatchType DEF Placed, Locked
<1>5. /\ scan' \in [Workers -> SUBSET Workers]
      /\ counters' \in [sleeping : Int, inactive : Int, jec : 0 .. JecSize - 1]
      /\ counters'.inactive = counters.inactive
      /\ counters'.sleeping = counters.sleeping + 0
      /\ jobs_counter' \in [Workers -> 0 .. JecSize - 1]
      /\ announced' \in [Workers -> BOOLEAN]
      /\ is_blocked' \in [Workers -> BOOLEAN]
  BY <1>1, <1>2 DEF Typed
<1>6. 0 = One(InSleepers(pc', is_blocked', w)) - One(InSleepers(pc, is_blocked, w)) /\ 0 \in Int
  BY <1>1, <1>3 DEF One, InSleepers
<1>7. active' = active - One(is_blocked'[w]) + One(is_blocked[w])
  BY <1>1, <1>2, <1>3 DEF One, Typed
<1>8. IdleStep(w, "blocked", Latch(w))
  BY <1>1, <1>2, <1>3, <1>4, <1>5, <1>6, <1>7 DEF IdleStep
<1> QED
  BY <1>1, <1>4, <1>8, IdleInv

\* The wait ends.
LEMMA ResumeInv ==
  ASSUME Inv, NEW w \in Workers, resume(w)
  PROVE  Inv'
<1>1. pc[w] \in SleepLocs /\ ~is_blocked[w] /\ ~InSleepers(pc, is_blocked, w) /\ WakeUp(w)
  BY DEF resume, SleepLocs, InSleepers
<1>2. UNCHANGED <<counters, jobs_counter, scan, is_blocked, active, deque, injected, owner, left,
                  waits, wake>>
  BY DEF resume, poolVars
<1> QED
  BY <1>1, <1>2, WakeUpInv

-----------------------------------------------------------------------------
(* Announcing jobs. *)

\* new_jobs changes the jobs event counter and nothing that is counted.
LEMMA NewJobsFacts ==
  ASSUME Inv, NEW a \in Workers \cup Externals, NEW from, NEW first \in BOOLEAN,
         NEW then \in AfterWake \cup {"wait"}, new_jobs(a, from, first, then),
         from \notin IdleLocs
  PROVE  /\ Counted'
         /\ counters' \in [sleeping : Nat, inactive : Nat, jec : 0 .. JecSize - 1]
         /\ ToWake(counters, first) \in Nat
         /\ pc'[a] = IF ToWake(counters, first) = 0 THEN then ELSE "wake"
         /\ pc' \in [Actors -> WorkerLocs \cup ExternalLocs]
         /\ \A b \in Actors \ {a} : pc'[b] = pc[b] /\ wake'[b] = wake[b]
         /\ wake' \in [Actors -> WakeState]
         /\ WakingAt(a, {then})'
         /\ At(a)' = then
<1> USE Distinct
<1>1. Typed /\ Counted /\ pc[a] = from /\ UNCHANGED <<is_blocked, active>>
  BY DEF Inv, new_jobs
<1>2. PICK j \in 0 .. JecSize - 1 : j = Increment(counters.jec, TRUE)
  BY <1>1, IncrementType DEF Typed
<1>3. counters' = [counters EXCEPT !.jec = j]
  BY <1>2 DEF new_jobs
<1>4. /\ counters' \in [sleeping : Nat, inactive : Nat, jec : 0 .. JecSize - 1]
      /\ counters'.sleeping = counters.sleeping /\ counters'.inactive = counters.inactive
      /\ counters.sleeping \in Nat /\ counters.inactive \in Nat
  BY <1>1, <1>3 DEF Typed
<1>5. ToWake(counters, first) \in Nat
  BY <1>4 DEF ToWake, SmallerOf
<1>6. /\ pc'[a] = IF ToWake(counters, first) = 0 THEN then ELSE "wake"
      /\ pc' \in [Actors -> WorkerLocs \cup ExternalLocs]
      /\ \A b \in Actors \ {a} : pc'[b] = pc[b] /\ wake'[b] = wake[b]
      /\ wake' \in [Actors -> WakeState]
      /\ WakingAt(a, {then})'
      /\ At(a)' = then
  <2>1. WakeAny(a, ToWake(counters, first), then)
    BY DEF new_jobs
  <2> QED
    BY <1>1, <1>5, <2>1, WakeAnyFacts
<1>7. Counted'
  <2>1. pc'[a] \notin IdleLocs /\ pc'[a] \notin {"check_injected", "block"}
        /\ pc[a] \notin {"check_injected", "block"}
    BY <1>1, <1>6 DEF IdleLocs, AfterWake
  <2>2. SleepersOf(pc', is_blocked') = SleepersOf(pc, is_blocked)
    BY <1>1, <1>6, <2>1 DEF SleepersOf
  <2>3. IdlersOf(pc') = IdlersOf(pc)
    BY <1>1, <1>6, <2>1 DEF IdlersOf
  <2> QED
    BY <1>1, <1>4, <2>2, <2>3 DEF Counted, CountedOf
<1> QED
  BY <1>4, <1>5, <1>6, <1>7

\* A worker announces the child it has pushed.
LEMMA NewInternalInv ==
  ASSUME Inv, NEW w \in Workers, new_internal_jobs(w)
  PROVE  Inv'
<1> USE Distinct
<1>1. Typed /\ Placed(w) /\ pc[w] = "new" /\ ~is_blocked[w]
  BY DEF Inv, new_internal_jobs, new_jobs, Placed
<1>2. UNCHANGED <<jobs_counter, announced, scan, is_blocked, active, terminate, child, deque,
                  injected, owner, left, waits>>
  BY DEF new_internal_jobs, new_jobs, idleVars, poolVars
<1>3. /\ Counted'
      /\ counters' \in [sleeping : Nat, inactive : Nat, jec : 0 .. JecSize - 1]
      /\ pc'[w] \in {"join", "wake"}
      /\ pc' \in [Actors -> WorkerLocs \cup ExternalLocs]
      /\ \A b \in Actors \ {w} : pc'[b] = pc[b] /\ wake'[b] = wake[b]
      /\ wake' \in [Actors -> WakeState]
      /\ WakingAt(w, {"join"})'
      /\ At(w)' = "join"
  <2>1. "join" \in AfterWake /\ "new" \notin IdleLocs
    BY DEF AfterWake, IdleLocs
  <2>2. new_jobs(w, "new", TRUE, "join")
    BY DEF new_internal_jobs
  <2> QED
    BY <2>1, <2>2, NewJobsFacts
<1>4. Typed'
  BY <1>1, <1>2, <1>3 DEF Typed, WorkerLocs
<1>5. Placed(w)'
  <2>1. At(w) = "new" /\ Joins(w)' = Joins(w)
    BY <1>1, <1>2 DEF At, Joins
  <2> QED
    BY <1>1, <1>2, <1>3, <2>1 DEF Placed, IdleLocs
<1>6. Shown(w)
  <2>1. ~Locked(w)' /\ ~is_blocked[w]' /\ ~Asleep(w)'
    BY <1>1, <1>2, <1>3 DEF Locked, Asleep
  <2>2. WakingAt(w, AfterWake)'
    BY <1>3 DEF WakingAt, AfterWake
  <2> QED
    BY <1>3, <1>4, <1>5, <2>1, <2>2 DEF Shown
<1>7. Local(w)
  BY <1>1, <1>2, <1>3 DEF Local, poolVars
<1> QED
  BY <1>6, <1>7, LocalKept

-----------------------------------------------------------------------------
(* Steps of an external thread that leave the workers alone. *)

External(e) ==
  /\ \A b \in Actors \ {e} : pc'[b] = pc[b] /\ wake'[b] = wake[b]
  /\ UNCHANGED <<jobs_counter, announced, scan, is_blocked, active, terminate, child, deque,
                 owner>>

\* Such a step keeps the invariant if the queue stays right and the thread
\* does not leave a pool asleep.
LEMMA ExternalKept ==
  ASSUME Inv, NEW e \in Externals, External(e), Typed', Counted', WakingAt(e, {"wait"})',
         Injected', ~Finished, Seen'
  PROVE  Inv'
<1> USE Distinct
<1>1. \A v \in Workers : pc'[v] = pc[v] /\ wake'[v] = wake[v]
      /\ pc'[Pool] = pc[Pool] /\ wake'[Pool] = wake[Pool]
  BY DEF External
<1>2. Waking'
  <2>1. \A v \in Workers : WakingAt(v, AfterWake)'
    BY <1>1 DEF Inv, Waking, WakingAt
  <2>2. \A x \in Externals : WakingAt(x, {"wait"})'
    BY DEF Inv, Waking, WakingAt, External
  <2>3. pc'[Pool] = "notify" => wake'[Pool].i < N
    BY DEF Inv, Waking, External
  <2> QED
    BY <2>1, <2>2, <2>3 DEF Waking
<1>3. ASSUME NEW v \in Workers PROVE Placed(v)'
  <2>1. Placed(v)
    BY DEF Inv
  <2> QED
    BY <1>1, <2>1, PlacedKept DEF External
<1>4. Joined' /\ Grounded'
  <2>1. \A v \in Workers : For(v)' = For(v) /\ child'[v] = child[v]
    BY <1>1 DEF For, External
  <2> QED
    BY <2>1, JoinedKept DEF Inv, External
<1>5. Terminated'
  <2>1. ~(pc[Pool] = "notify" \/ \E v \in Workers : terminate[v] = "set")
    BY DEF Inv, Terminated
  <2> QED
    BY <2>1 DEF Terminated, External
<1>6. ASSUME NEW v \in Workers PROVE NoticedAt(v)'
  <2>1. (Notifier(v) => Notifier(v)') /\ Latch(v)' = Latch(v) /\ (Locked(v)' <=> Locked(v))
    BY <1>1 DEF Notifier, External, Latch, Joins, Locked
  <2>2. NoticedAt(v)
    BY DEF Inv
  <2> QED
    BY <2>1, <2>2 DEF NoticedAt, External
<1> QED
  BY <1>2, <1>3, <1>4, <1>5, <1>6 DEF Inv

\* A thread that moves from one place to another, of those that exist.
LEMMA ExternalMove ==
  ASSUME Typed, NEW e \in Externals, NEW x \in ExternalLocs, pc' = [pc EXCEPT ![e] = x]
  PROVE  /\ pc' \in [Actors -> WorkerLocs \cup ExternalLocs]
         /\ \A v \in Workers : pc'[v] \in WorkerLocs
         /\ \A d \in Externals : pc'[d] \in ExternalLocs
         /\ pc'[Pool] \in {"idle", "notify"}
         /\ pc'[e] = x
         /\ \A b \in Actors \ {e} : pc'[b] = pc[b]
  BY Distinct DEF Typed

\* Its moves are not counted.
LEMMA ExternalCounted ==
  ASSUME Inv, NEW e \in Externals, UNCHANGED <<counters, is_blocked, active>>,
         \A b \in Actors \ {e} : pc'[b] = pc[b]
  PROVE  Counted'
<1>1. \A v \in Workers : pc'[v] = pc[v]
  BY Distinct
<1>2. SleepersOf(pc', is_blocked') = SleepersOf(pc, is_blocked) /\ IdlersOf(pc') = IdlersOf(pc)
  BY <1>1 DEF SleepersOf, IdlersOf
<1> QED
  BY <1>2 DEF Inv, Counted, CountedOf

\* The workers sleep as before.
LEMMA AsleepKept ==
  ASSUME UNCHANGED <<child, is_blocked>>, \A v \in Workers : pc'[v] = pc[v]
  PROVE  \A v \in Workers : Asleep(v)' <=> Asleep(v)
  BY DEF Asleep, Joins

\* inject, up to the push.
LEMMA InjectInv ==
  ASSUME Inv, NEW e \in Externals, inject(e)
  PROVE  Inv'
<1> USE Distinct
<1>1. Typed /\ Injected /\ Seen /\ pc[e] = "idle" /\ left.injects[e] > 0
  BY DEF Inv, inject, Goto
<1> DEFINE x == IF injected = 0 THEN "push_to_empty" ELSE "push"
<1>2. /\ x \in ExternalLocs /\ pc' = [pc EXCEPT ![e] = x]
      /\ left' = [left EXCEPT !.injects[e] = @ - 1]
      /\ UNCHANGED <<counters, jobs_counter, announced, scan, is_blocked, active, terminate,
                     child, deque, injected, owner, waits, wake>>
  BY DEF inject, Goto, ExternalLocs, idleVars
<1>3. /\ pc' \in [Actors -> WorkerLocs \cup ExternalLocs]
      /\ \A v \in Workers : pc'[v] \in WorkerLocs
      /\ \A d \in Externals : pc'[d] \in ExternalLocs
      /\ pc'[Pool] \in {"idle", "notify"}
      /\ pc'[e] = x
      /\ \A b \in Actors \ {e} : pc'[b] = pc[b]
  <2> HIDE DEF x
  <2> QED
    BY <1>1, <1>2, ExternalMove
<1>4. left' \in [injects : [Externals -> Nat], forks : Nat]
  <2>1. left.injects \in [Externals -> Nat] /\ left.forks \in Nat /\ left.injects[e] - 1 \in Nat
    BY <1>1 DEF Typed
  <2>2. [left.injects EXCEPT ![e] = @ - 1] \in [Externals -> Nat]
    BY <2>1
  <2>3. left' = [left EXCEPT !.injects = [left.injects EXCEPT ![e] = @ - 1]]
    BY <1>2
  <2> QED
    BY <1>1, <2>2, <2>3 DEF Typed
<1>5. Typed'
  BY <1>1, <1>2, <1>3, <1>4 DEF Typed
<1>6. Counted'
  BY <1>2, <1>3, ExternalCounted
<1>7. WakingAt(e, {"wait"})'
  BY <1>3 DEF WakingAt
<1>8. Injected'
  BY <1>1, <1>2, <1>3 DEF Injected, Typed
<1>9. ~Finished
  BY <1>1 DEF Finished
<1>10. Seen'
  <2>1. \A v \in Workers : Asleep(v)' <=> Asleep(v)
    BY <1>2, <1>3, AsleepKept
  <2>2. \A d \in Externals : Waker(d) => Waker(d)'
    BY <1>1, <1>3 DEF Waker
  <2> QED
    BY <1>1, <1>2, <2>1, <2>2 DEF Seen
<1>11. External(e)
  BY <1>2, <1>3 DEF External
<1> QED
  BY <1>5, <1>6, <1>7, <1>8, <1>9, <1>10, <1>11, ExternalKept

\* The push: one job more, and its thread is going to announce it.
LEMMA InjectPushInv ==
  ASSUME Inv, NEW e \in Externals, inject_push(e)
  PROVE  Inv'
<1> USE Distinct
<1>1. Typed /\ Injected /\ pc[e] \in {"push_to_empty", "push"}
  BY DEF Inv, inject_push, Goto
<1>2. PICK x \in {"new_first", "new"} : pc' = [pc EXCEPT ![e] = x]
  BY DEF inject_push, Goto
<1>3. /\ injected' = injected + 1 /\ waits' = waits \cup {e} /\ x \in ExternalLocs
      /\ UNCHANGED <<counters, jobs_counter, announced, scan, is_blocked, active, terminate,
                     child, deque, owner, left, wake>>
  BY <1>2 DEF inject_push, idleVars, ExternalLocs
<1>4. /\ pc' \in [Actors -> WorkerLocs \cup ExternalLocs]
      /\ \A v \in Workers : pc'[v] \in WorkerLocs
      /\ \A d \in Externals : pc'[d] \in ExternalLocs
      /\ pc'[Pool] \in {"idle", "notify"}
      /\ pc'[e] = x
      /\ \A b \in Actors \ {e} : pc'[b] = pc[b]
  BY <1>1, <1>2, <1>3, ExternalMove
<1>5. Typed'
  BY <1>1, <1>3, <1>4 DEF Typed
<1>6. Counted'
  BY <1>3, <1>4, ExternalCounted
<1>7. WakingAt(e, {"wait"})'
  BY <1>4 DEF WakingAt
<1>8. Injected'
  <2>1. e \notin waits /\ \A v \in Workers : owner[v] # e
    BY <1>1 DEF Injected
  <2>2. UntakenOf(waits', owner') = UntakenOf(waits, owner) \cup {e}
        /\ e \notin UntakenOf(waits, owner)
    BY <1>3, <2>1 DEF UntakenOf
  <2>3. IsFiniteSet(UntakenOf(waits, owner))
    <3>1. UntakenOf(waits, owner) \subseteq Externals
      BY <1>1 DEF UntakenOf, Typed
    <3> QED
      BY <3>1, FS_Subset, ConstantsAssumption
  <2>4. Cardinality(UntakenOf(waits', owner')) = Cardinality(UntakenOf(waits, owner)) + 1
    BY <2>2, <2>3, FS_AddElement
  <2>5. injected' = Cardinality(UntakenOf(waits', owner'))
    BY <1>1, <1>3, <2>4 DEF Injected
  <2> QED
    BY <1>1, <1>2, <1>3, <1>4, <2>5 DEF Injected, Typed
<1>9. ~Finished
  BY <1>1 DEF Finished
<1>10. Seen'
  BY <1>4 DEF Seen, Waker
<1>11. External(e)
  BY <1>3, <1>4 DEF External
<1> QED
  BY <1>5, <1>6, <1>7, <1>8, <1>9, <1>10, <1>11, ExternalKept

\* A pool that sleeps as a whole is counted as one, so that an announcement
\* wakes a worker.
LEMMA AllAsleepWakes ==
  ASSUME Inv, \A w \in Workers : Asleep(w), NEW first \in BOOLEAN
  PROVE  ToWake(counters, first) = 1
<1>1. SleepersOf(pc, is_blocked) = Workers /\ IdlersOf(pc) = Workers
  BY DEF Inv, Placed, Asleep, SleepersOf, IdlersOf, IdleLocs
<1>2. counters.sleeping = N /\ counters.inactive = N /\ N \in Nat /\ N > 0
  BY <1>1, WorkersFinite, ConstantsAssumption DEF Inv, Counted, CountedOf
<1>3. SmallerOf(1, N) = 1 /\ SmallerOf(1 - (N - N), N) = 1 /\ N - N < 1
  BY <1>2 DEF SmallerOf
<1> QED
  BY <1>2, <1>3 DEF ToWake

\* The announcement.
LEMMA NewInjectedInv ==
  ASSUME Inv, NEW e \in Externals, new_injected_jobs(e)
  PROVE  Inv'
<1> USE Distinct
<1>1. PICK first \in BOOLEAN, from \in {"new_first", "new"} : new_jobs(e, from, first, "wait")
  BY DEF new_injected_jobs
<1>2. Typed /\ Injected /\ Seen /\ pc[e] = from /\ "wait" \in AfterWake \cup {"wait"}
      /\ from \notin IdleLocs
  BY <1>1 DEF Inv, new_jobs, IdleLocs
<1>3. UNCHANGED <<jobs_counter, announced, scan, is_blocked, active, terminate, child, deque,
                  injected, owner, left, waits>>
  BY <1>1 DEF new_jobs, idleVars, poolVars
<1>4. /\ Counted'
      /\ counters' \in [sleeping : Nat, inactive : Nat, jec : 0 .. JecSize - 1]
      /\ pc'[e] = IF ToWake(counters, first) = 0 THEN "wait" ELSE "wake"
      /\ pc' \in [Actors -> WorkerLocs \cup ExternalLocs]
      /\ \A b \in Actors \ {e} : pc'[b] = pc[b] /\ wake'[b] = wake[b]
      /\ wake' \in [Actors -> WakeState]
      /\ WakingAt(e, {"wait"})'
  BY <1>1, <1>2, NewJobsFacts
<1>5. Typed'
  BY <1>2, <1>3, <1>4 DEF Typed, ExternalLocs
<1>6. Injected'
  BY <1>2, <1>3, <1>4 DEF Injected, Typed
<1>7. ~Finished
  BY <1>2 DEF Finished
<1>8. Seen'
  <2> SUFFICES ASSUME \A v \in Workers : Asleep(v)' PROVE (\E d \in Externals : Waker(d))'
    BY DEF Seen
  <2>1. \A v \in Workers : Asleep(v)
    BY <1>3, <1>4, AsleepKept
  <2>2. ToWake(counters, first) = 1
    BY <2>1, AllAsleepWakes
  <2>3. Waker(e)'
    BY <1>4, <2>2 DEF Waker
  <2> QED
    BY <2>3
<1>9. External(e)
  BY <1>3, <1>4 DEF External
<1> QED
  BY <1>4, <1>5, <1>6, <1>7, <1>8, <1>9, ExternalKept

\* The thread's job is done.
LEMMA ExternalWaitInv ==
  ASSUME Inv, NEW e \in Externals, external_wait(e)
  PROVE  Inv'
<1> USE Distinct
<1>1. Typed /\ Injected /\ Seen /\ pc[e] = "wait" /\ e \notin waits /\ "idle" \in ExternalLocs
  BY DEF Inv, external_wait, Goto, ExternalLocs
<1>2. /\ pc' = [pc EXCEPT ![e] = "idle"]
      /\ UNCHANGED <<counters, jobs_counter, announced, scan, is_blocked, active, terminate,
                     child, deque, injected, owner, left, waits, wake>>
  BY DEF external_wait, Goto, idleVars, poolVars
<1>3. /\ pc' \in [Actors -> WorkerLocs \cup ExternalLocs]
      /\ \A v \in Workers : pc'[v] \in WorkerLocs
      /\ \A d \in Externals : pc'[d] \in ExternalLocs
      /\ pc'[Pool] \in {"idle", "notify"}
      /\ pc'[e] = "idle"
      /\ \A b \in Actors \ {e} : pc'[b] = pc[b]
  BY <1>1, <1>2, ExternalMove
<1>4. Typed'
  BY <1>1, <1>2, <1>3 DEF Typed
<1>5. Counted'
  BY <1>2, <1>3, ExternalCounted
<1>6. WakingAt(e, {"wait"})'
  BY <1>3 DEF WakingAt
<1>7. Injected'
  BY <1>1, <1>2, <1>3 DEF Injected, Typed
<1>8. ~Finished
  BY <1>1 DEF Finished
<1>9. Seen'
  <2>1. \A v \in Workers : Asleep(v)' <=> Asleep(v)
    BY <1>2, <1>3, AsleepKept
  <2>2. \A d \in Externals : Waker(d) => Waker(d)'
    BY <1>1, <1>3 DEF Waker
  <2> QED
    BY <1>1, <1>2, <2>1, <2>2 DEF Seen
<1>10. External(e)
  BY <1>2, <1>3 DEF External
<1> QED
  BY <1>4, <1>5, <1>6, <1>7, <1>8, <1>9, <1>10, ExternalKept

-----------------------------------------------------------------------------
(* Waking one worker. *)

\* wake_specific_thread takes the worker's flag, and the counts with it.
LEMMA WakeSpecificFacts ==
  ASSUME Inv, NEW x \in Workers, NEW a \in Actors, WakeSpecific(x),
         \A b \in Actors \ {a} : pc'[b] = pc[b], pc[a] \notin IdleLocs, pc'[a] \notin IdleLocs
  PROVE  /\ Counted'
         /\ counters' \in [sleeping : Nat, inactive : Nat, jec : 0 .. JecSize - 1]
         /\ active' \in Nat
         /\ is_blocked' \in [Workers -> BOOLEAN]
         /\ ~is_blocked'[x]
         /\ \A v \in Workers \ {x} : is_blocked'[v] = is_blocked[v]
         /\ ~Locked(x) /\ ~Locked(x)'
<1> USE Distinct
<1>1. Typed /\ Counted /\ Placed(x)
  BY DEF Inv
<1>2. ~Locked(x) /\ ~Locked(x)'
  <2>1. ~Locked(x)
    BY DEF WakeSpecific
  <2> QED
    BY <2>1 DEF Locked, IdleLocs
<1>3. /\ is_blocked' \in [Workers -> BOOLEAN] /\ ~is_blocked'[x]
      /\ \A v \in Workers \ {x} : is_blocked'[v] = is_blocked[v]
  <2>1. is_blocked \in [Workers -> BOOLEAN]
    BY <1>1 DEF Typed
  <2>2. CASE is_blocked[x]
    BY <2>1, <2>2 DEF WakeSpecific
  <2>3. CASE ~is_blocked[x]
    BY <2>1, <2>3 DEF WakeSpecific
  <2> QED
    BY <2>2, <2>3
<1> DEFINE s == IF is_blocked[x] THEN 1 ELSE 0
<1>4. /\ counters'.sleeping = counters.sleeping - s /\ counters'.inactive = counters.inactive
      /\ counters' \in [sleeping : Int, inactive : Int, jec : 0 .. JecSize - 1]
      /\ active' = active + s
      /\ counters.sleeping \in Nat /\ counters.inactive \in Nat /\ active \in Nat
  BY <1>1 DEF WakeSpecific, Typed
<1>5. \A v \in Workers \ {x} :
        /\ InSleepers(pc', is_blocked', v) <=> InSleepers(pc, is_blocked, v)
        /\ pc'[v] \in IdleLocs <=> pc[v] \in IdleLocs
        /\ is_blocked'[v] <=> is_blocked[v]
  BY <1>3 DEF InSleepers, IdleLocs
<1>6. One(InSleepers(pc', is_blocked', x)) = 0 /\ One(InSleepers(pc, is_blocked, x)) = s
  <2>1. ~InSleepers(pc', is_blocked', x) /\ (InSleepers(pc, is_blocked, x) <=> is_blocked[x])
    BY <1>2, <1>3 DEF InSleepers, Locked
  <2> QED
    BY <2>1 DEF One
<1>7. One(pc'[x] \in IdleLocs) = One(pc[x] \in IdleLocs) /\ One(pc[x] \in IdleLocs) \in Int
  BY DEF One
<1>8. One(is_blocked'[x]) = 0 /\ One(is_blocked[x]) = s
  BY <1>3 DEF One
<1>9. s \in Nat
  OBVIOUS
<1>10. /\ counters'.sleeping = counters.sleeping + One(InSleepers(pc', is_blocked', x))
                                - One(InSleepers(pc, is_blocked, x))
       /\ counters'.inactive = counters.inactive + One(pc'[x] \in IdleLocs)
                                - One(pc[x] \in IdleLocs)
       /\ active' = active - One(is_blocked'[x]) + One(is_blocked[x])
  <2> HIDE DEF s
  <2> QED
    BY <1>4, <1>6, <1>7, <1>8, <1>9
<1>11. Counted' /\ counters'.sleeping \in Nat /\ counters'.inactive \in Nat /\ active' \in Nat
  BY <1>1, <1>4, <1>5, <1>10, CountedStep DEF Counted
<1> QED
  BY <1>2, <1>3, <1>4, <1>11

\* A step that wakes x keeps the invariant if the actor's own part is kept
\* and a notifier only leaves the worker it has woken.
LEMMA WakeKept ==
  ASSUME Inv, NEW x \in Workers, NEW a \in Actors, WakeSpecific(x),
         pc[a] \notin IdleLocs, pc'[a] \notin IdleLocs,
         \A b \in Actors \ {a} : pc'[b] = pc[b] /\ wake'[b] = wake[b],
         \A v \in Workers \ {a} : owner'[v] = owner[v],
         UNCHANGED <<jobs_counter, announced, scan, terminate, child, deque, injected, left, waits>>,
         pc' \in [Actors -> WorkerLocs \cup ExternalLocs],
         \A v \in Workers : pc'[v] \in WorkerLocs,
         \A d \in Externals : pc'[d] \in ExternalLocs,
         pc'[Pool] \in {"idle", "notify"},
         wake' \in [Actors -> WakeState],
         owner' \in [Workers -> Workers \cup Externals \cup {None}],
         a \in Workers => Placed(a)' /\ For(a)' = For(a),
         pc[a] = "notify" => /\ a = Pool => wake[Pool].i = x
                             /\ a \in Workers => owner[a] = x,
         Waking', Injected', Finished => Finished', pc'[Pool] = "notify" => pc[Pool] = "notify"
  PROVE  Inv'
<1> USE Distinct
<1>1. Typed
  BY DEF Inv
<1>2. /\ Counted'
      /\ counters' \in [sleeping : Nat, inactive : Nat, jec : 0 .. JecSize - 1]
      /\ active' \in Nat
      /\ is_blocked' \in [Workers -> BOOLEAN]
      /\ ~is_blocked'[x]
      /\ \A v \in Workers \ {x} : is_blocked'[v] = is_blocked[v]
      /\ ~Locked(x) /\ ~Locked(x)'
  BY WakeSpecificFacts
<1>3. Typed'
  BY <1>1, <1>2 DEF Typed
<1>4. ASSUME NEW v \in Workers PROVE Placed(v)'
  <2>1. CASE v = a
    BY <2>1
  <2>2. CASE v # a
    <3>1. Placed(v) /\ pc'[v] = pc[v] /\ At(v)' = At(v) /\ Latch(v)' = Latch(v)
          /\ (Joins(v)' <=> Joins(v))
      BY <2>2 DEF Inv, At, Latch, Joins
    <3>2. is_blocked'[v] => is_blocked[v]
      BY <1>2
    <3> QED
      BY <2>2, <3>1, <3>2 DEF Placed
  <2> QED
    BY <2>1, <2>2
<1>5. Joined' /\ Grounded'
  <2>1. \A v \in Workers : For(v)' = For(v)
    BY DEF For
  <2> QED
    BY <2>1, JoinedKept DEF Inv
<1>6. Terminated'
  BY DEF Inv, Terminated
<1>7. ASSUME NEW v \in Workers PROVE NoticedAt(v)'
  <2>1. CASE v = x
    BY <1>2, <2>1 DEF NoticedAt
  <2>2. CASE v # x
    <3>1. SUFFICES ASSUME (Locked(v) \/ is_blocked[v])', Latch(v)' = "set" PROVE Notifier(v)'
      BY DEF NoticedAt
    <3>2. Locked(v) \/ is_blocked[v]
      <4>1. is_blocked'[v] => is_blocked[v]
        BY <1>2, <2>2
      <4>2. Locked(v)' => Locked(v)
        BY DEF Locked, IdleLocs
      <4> QED
        BY <3>1, <4>1, <4>2
    <3>3. Latch(v) = "set"
      BY <3>1 DEF Latch, Joins
    <3>4. Notifier(v)
      BY <3>2, <3>3 DEF Inv, NoticedAt
    <3>5. CASE pc[Pool] = "notify" /\ wake[Pool].i = v
      <4>1. a # Pool
        BY <2>2, <3>5
      <4> QED
        BY <3>5, <4>1 DEF Notifier
    <3>6. CASE \E u \in Workers : pc[u] = "notify" /\ owner[u] = v
      <4>1. PICK u \in Workers : pc[u] = "notify" /\ owner[u] = v
        BY <3>6
      <4>2. u # a
        BY <2>2, <4>1
      <4> QED
        BY <4>1, <4>2 DEF Notifier
    <3> QED
      BY <3>4, <3>5, <3>6 DEF Notifier
  <2> QED
    BY <2>1, <2>2
<1>8. Seen'
  <2>1. ~Asleep(x)'
    BY <1>2 DEF Asleep, Locked
  <2> QED
    BY <2>1 DEF Seen
<1> QED
  BY <1>2, <1>3, <1>4, <1>5, <1>6, <1>7, <1>8 DEF Inv

\* One worker of wake_any_threads.
LEMMA WakeAnyInv ==
  ASSUME Inv, NEW a \in Workers \cup Externals, wake_any_threads(a)
  PROVE  Inv'
<1> USE Distinct
<1> DEFINE k == wake[a]
           x == k.i
           n == IF is_blocked[x] THEN k.n - 1 ELSE k.n
           to == IF n = 0 \/ k.i + 1 = N THEN k.then ELSE "wake"
<1>1. Typed /\ pc[a] = "wake" /\ Waking /\ a \in Actors /\ a # Pool
  BY DEF Inv, wake_any_threads
<1>2. /\ wake' = [wake EXCEPT ![a] = [k EXCEPT !.i = k.i + 1, !.n = n]]
      /\ pc' = [pc EXCEPT ![a] = to]
      /\ WakeSpecific(x)
      /\ UNCHANGED <<jobs_counter, announced, scan, terminate, child, deque, injected, owner,
                     left, waits>>
  BY DEF wake_any_threads, idleVars, poolVars
<1>3. k \in WakeState /\ k.i < N /\ k.n > 0
      /\ (a \in Workers => k.then \in AfterWake) /\ (a \in Externals => k.then = "wait")
  BY <1>1 DEF Typed, Waking, WakingAt
<1>4. x \in Workers /\ k.n \in Nat /\ k.i \in 0 .. N /\ n \in Nat /\ k.i + 1 \in 0 .. N
  <2>1. k.n \in Nat /\ k.i \in 0 .. N /\ N \in Nat
    BY <1>3, ConstantsAssumption DEF WakeState
  <2>2. k.i + 1 \in 0 .. N /\ n \in Nat
    BY <1>3, <2>1
  <2> QED
    BY <1>3, <2>1, <2>2
<1>5. PICK m \in Nat : m = n
  BY <1>4
<1>6. PICK r \in WakeState : r = [k EXCEPT !.i = k.i + 1, !.n = m]
                             /\ r.i = k.i + 1 /\ r.n = m /\ r.then = k.then
  <2>1. PICK j \in 0 .. N : j = k.i + 1
    BY <1>4
  <2>2. [k EXCEPT !.i = j, !.n = m] \in WakeState
    BY <1>3 DEF WakeState
  <2>3. /\ [k EXCEPT !.i = j, !.n = m].i = j /\ [k EXCEPT !.i = j, !.n = m].n = m
        /\ [k EXCEPT !.i = j, !.n = m].then = k.then
    BY <1>3 DEF WakeState
  <2> QED
    BY <2>1, <2>2, <2>3
<1>7. wake' = [wake EXCEPT ![a] = r]
  BY <1>2, <1>5, <1>6
<1>8. to \in AfterWake \cup {"wait", "wake"} /\ (a \in Workers => to # "wait")
      /\ (a \in Externals => to \in {"wait", "wake"})
      /\ (to = "wake" => m > 0 /\ r.i < N)
  <2>1. to \in {k.then, "wake"} /\ (to = "wake" => k.then = "wake" \/ (n # 0 /\ k.i + 1 # N))
    OBVIOUS
  <2>2. n # 0 /\ k.i + 1 # N => m > 0 /\ r.i < N
    BY <1>4, <1>5, <1>6, ConstantsAssumption
  <2> HIDE DEF to, n
  <2> QED
    BY <1>3, <2>1, <2>2 DEF AfterWake
<1> HIDE DEF to, n
<1>9. /\ wake' \in [Actors -> WakeState] /\ wake'[a] = r /\ pc'[a] = to
      /\ pc' \in [Actors -> WorkerLocs \cup ExternalLocs]
      /\ \A b \in Actors \ {a} : pc'[b] = pc[b] /\ wake'[b] = wake[b]
  BY <1>1, <1>2, <1>7, <1>8 DEF Typed, AfterWake, WorkerLocs, ExternalLocs
<1>10. /\ \A v \in Workers : pc'[v] \in WorkerLocs
       /\ \A d \in Externals : pc'[d] \in ExternalLocs
       /\ pc'[Pool] = pc[Pool] /\ pc'[Pool] \in {"idle", "notify"}
  BY <1>1, <1>8, <1>9 DEF Typed, AfterWake, WorkerLocs, ExternalLocs
<1>11. Waking'
  <2>1. \A v \in Workers : WakingAt(v, AfterWake)'
    BY <1>1, <1>3, <1>6, <1>8, <1>9 DEF Waking, WakingAt
  <2>2. \A d \in Externals : WakingAt(d, {"wait"})'
    BY <1>1, <1>3, <1>6, <1>8, <1>9 DEF Waking, WakingAt
  <2>3. pc'[Pool] = "notify" => wake'[Pool].i < N
    BY <1>1, <1>9 DEF Waking
  <2> QED
    BY <2>1, <2>2, <2>3 DEF Waking
<1>12. ASSUME a \in Workers PROVE Placed(a)' /\ For(a)' = For(a)
  <2>1. Placed(a) /\ At(a) = k.then /\ At(a)' = k.then /\ k.then \in AfterWake
        /\ (Joins(a)' <=> Joins(a))
    <3>1. to = "wake" \/ to = k.then
      BY DEF to
    <3> QED
      BY <1>1, <1>2, <1>3, <1>6, <1>9, <1>12, <3>1 DEF Inv, At, Joins, AfterWake
  <2>2. ~is_blocked[a] /\ ~is_blocked'[a]
    <3>1. ~is_blocked[a]
      BY <1>1, <2>1 DEF Placed
    <3> QED
      BY <1>1, <1>2, <1>4, <1>12, <3>1 DEF WakeSpecific, Typed
  <2>3. pc'[a] \in AfterWake \cup {"wake"}
    BY <1>8, <1>9, <1>12
  <2>4. Placed(a)'
    BY <1>2, <2>1, <2>2, <2>3 DEF Placed, AfterWake, IdleLocs
  <2>5. For(a)' = For(a)
    BY <1>1, <1>2, <2>3 DEF For, AfterWake
  <2> QED
    BY <2>4, <2>5
<1>13. Injected'
  BY <1>1, <1>2, <1>8, <1>9 DEF Inv, Injected, Typed
<1>14. Finished => Finished'
  BY <1>1, <1>2, <1>9 DEF Finished
<1>15. pc[a] \notin IdleLocs /\ pc'[a] \notin IdleLocs
  BY <1>1, <1>8, <1>9 DEF IdleLocs, AfterWake
<1>16. owner' \in [Workers -> Workers \cup Externals \cup {None}]
  BY <1>1, <1>2 DEF Typed
<1> QED
  BY <1>1, <1>2, <1>4, <1>9, <1>10, <1>11, <1>12, <1>13, <1>14, <1>15, <1>16, WakeKept

\* The thread that ended a child wakes the worker that slept on its latch.
LEMMA NotifyInv ==
  ASSUME Inv, NEW w \in Workers, notify_worker_latch_is_set(w)
  PROVE  Inv'
<1> USE Distinct
<1>1. Typed /\ Placed(w) /\ Injected /\ Waking /\ pc[w] = "notify" /\ "root" \in WorkerLocs
  BY DEF Inv, notify_worker_latch_is_set, Goto, WorkerLocs
<1>2. /\ pc' = [pc EXCEPT ![w] = "root"]
      /\ WakeSpecific(owner[w])
      /\ owner' = [owner EXCEPT ![w] = None]
      /\ UNCHANGED <<jobs_counter, announced, scan, terminate, child, deque, injected, left,
                     waits, wake>>
  BY DEF notify_worker_latch_is_set, Goto, idleVars
<1>3. At(w) = "notify" /\ owner[w] \in Workers /\ ~Joins(w) /\ ~is_blocked[w] /\ ~deque[w]
  BY <1>1 DEF At, Placed
<1>4. /\ pc' \in [Actors -> WorkerLocs \cup ExternalLocs]
      /\ \A v \in Workers : pc'[v] \in WorkerLocs
      /\ \A e \in Externals : pc'[e] \in ExternalLocs
      /\ pc'[Pool] \in {"idle", "notify"}
      /\ pc'[w] = "root"
      /\ \A b \in Actors \ {w} : pc'[b] = pc[b]
  BY <1>1, <1>2, MoveFacts
<1>5. /\ owner' \in [Workers -> Workers \cup Externals \cup {None}] /\ owner'[w] = None
      /\ \A v \in Workers \ {w} : owner'[v] = owner[v]
  BY <1>1, <1>2 DEF Typed
<1>6. Placed(w)' /\ For(w)' = For(w)
  <2>1. At(w)' = "root" /\ ~Joins(w)'
    BY <1>2, <1>3, <1>4 DEF At, Joins
  <2>2. ~is_blocked'[w]
    BY <1>1, <1>2, <1>3 DEF WakeSpecific, Typed
  <2>3. Placed(w)'
    BY <1>2, <1>3, <1>4, <1>5, <2>1, <2>2 DEF Placed, IdleLocs
  <2> QED
    BY <1>1, <1>4, <1>5, <2>3 DEF For
<1>7. Waking'
  <2>1. \A v \in Workers : WakingAt(v, AfterWake)'
    BY <1>1, <1>2, <1>4 DEF Waking, WakingAt
  <2>2. \A d \in Externals : WakingAt(d, {"wait"})'
    BY <1>1, <1>2, <1>4 DEF Waking, WakingAt
  <2>3. pc'[Pool] = "notify" => wake'[Pool].i < N
    BY <1>1, <1>2, <1>4 DEF Waking
  <2> QED
    BY <2>1, <2>2, <2>3 DEF Waking
<1>8. Injected'
  <2>1. UntakenOf(waits', owner') = UntakenOf(waits, owner)
    <3>1. \A e \in Externals : (\E v \in Workers : owner'[v] = e) <=> (\E v \in Workers : owner[v] = e)
      BY <1>3, <1>5
    <3> QED
      BY <1>1, <1>2, <3>1 DEF UntakenOf, Typed
  <2> QED
    BY <1>1, <1>2, <1>4, <1>5, <2>1 DEF Injected, Typed
<1>9. Finished => Finished'
  BY <1>2, <1>4 DEF Finished
<1>10. pc[w] \notin IdleLocs /\ pc'[w] \notin IdleLocs
  BY <1>1, <1>4 DEF IdleLocs
<1> QED
  BY <1>1, <1>2, <1>3, <1>4, <1>5, <1>6, <1>7, <1>8, <1>9, <1>10, WakeKept DEF Typed

\* The same for a terminate latch.
LEMMA TickleInv ==
  ASSUME Inv, tickle
  PROVE  Inv'
<1> USE Distinct
<1>1. Typed /\ Injected /\ Waking /\ pc[Pool] = "notify"
  BY DEF Inv, tickle, Goto
<1>2. /\ pc' = [pc EXCEPT ![Pool] = "idle"]
      /\ WakeSpecific(wake[Pool].i)
      /\ wake' = [wake EXCEPT ![Pool].i = @ + 1]
      /\ UNCHANGED <<jobs_counter, announced, scan, terminate, child, deque, injected, owner,
                     left, waits>>
  BY DEF tickle, Goto, idleVars, poolVars
<1>3. wake[Pool] \in WakeState /\ wake[Pool].i \in Workers
  BY <1>1 DEF Typed, Waking, WakeState
<1>4. /\ pc' \in [Actors -> WorkerLocs \cup ExternalLocs]
      /\ pc'[Pool] = "idle"
      /\ \A b \in Actors \ {Pool} : pc'[b] = pc[b]
  BY <1>1, <1>2 DEF Typed, ExternalLocs
<1>5. /\ wake' \in [Actors -> WakeState]
      /\ \A b \in Actors \ {Pool} : wake'[b] = wake[b]
  <2>1. PICK j \in 0 .. N : j = wake[Pool].i + 1
    BY <1>3
  <2>2. wake' = [wake EXCEPT ![Pool] = [wake[Pool] EXCEPT !.i = j]]
    BY <1>1, <1>2, <2>1 DEF Typed
  <2>3. [wake[Pool] EXCEPT !.i = j] \in WakeState
    BY <1>3 DEF WakeState
  <2> QED
    BY <1>1, <2>2, <2>3 DEF Typed
<1>6. Waking'
  <2>1. \A v \in Workers : WakingAt(v, AfterWake)'
    BY <1>1, <1>4, <1>5 DEF Waking, WakingAt
  <2>2. \A d \in Externals : WakingAt(d, {"wait"})'
    BY <1>1, <1>4, <1>5 DEF Waking, WakingAt
  <2> QED
    BY <1>4, <2>1, <2>2 DEF Waking
<1>7. Injected'
  BY <1>1, <1>2, <1>4 DEF Injected, Typed
<1>8. Finished => Finished'
  BY <1>2, <1>4 DEF Finished
<1>9. pc[Pool] \notin IdleLocs /\ pc'[Pool] \notin IdleLocs
  BY <1>1, <1>4 DEF IdleLocs
<1>10. /\ \A v \in Workers : pc'[v] \in WorkerLocs
       /\ \A e \in Externals : pc'[e] \in ExternalLocs
       /\ owner' \in [Workers -> Workers \cup Externals \cup {None}]
  BY <1>1, <1>2, <1>4 DEF Typed
<1> QED
  BY <1>1, <1>2, <1>3, <1>4, <1>5, <1>6, <1>7, <1>8, <1>9, <1>10, WakeKept

\* The latch of one worker is set when the pool is dropped.
LEMMA SetTerminateInv ==
  ASSUME Inv, set_terminate
  PROVE  Inv'
<1> USE Distinct
<1> DEFINE w == wake[Pool].i
<1>1. Typed /\ Injected /\ Waking /\ Seen /\ Finished /\ pc[Pool] = "idle" /\ w < N
  BY DEF Inv, set_terminate
<1>2. /\ terminate' = [terminate EXCEPT ![w] = "set"]
      /\ UNCHANGED <<counters, jobs_counter, announced, scan, is_blocked, active, child, deque,
                     injected, owner, left, waits>>
  BY DEF set_terminate, idleVars, poolVars
<1>3. wake[Pool] \in WakeState /\ w \in Workers
  BY <1>1 DEF Typed, WakeState
<1>4. /\ pc' \in [Actors -> WorkerLocs \cup ExternalLocs]
      /\ pc'[Pool] \in {"idle", "notify"}
      /\ \A b \in Actors \ {Pool} : pc'[b] = pc[b]
      /\ terminate[w] = "sleeping" => pc'[Pool] = "notify"
      /\ pc'[Pool] = "notify" => wake' = wake
  <2>1. CASE terminate[w] = "sleeping"
    BY <1>1, <2>1 DEF set_terminate, Typed, WorkerLocs
  <2>2. CASE terminate[w] # "sleeping"
    BY <1>1, <2>2 DEF set_terminate, Typed
  <2> QED
    BY <2>1, <2>2
<1>5. /\ wake' \in [Actors -> WakeState]
      /\ \A b \in Actors \ {Pool} : wake'[b] = wake[b]
  <2>1. CASE terminate[w] = "sleeping"
    BY <1>1, <2>1 DEF set_terminate, Typed
  <2>2. CASE terminate[w] # "sleeping"
    <3>1. PICK j \in 0 .. N : j = wake[Pool].i + 1
      BY <1>3
    <3>2. wake' = [wake EXCEPT ![Pool] = [wake[Pool] EXCEPT !.i = j]]
      BY <1>1, <2>2, <3>1 DEF Typed, set_terminate
    <3>3. [wake[Pool] EXCEPT !.i = j] \in WakeState
      BY <1>3 DEF WakeState
    <3> QED
      BY <1>1, <3>2, <3>3 DEF Typed
  <2> QED
    BY <2>1, <2>2
<1>6. /\ \A v \in Workers : pc'[v] = pc[v] /\ wake'[v] = wake[v]
      /\ \A e \in Externals : pc'[e] = pc[e] /\ wake'[e] = wake[e]
      /\ terminate' \in [Workers -> LatchStates] /\ terminate'[w] = "set"
      /\ \A v \in Workers \ {w} : terminate'[v] = terminate[v]
  BY <1>1, <1>2, <1>3, <1>4, <1>5 DEF Typed, LatchStates
<1>7. Typed'
  BY <1>1, <1>2, <1>4, <1>5, <1>6 DEF Typed
<1>8. Waking'
  <2>1. \A v \in Workers : WakingAt(v, AfterWake)'
    BY <1>1, <1>6 DEF Waking, WakingAt
  <2>2. \A d \in Externals : WakingAt(d, {"wait"})'
    BY <1>1, <1>6 DEF Waking, WakingAt
  <2> QED
    BY <1>1, <1>4, <2>1, <2>2 DEF Waking
<1>9. Counted'
  <2>1. SleepersOf(pc', is_blocked') = SleepersOf(pc, is_blocked) /\ IdlersOf(pc') = IdlersOf(pc)
    BY <1>2, <1>6 DEF SleepersOf, IdlersOf
  <2> QED
    BY <1>2, <2>1 DEF Inv, Counted, CountedOf
<1>10. ASSUME NEW v \in Workers PROVE Placed(v)'
  <2>1. Placed(v)
    BY DEF Inv
  <2>2. /\ At(v)' = At(v) /\ (Joins(v)' <=> Joins(v))
        /\ Latch(v)' \in {Latch(v), "set"}
    BY <1>2, <1>6 DEF At, Joins, Latch
  <2> QED
    BY <1>2, <1>6, <2>1, <2>2 DEF Placed
<1>11. Joined' /\ Grounded'
  <2>1. \A v \in Workers : For(v)' = For(v)
    BY <1>2, <1>6 DEF For
  <2> QED
    BY <1>2, <2>1, JoinedKept DEF Inv
<1>12. Injected'
  BY <1>1, <1>2, <1>6 DEF Injected, Typed
<1>13. Terminated'
  BY <1>1, <1>2, <1>6 DEF Terminated, Finished
<1>14. ASSUME NEW v \in Workers PROVE NoticedAt(v)'
  <2> SUFFICES ASSUME (Locked(v) \/ is_blocked[v])', Latch(v)' = "set" PROVE Notifier(v)'
    BY DEF NoticedAt
  <2>1. Locked(v) \/ is_blocked[v]
    BY <1>2, <1>6 DEF Locked
  <2>2. CASE Latch(v) = "set"
    <3>1. Notifier(v)
      BY <2>1, <2>2 DEF Inv, NoticedAt
    <3> QED
      BY <1>1, <1>2, <1>6, <3>1 DEF Notifier
  <2>3. CASE Latch(v) # "set"
    <3>1. v = w /\ Latch(v) = terminate[w]
      BY <1>2, <1>6, <2>3 DEF Latch, Joins
    <3>2. Latch(v) \in {"sleeping", "set"}
      BY <2>1 DEF Inv, Placed, Locked
    <3> QED
      BY <1>4, <2>3, <3>1, <3>2 DEF Notifier
  <2> QED
    BY <2>2, <2>3
<1>15. Seen'
  <2>1. \A v \in Workers : Asleep(v)' <=> Asleep(v)
    BY <1>2, <1>6, AsleepKept
  <2> QED
    BY <1>1, <1>2, <1>6, <2>1 DEF Seen, Waker
<1> QED
  BY <1>7, <1>8, <1>9, <1>10, <1>11, <1>12, <1>13, <1>14, <1>15 DEF Inv

-----------------------------------------------------------------------------
(* Running jobs. *)

\* w starts, ends or finds a job: nobody falls asleep, and nobody who was
\* going to wake a worker forgets it.
Job(w) ==
  /\ \A b \in Actors \ {w} : pc'[b] = pc[b] /\ wake'[b] = wake[b]
  /\ pc[w] # "notify" /\ ~Locked(w)' /\ ~is_blocked[w]
  /\ left'.injects = left.injects
  /\ \A v \in Workers \ {w} : owner'[v] = owner[v]
  /\ UNCHANGED <<is_blocked, terminate>>

\* What has to be shown of such a step.
LEMMA JobKept ==
  ASSUME Inv, NEW w \in Workers, Job(w), Typed', Counted', WakingAt(w, AfterWake)',
         \A v \in Workers : Placed(v)',
         Joined', Grounded', Injected',
         \A v \in Workers \ {w} : \/ Latch(v)' = Latch(v)
                                  \/ Locked(v) \/ is_blocked[v] => Notifier(v)'
  PROVE  Inv'
<1> USE Distinct
<1>1. Waking'
  <2>1. \A v \in Workers \ {w} : WakingAt(v, AfterWake)'
    BY DEF Inv, Waking, WakingAt, Job
  <2>2. \A e \in Externals : WakingAt(e, {"wait"})'
    BY DEF Inv, Waking, WakingAt, Job
  <2>3. pc'[Pool] = "notify" => wake'[Pool].i < N
    BY DEF Inv, Waking, Job
  <2> QED
    BY <2>1, <2>2, <2>3 DEF Waking
<1>2. Terminated'
  <2>1. Finished' <=> Finished
    BY DEF Finished, Job
  <2>2. pc'[Pool] = pc[Pool] /\ terminate' = terminate
    BY DEF Job
  <2> QED
    BY <2>1, <2>2 DEF Inv, Terminated
<1>3. ASSUME NEW v \in Workers PROVE NoticedAt(v)'
  <2>1. CASE v = w
    BY <2>1 DEF NoticedAt, Job
  <2>2. CASE v # w
    <3>1. (Locked(v)' <=> Locked(v)) /\ (is_blocked'[v] <=> is_blocked[v])
      BY <2>2 DEF Locked, Job
    <3>2. Notifier(v) => Notifier(v)'
      <4>1. ASSUME NEW u \in Workers, pc[u] = "notify", owner[u] = v
            PROVE  pc'[u] = "notify" /\ owner'[u] = v
        BY <4>1 DEF Job
      <4>2. pc'[Pool] = pc[Pool] /\ wake'[Pool] = wake[Pool]
        BY DEF Job
      <4> QED
        BY <4>1, <4>2 DEF Notifier
    <3>3. NoticedAt(v)
      BY DEF Inv
    <3> QED
      BY <2>2, <3>1, <3>2, <3>3 DEF NoticedAt
  <2> QED
    BY <2>1, <2>2
<1>4. Seen'
  <2>1. ~Asleep(w)'
    BY DEF Asleep, Job, Locked
  <2> QED
    BY <2>1 DEF Seen
<1> QED
  BY <1>1, <1>2, <1>3, <1>4 DEF Inv

\* Moves of a worker that is not idle before or after are not counted.
LEMMA BusyCounted ==
  ASSUME Inv, NEW w \in Workers, UNCHANGED <<counters, is_blocked, active>>,
         \A b \in Actors \ {w} : pc'[b] = pc[b], pc[w] \notin IdleLocs, pc'[w] \notin IdleLocs
  PROVE  Counted'
<1>1. SleepersOf(pc', is_blocked') = SleepersOf(pc, is_blocked)
  BY Distinct DEF SleepersOf, IdleLocs
<1>2. IdlersOf(pc') = IdlersOf(pc)
  BY Distinct DEF IdlersOf
<1> QED
  BY <1>1, <1>2 DEF Inv, Counted, CountedOf

\* join_context pushes a child.
LEMMA ForkInv ==
  ASSUME Inv, NEW w \in Workers, fork(w)
  PROVE  Inv'
<1> USE Distinct
<1>1. Typed /\ Placed(w) /\ Joined /\ Grounded /\ Injected /\ pc[w] = "run" /\ left.forks > 0
  BY DEF Inv, fork, Goto
<1>2. /\ pc' = [pc EXCEPT ![w] = "new"] /\ "new" \in WorkerLocs
      /\ left' = [left EXCEPT !.forks = @ - 1]
      /\ deque' = [deque EXCEPT ![w] = TRUE]
      /\ child' = [child EXCEPT ![w] = "unset"]
      /\ UNCHANGED <<counters, jobs_counter, announced, scan, is_blocked, active, terminate,
                     injected, owner, waits, wake>>
  BY DEF fork, Goto, idleVars, WorkerLocs
<1>3. At(w) = "run" /\ child[w] = "none" /\ owner[w] # None /\ ~is_blocked[w]
  BY <1>1 DEF At, Placed, Joins
<1>4. /\ pc' \in [Actors -> WorkerLocs \cup ExternalLocs]
      /\ \A v \in Workers : pc'[v] \in WorkerLocs
      /\ \A e \in Externals : pc'[e] \in ExternalLocs
      /\ pc'[Pool] \in {"idle", "notify"}
      /\ pc'[w] = "new"
      /\ \A b \in Actors \ {w} : pc'[b] = pc[b]
  BY <1>1, <1>2, MoveFacts
<1>5. /\ child' \in [Workers -> LatchStates \cup {"none"}] /\ child'[w] = "unset"
      /\ deque' \in [Workers -> BOOLEAN] /\ deque'[w]
      /\ \A v \in Workers \ {w} : child'[v] = child[v] /\ deque'[v] = deque[v]
      /\ left' \in [injects : [Externals -> Nat], forks : Nat] /\ left'.injects = left.injects
  BY <1>1, <1>2 DEF Typed, LatchStates
<1>6. Typed'
  BY <1>1, <1>2, <1>4, <1>5 DEF Typed
<1>7. Counted'
  <2>1. pc[w] \notin IdleLocs /\ pc'[w] \notin IdleLocs
    BY <1>1, <1>4 DEF IdleLocs
  <2> QED
    BY <1>2, <1>4, <2>1, BusyCounted
<1>8. WakingAt(w, AfterWake)'
  BY <1>4 DEF WakingAt
<1>9. ASSUME NEW v \in Workers PROVE Placed(v)'
  <2>1. CASE v = w
    <3>1. At(w)' = "new" /\ Joins(w)'
      BY <1>4, <1>5 DEF At, Joins
    <3> QED
      BY <1>2, <1>3, <1>4, <1>5, <2>1, <3>1 DEF Placed, IdleLocs
  <2>2. CASE v # w
    BY <1>2, <1>4, <1>5, <2>2, PlacedKept DEF Inv
  <2> QED
    BY <2>1, <2>2
<1>10. \A v \in Workers : For(v)' = For(v) /\ For(v) # w
  BY <1>1, <1>2, <1>3, <1>4 DEF For, Joined
<1>11. Joined'
  BY <1>1, <1>5, <1>10 DEF Joined
<1>12. Grounded'
  BY <1>1, <1>10 DEF Grounded
<1>13. Injected'
  BY <1>1, <1>2, <1>4 DEF Injected, Typed
<1>14. \A v \in Workers \ {w} : Latch(v)' = Latch(v)
  BY <1>2, <1>5 DEF Latch, Joins
<1>15. Job(w)
  BY <1>1, <1>2, <1>3, <1>4, <1>5 DEF Job, Locked
<1> QED
  BY <1>6, <1>7, <1>8, <1>9, <1>11, <1>12, <1>13, <1>14, <1>15, JobKept

\* wait_for_jobs: the join ends with the child run inline or done, or the
\* worker starts to wait for the thief.
LEMMA WaitForJobsInv ==
  ASSUME Inv, NEW w \in Workers, wait_for_jobs(w)
  PROVE  Inv'
<1> USE Distinct
<1>1. Typed /\ Placed(w) /\ Joined /\ Grounded /\ Injected /\ pc[w] = "join"
  BY DEF Inv, wait_for_jobs
<1>2. UNCHANGED <<jobs_counter, announced, scan, is_blocked, active, terminate,
                  injected, owner, left, waits, wake>>
  BY DEF wait_for_jobs, idleVars
<1>3. At(w) = "join" /\ child[w] # "none" /\ owner[w] # None /\ ~is_blocked[w]
      /\ "run" \in WorkerLocs /\ "look" \in WorkerLocs
  BY <1>1 DEF At, Placed, Joins, WorkerLocs
<1>4. CASE \/ /\ deque[w]
              /\ deque' = [deque EXCEPT ![w] = FALSE]
              /\ child' = [child EXCEPT ![w] = "none"]
              /\ pc' = [pc EXCEPT ![w] = "run"]
              /\ UNCHANGED counters
           \/ /\ ~deque[w] /\ child[w] = "set"
              /\ child' = [child EXCEPT ![w] = "none"]
              /\ pc' = [pc EXCEPT ![w] = "run"]
              /\ UNCHANGED <<counters, deque>>
  <2>1. /\ pc' = [pc EXCEPT ![w] = "run"] /\ UNCHANGED counters
        /\ child' = [child EXCEPT ![w] = "none"]
        /\ deque[w] \/ child[w] = "set"
    BY <1>4
  <2>2. /\ deque' \in [Workers -> BOOLEAN] /\ ~deque'[w]
        /\ \A v \in Workers \ {w} : deque'[v] = deque[v]
    <3>1. deque \in [Workers -> BOOLEAN]
      BY <1>1 DEF Typed
    <3>2. deque' = [deque EXCEPT ![w] = FALSE] \/ (~deque[w] /\ deque' = deque)
      BY <1>4
    <3> QED
      BY <3>1, <3>2
  <2>3. /\ child' \in [Workers -> LatchStates \cup {"none"}] /\ child'[w] = "none"
        /\ \A v \in Workers \ {w} : child'[v] = child[v]
    BY <1>1, <2>1 DEF Typed
  <2>4. /\ pc' \in [Actors -> WorkerLocs \cup ExternalLocs]
        /\ \A v \in Workers : pc'[v] \in WorkerLocs
        /\ \A e \in Externals : pc'[e] \in ExternalLocs
        /\ pc'[Pool] \in {"idle", "notify"}
        /\ pc'[w] = "run"
        /\ \A b \in Actors \ {w} : pc'[b] = pc[b]
    BY <1>1, <1>3, <2>1, MoveFacts
  <2>5. Typed'
    BY <1>1, <1>2, <2>1, <2>2, <2>3, <2>4 DEF Typed
  <2>6. Counted'
    <3>1. pc[w] \notin IdleLocs /\ pc'[w] \notin IdleLocs
      BY <1>1, <2>4 DEF IdleLocs
    <3> QED
      BY <1>2, <2>1, <2>4, <3>1, BusyCounted
  <2>7. WakingAt(w, AfterWake)'
    BY <2>4 DEF WakingAt
  <2>8. ASSUME NEW v \in Workers PROVE Placed(v)'
    <3>1. CASE v = w
      <4>1. At(w)' = "run" /\ ~Joins(w)'
        BY <2>3, <2>4 DEF At, Joins
      <4> QED
        BY <1>2, <1>3, <2>2, <2>4, <3>1, <4>1 DEF Placed, IdleLocs
    <3>2. CASE v # w
      BY <1>2, <2>2, <2>3, <2>4, <3>2, PlacedKept DEF Inv
    <3> QED
      BY <3>1, <3>2
  <2>9. \A v \in Workers : For(v)' = For(v) /\ For(v) # w
    BY <1>1, <1>2, <2>1, <2>4 DEF For, Joined
  <2>10. Joined'
    BY <1>1, <2>2, <2>3, <2>9 DEF Joined
  <2>11. Grounded'
    BY <1>1, <2>9 DEF Grounded
  <2>12. Injected'
    BY <1>1, <1>2, <2>4 DEF Injected, Typed
  <2>13. \A v \in Workers \ {w} : Latch(v)' = Latch(v)
    BY <1>2, <2>3 DEF Latch, Joins
  <2>14. Job(w)
    BY <1>1, <1>2, <1>3, <2>4 DEF Job, Locked
  <2> QED
    BY <2>5, <2>6, <2>7, <2>8, <2>10, <2>11, <2>12, <2>13, <2>14, JobKept
<1>5. CASE /\ ~deque[w] /\ child[w] # "set"
           /\ counters' = [counters EXCEPT !.inactive = @ + 1]
           /\ pc' = [pc EXCEPT ![w] = "look"]
           /\ UNCHANGED <<deque, child>>
  <2>1. /\ pc' \in [Actors -> WorkerLocs \cup ExternalLocs]
        /\ \A v \in Workers : pc'[v] \in WorkerLocs
        /\ \A e \in Externals : pc'[e] \in ExternalLocs
        /\ pc'[Pool] \in {"idle", "notify"}
        /\ pc'[w] = "look"
        /\ \A b \in Actors \ {w} : pc'[b] = pc[b]
    BY <1>1, <1>3, <1>5, MoveFacts
  <2>2. Counted' /\ counters'.sleeping \in Nat /\ counters'.inactive \in Nat /\ active' \in Nat
    <3>1. counters'.sleeping = counters.sleeping + 0 /\ counters'.inactive = counters.inactive + 1
      BY <1>1, <1>5 DEF Typed
    <3>2. 0 = One(InSleepers(pc', is_blocked', w)) - One(InSleepers(pc, is_blocked, w))
      BY <1>1, <1>2, <2>1 DEF One, InSleepers
    <3>3. 1 = One(pc'[w] \in IdleLocs) - One(pc[w] \in IdleLocs)
      BY <1>1, <2>1 DEF One, IdleLocs
    <3>4. active' = active - One(is_blocked'[w]) + One(is_blocked[w])
      BY <1>1, <1>2 DEF One, Typed
    <3>5. 0 \in Int /\ 1 \in Int
      OBVIOUS
    <3> QED
      BY <1>2, <2>1, <3>1, <3>2, <3>3, <3>4, <3>5, CountedMove
  <2>3. Typed'
    <3>1. counters' \in [sleeping : Nat, inactive : Nat, jec : 0 .. JecSize - 1]
      BY <1>1, <1>5, <2>2 DEF Typed
    <3> QED
      BY <1>1, <1>2, <1>5, <2>1, <3>1 DEF Typed
  <2>4. Placed(w)'
    <3>1. At(w)' = "look" /\ Joins(w)'
      BY <1>3, <1>5, <2>1 DEF At, Joins
    <3> QED
      BY <1>2, <1>3, <1>5, <2>1, <3>1 DEF Placed, IdleLocs
  <2>5. Shown(w)
    <3>1. WakingAt(w, AfterWake)' /\ ~Locked(w)' /\ ~is_blocked[w]' /\ ~Asleep(w)'
      BY <1>2, <1>3, <2>1 DEF WakingAt, Locked, Asleep
    <3> QED
      BY <2>2, <2>3, <2>4, <3>1 DEF Shown
  <2>6. Local(w)
    BY <1>1, <1>2, <1>5, <2>1 DEF Local, poolVars
  <2> QED
    BY <2>5, <2>6, LocalKept
<1> QED
  BY <1>4, <1>5 DEF wait_for_jobs

\* The job of another worker ends, and that worker's latch is set.
LEMMA FinishChildInv ==
  ASSUME Inv, NEW w \in Workers, finish(w), owner[w] \in Workers
  PROVE  Inv'
<1> USE Distinct
<1>1. PICK o \in Workers : o = owner[w]
  OBVIOUS
<1>2. Typed /\ Placed(w) /\ Joined /\ Grounded /\ Injected /\ pc[w] = "run"
  BY DEF Inv, finish
<1>3. /\ child' = [child EXCEPT ![o] = "set"]
      /\ UNCHANGED <<counters, jobs_counter, announced, scan, is_blocked, active, terminate,
                     deque, injected, left, waits, wake>>
  BY <1>1 DEF finish, idleVars
<1>4. IF child[o] = "sleeping"
      THEN pc' = [pc EXCEPT ![w] = "notify"] /\ UNCHANGED owner
      ELSE pc' = [pc EXCEPT ![w] = "root"] /\ owner' = [owner EXCEPT ![w] = None]
  BY <1>1 DEF finish
<1>5. At(w) = "run" /\ child[w] = "none" /\ ~is_blocked[w] /\ ~deque[w] /\ For(w) = o
      /\ child[o] \notin {"none", "set"} /\ ~deque[o] /\ o # w
  BY <1>1, <1>2 DEF At, Placed, Joins, For, Joined
<1>6. PICK x \in {"notify", "root"} : pc' = [pc EXCEPT ![w] = x]
  BY <1>4
<1>7. /\ pc' \in [Actors -> WorkerLocs \cup ExternalLocs]
      /\ \A v \in Workers : pc'[v] \in WorkerLocs
      /\ \A e \in Externals : pc'[e] \in ExternalLocs
      /\ pc'[Pool] \in {"idle", "notify"}
      /\ pc'[w] = x
      /\ \A b \in Actors \ {w} : pc'[b] = pc[b]
  <2>1. x \in WorkerLocs
    BY DEF WorkerLocs
  <2> QED
    BY <1>2, <1>6, <2>1, MoveFacts
<1>8. /\ child' \in [Workers -> LatchStates \cup {"none"}] /\ child'[o] = "set"
      /\ \A v \in Workers \ {o} : child'[v] = child[v]
  BY <1>2, <1>3 DEF Typed, LatchStates
<1>9. /\ owner' \in [Workers -> Workers \cup Externals \cup {None}]
      /\ \A v \in Workers \ {w} : owner'[v] = owner[v]
      /\ pc'[w] = "notify" => owner'[w] = o
      /\ pc'[w] = "root" => owner'[w] = None
      /\ child[o] = "sleeping" => pc'[w] = "notify"
  BY <1>1, <1>2, <1>4, <1>7 DEF Typed
<1>10. Typed'
  BY <1>2, <1>3, <1>7, <1>8, <1>9 DEF Typed
<1>11. Counted'
  <2>1. pc[w] \notin IdleLocs /\ pc'[w] \notin IdleLocs
    BY <1>2, <1>7 DEF IdleLocs
  <2> QED
    BY <1>3, <1>7, <2>1, BusyCounted
<1>12. WakingAt(w, AfterWake)'
  BY <1>7 DEF WakingAt
<1>13. ASSUME NEW v \in Workers PROVE Placed(v)'
  <2>1. CASE v = w
    <3>1. At(w)' = x /\ ~Joins(w)'
      BY <1>5, <1>7, <1>8 DEF At, Joins
    <3> QED
      BY <1>3, <1>5, <1>7, <1>9, <2>1, <3>1 DEF Placed, IdleLocs
  <2>2. CASE v = o
    <3>1. Placed(o) /\ At(o)' = At(o) /\ Joins(o) /\ Joins(o)' /\ Latch(o)' = "set"
      BY <1>3, <1>5, <1>7, <1>8 DEF Inv, At, Joins, Latch
    <3> QED
      BY <1>3, <1>5, <1>7, <1>9, <2>2, <3>1 DEF Placed
  <2>3. CASE v # w /\ v # o
    BY <1>3, <1>7, <1>8, <1>9, <2>3, PlacedKept DEF Inv
  <2> QED
    BY <2>1, <2>2, <2>3
<1>14. For(w)' = None /\ \A v \in Workers \ {w} : For(v)' = For(v) /\ For(v) # o
  <2>1. For(w)' = None
    BY <1>7, <1>9 DEF For
  <2>2. \A v \in Workers \ {w} : For(v)' = For(v)
    BY <1>7, <1>9 DEF For
  <2>3. \A v \in Workers \ {w} : For(v) # o
    BY <1>2, <1>5 DEF Joined
  <2> QED
    BY <2>1, <2>2, <2>3
<1>15. Joined'
  <2>1. \A v, u \in Workers : For(v)' = u => child'[u] \notin {"none", "set"} /\ ~deque'[u]
    BY <1>2, <1>3, <1>8, <1>14 DEF Joined
  <2>2. \A u \in Workers : child'[u] \notin {"none", "set"} /\ ~deque'[u]
                             => \E v \in Workers : For(v)' = u
    BY <1>2, <1>3, <1>5, <1>8, <1>14 DEF Joined
  <2>3. \A u, v \in Workers : For(v)' # None /\ For(u)' = For(v)' => u = v
    BY <1>2, <1>14 DEF Joined
  <2> QED
    BY <2>1, <2>2, <2>3 DEF Joined
<1>16. Grounded'
  <2>1. \A v, u \in Workers : For(v)' = u => For(v) = u
    BY <1>14
  <2> QED
    BY <1>2, <2>1 DEF Grounded
<1>17. Injected'
  <2>1. UntakenOf(waits', owner') = UntakenOf(waits, owner)
    <3>1. \A e \in Externals : (\E v \in Workers : owner'[v] = e) <=> (\E v \in Workers : owner[v] = e)
      BY <1>1, <1>7, <1>9
    <3> QED
      BY <1>2, <1>3, <3>1 DEF UntakenOf, Typed
  <2> QED
    BY <1>2, <1>3, <1>7, <1>9, <2>1, SMTT(60) DEF Injected, Typed
<1>18. ASSUME NEW v \in Workers \ {w}
       PROVE  Latch(v)' = Latch(v) \/ (Locked(v) \/ is_blocked[v] => Notifier(v)')
  <2>1. CASE v = o
    <3>1. SUFFICES ASSUME Locked(o) \/ is_blocked[o] PROVE Notifier(o)'
      BY <2>1
    <3>2. Latch(o) \in {"sleeping", "set"}
      BY <3>1 DEF Inv, Placed, Locked
    <3>3. child[o] = "sleeping"
      BY <1>5, <3>2 DEF Latch, Joins
    <3> QED
      BY <1>9, <3>3 DEF Notifier
  <2>2. CASE v # o
    BY <1>3, <1>8, <2>2 DEF Latch, Joins
  <2> QED
    BY <2>1, <2>2
<1>19. Job(w)
  BY <1>2, <1>3, <1>5, <1>7, <1>9 DEF Job, Locked
<1> QED
  BY <1>10, <1>11, <1>12, <1>13, <1>15, <1>16, <1>17, <1>18, <1>19, JobKept

\* The job of an external thread ends.
LEMMA FinishExternalInv ==
  ASSUME Inv, NEW w \in Workers, finish(w), owner[w] \in Externals
  PROVE  Inv'
<1> USE Distinct
<1> DEFINE o == owner[w]
<1>1. Typed /\ Placed(w) /\ Joined /\ Grounded /\ Injected /\ pc[w] = "run"
  BY DEF Inv, finish
<1>2. /\ waits' = waits \ {o}
      /\ pc' = [pc EXCEPT ![w] = "root"] /\ "root" \in WorkerLocs
      /\ owner' = [owner EXCEPT ![w] = None]
      /\ UNCHANGED <<counters, jobs_counter, announced, scan, is_blocked, active, terminate,
                     child, deque, injected, left, wake>>
  BY DEF finish, idleVars, WorkerLocs
<1>3. At(w) = "run" /\ child[w] = "none" /\ ~is_blocked[w] /\ ~deque[w] /\ For(w) = o
  BY <1>1 DEF At, Placed, Joins, For
<1>4. /\ pc' \in [Actors -> WorkerLocs \cup ExternalLocs]
      /\ \A v \in Workers : pc'[v] \in WorkerLocs
      /\ \A e \in Externals : pc'[e] \in ExternalLocs
      /\ pc'[Pool] \in {"idle", "notify"}
      /\ pc'[w] = "root"
      /\ \A b \in Actors \ {w} : pc'[b] = pc[b]
  BY <1>1, <1>2, MoveFacts
<1>5. /\ owner' \in [Workers -> Workers \cup Externals \cup {None}] /\ owner'[w] = None
      /\ \A v \in Workers \ {w} : owner'[v] = owner[v]
  BY <1>1, <1>2 DEF Typed
<1>6. Typed'
  BY <1>1, <1>2, <1>4, <1>5 DEF Typed
<1>7. Counted'
  <2>1. pc[w] \notin IdleLocs /\ pc'[w] \notin IdleLocs
    BY <1>1, <1>4 DEF IdleLocs
  <2> QED
    BY <1>2, <1>4, <2>1, BusyCounted
<1>8. WakingAt(w, AfterWake)'
  BY <1>4 DEF WakingAt
<1>9. ASSUME NEW v \in Workers PROVE Placed(v)'
  <2>1. CASE v = w
    <3>1. At(w)' = "root" /\ ~Joins(w)'
      BY <1>2, <1>3, <1>4 DEF At, Joins
    <3> QED
      BY <1>2, <1>3, <1>4, <1>5, <2>1, <3>1 DEF Placed, IdleLocs
  <2>2. CASE v # w
    BY <1>2, <1>4, <1>5, <2>2, PlacedKept DEF Inv
  <2> QED
    BY <2>1, <2>2
<1>10. For(w)' = None /\ \A v \in Workers \ {w} : For(v)' = For(v) /\ For(v) # o
  <2>1. For(w)' = None
    BY <1>4, <1>5 DEF For
  <2>2. \A v \in Workers \ {w} : For(v)' = For(v)
    BY <1>4, <1>5 DEF For
  <2>3. \A v \in Workers \ {w} : For(v) # o
    BY <1>1, <1>3 DEF Joined
  <2> QED
    BY <2>1, <2>2, <2>3
<1>11. Joined'
  <2>1. \A v, u \in Workers : For(v)' = u => child'[u] \notin {"none", "set"} /\ ~deque'[u]
    BY <1>1, <1>2, <1>10 DEF Joined
  <2>2. \A u \in Workers : child'[u] \notin {"none", "set"} /\ ~deque'[u]
                             => \E v \in Workers : For(v)' = u
    BY <1>1, <1>2, <1>3, <1>10 DEF Joined
  <2>3. \A u, v \in Workers : For(v)' # None /\ For(u)' = For(v)' => u = v
    BY <1>1, <1>10 DEF Joined
  <2> QED
    BY <2>1, <2>2, <2>3 DEF Joined
<1>12. Grounded'
  <2>1. \A v, u \in Workers : For(v)' = u => For(v) = u
    BY <1>10
  <2> QED
    BY <1>1, <2>1 DEF Grounded
<1>13. Injected'
  <2>1. UntakenOf(waits', owner') = UntakenOf(waits, owner)
    <3>1. \A e \in Externals \ {o} :
            (\E v \in Workers : owner'[v] = e) <=> (\E v \in Workers : owner[v] = e)
      BY <1>5
    <3>2. o \notin UntakenOf(waits, owner) /\ o \notin UntakenOf(waits', owner')
      BY <1>2 DEF UntakenOf
    <3> QED
      BY <1>1, <1>2, <3>1, <3>2 DEF UntakenOf, Typed
  <2>2. \A v \in Workers : owner'[v] \in Externals => owner'[v] \in waits'
    <3>1. SUFFICES ASSUME NEW v \in Workers \ {w}, owner[v] \in Externals
                   PROVE  owner[v] \in waits /\ owner[v] # o
      BY <1>2, <1>5
    <3>2. pc[v] # "notify"
      BY <3>1 DEF Inv, Placed, At
    <3>3. For(v) = owner[v]
      BY <3>2 DEF For
    <3> QED
      BY <1>1, <1>10, <3>1, <3>3 DEF Injected
  <2> QED
    BY <1>1, <1>2, <1>4, <2>1, <2>2 DEF Injected, Typed
<1>14. \A v \in Workers \ {w} : Latch(v)' = Latch(v)
  BY <1>2 DEF Latch, Joins
<1>15. Job(w)
  BY <1>1, <1>2, <1>3, <1>4, <1>5 DEF Job, Locked
<1> QED
  BY <1>6, <1>7, <1>8, <1>9, <1>11, <1>12, <1>13, <1>14, <1>15, JobKept

\* find_work: a child is stolen, an injected job is taken, or the worker goes
\* on looking.
LEMMA FindWorkInv ==
  ASSUME Inv, NEW w \in Workers, find_work(w)
  PROVE  Inv'
<1> USE Distinct
<1>1. Typed /\ Placed(w) /\ Joined /\ Grounded /\ Injected /\ pc[w] = "scan"
      /\ pc[w] \in {"look", "scan"} /\ "run" \in AfterWake
  BY DEF Inv, find_work, AfterWake
<1>2. UNCHANGED <<jobs_counter, is_blocked, active, terminate, child, left, waits>>
  BY DEF find_work
<1>3. At(w) = "scan" /\ child[w] = "none" /\ owner[w] = None /\ ~is_blocked[w] /\ ~deque[w]
      /\ For(w) = None /\ \A v \in Workers : For(v) # w
  BY <1>1 DEF At, Placed, Joins, For, Joined
\* What the two ways of finding a job have in common: x is whose job it is.
<1>4. ASSUME WorkFound(w, "run"), UNCHANGED scan,
             NEW x \in Workers \cup Externals, x # w, owner' = [owner EXCEPT ![w] = x],
             \A v \in Workers \ {w} : For(v) # x,
             deque' \in [Workers -> BOOLEAN], injected' \in Nat,
             \A v \in Workers \ {x} : deque'[v] = deque[v],
             x \in Workers => deque[x] /\ ~deque'[x] /\ child[x] \notin {"none", "set"},
             injected' = Cardinality(UntakenOf(waits, owner')), x \in Externals => x \in waits
      PROVE  Inv'
  <2>1. /\ Counted'
        /\ counters' \in [sleeping : Nat, inactive : Nat, jec : 0 .. JecSize - 1]
        /\ announced' \in [Workers -> BOOLEAN]
        /\ pc' \in [Actors -> WorkerLocs \cup ExternalLocs]
        /\ wake' \in [Actors -> WakeState]
        /\ \A b \in Actors \ {w} : pc'[b] = pc[b] /\ wake'[b] = wake[b]
        /\ pc'[w] \in {"run", "wake"}
        /\ At(w)' = "run"
        /\ WakingAt(w, AfterWake)'
    BY <1>1, <1>2, <1>4, WorkFoundFacts
  <2>2. /\ owner' \in [Workers -> Workers \cup Externals \cup {None}] /\ owner'[w] = x
        /\ \A v \in Workers \ {w} : owner'[v] = owner[v]
    BY <1>1, <1>4 DEF Typed
  <2>3. Typed'
    BY <1>1, <1>2, <1>4, <2>1, <2>2 DEF Typed, WorkerLocs
  <2>4. ASSUME NEW v \in Workers PROVE Placed(v)'
    <3>1. CASE v = w
      <4>1. ~Joins(w)' /\ ~deque'[w] /\ x # None
        BY <1>2, <1>3, <1>4 DEF Joins
      <4> QED
        BY <1>2, <1>3, <2>1, <2>2, <3>1, <4>1 DEF Placed, IdleLocs
    <3>2. CASE v # w
      <4>1. Placed(v) /\ At(v)' = At(v) /\ pc'[v] = pc[v] /\ Latch(v)' = Latch(v)
            /\ (Joins(v)' <=> Joins(v))
        BY <1>2, <2>1, <3>2 DEF Inv, At, Joins, Latch
      <4>2. deque'[v] => deque[v]
        BY <1>4
      <4> QED
        BY <1>2, <2>2, <3>2, <4>1, <4>2 DEF Placed
    <3> QED
      BY <3>1, <3>2
  <2>5. For(w)' = x /\ \A v \in Workers \ {w} : For(v)' = For(v)
    BY <2>1, <2>2 DEF For
  <2>6. Joined'
    <3>1. \A v, u \in Workers : For(v)' = u => child'[u] \notin {"none", "set"} /\ ~deque'[u]
      BY <1>1, <1>2, <1>4, <2>5 DEF Joined
    <3>2. \A u \in Workers : child'[u] \notin {"none", "set"} /\ ~deque'[u]
                               => \E v \in Workers : For(v)' = u
      <4>1. SUFFICES ASSUME NEW u \in Workers, child[u] \notin {"none", "set"}, ~deque'[u]
                     PROVE  \E v \in Workers : For(v)' = u
        BY <1>2
      <4>2. CASE u = x
        BY <2>5, <4>2
      <4>3. CASE u # x
        <5>1. PICK v \in Workers : For(v) = u
          BY <1>1, <1>4, <4>1, <4>3 DEF Joined
        <5>2. v # w
          BY <1>3, <5>1
        <5> QED
          BY <2>5, <5>1, <5>2
      <4> QED
        BY <4>2, <4>3
    <3>3. \A u, v \in Workers : For(v)' # None /\ For(u)' = For(v)' => u = v
      BY <1>1, <1>4, <2>5 DEF Joined
    <3> QED
      BY <3>1, <3>2, <3>3 DEF Joined
  <2>7. Grounded'
    <3>1. SUFFICES ASSUME NEW S \in SUBSET Workers, S # {}
                   PROVE  \E u \in S : \A v \in S : For(v)' # u
      BY DEF Grounded
    <3>2. CASE w \in S
      <4>1. \A v \in S : For(v)' # w
        BY <1>3, <1>4, <2>5
      <4> QED
        BY <3>2, <4>1
    <3>3. CASE w \notin S
      <4>1. PICK u \in S : \A v \in S : For(v) # u
        BY <1>1, <3>1 DEF Grounded
      <4>2. \A v \in S : For(v)' # u
        BY <2>5, <3>3, <4>1
      <4> QED
        BY <4>2
    <3> QED
      BY <3>2, <3>3
  <2>8. Injected'
    BY <1>1, <1>2, <1>4, <2>1, <2>2 DEF Injected, Typed
  <2>9. \A v \in Workers \ {w} : Latch(v)' = Latch(v)
    BY <1>2 DEF Latch, Joins
  <2>10. Job(w)
    BY <1>1, <1>2, <1>3, <2>1, <2>2 DEF Job, Locked
  <2> QED
    BY <2>1, <2>3, <2>4, <2>6, <2>7, <2>8, <2>9, <2>10, JobKept
<1>5. ASSUME NEW v \in scan[w], deque[v], deque' = [deque EXCEPT ![v] = FALSE],
             owner' = [owner EXCEPT ![w] = v], WorkFound(w, "run"), UNCHANGED <<scan, injected>>
      PROVE  Inv'
  <2>1. v \in Workers /\ v # w
    BY <1>1, <1>3, <1>5 DEF Typed
  <2>2. Placed(v)
    BY <2>1 DEF Inv
  <2>3. child[v] \notin {"none", "set"} /\ \A u \in Workers \ {w} : For(u) # v
    BY <1>1, <1>5, <2>1, <2>2 DEF Placed, Joined
  <2>4. deque' \in [Workers -> BOOLEAN] /\ ~deque'[v] /\ \A u \in Workers \ {v} : deque'[u] = deque[u]
    BY <1>1, <1>5, <2>1 DEF Typed
  <2>5. injected' \in Nat /\ injected' = Cardinality(UntakenOf(waits, owner'))
    <3>1. \A e \in Externals : (\E u \in Workers : owner'[u] = e) <=> (\E u \in Workers : owner[u] = e)
      BY <1>1, <1>3, <1>5, <2>1 DEF Typed
    <3>2. UntakenOf(waits, owner') = UntakenOf(waits, owner)
      BY <1>1, <3>1 DEF UntakenOf, Typed
    <3> QED
      BY <1>1, <1>5, <3>2 DEF Injected, Typed
  <2> QED
    BY <1>4, <1>5, <2>1, <2>3, <2>4, <2>5
<1>6. ASSUME injected > 0, injected' = injected - 1,
             NEW e \in waits \ {owner[v] : v \in Workers},
             owner' = [owner EXCEPT ![w] = e], WorkFound(w, "run"), UNCHANGED <<scan, deque>>
      PROVE  Inv'
  <2>1. e \in Externals /\ e \in waits /\ e # w /\ \A v \in Workers : owner[v] # e
    BY <1>1 DEF Typed
  <2>2. \A v \in Workers : For(v) # e
    BY <2>1 DEF For
  <2>3. deque' \in [Workers -> BOOLEAN]
    BY <1>1, <1>6 DEF Typed
  <2>4. injected' \in Nat /\ injected' = Cardinality(UntakenOf(waits, owner'))
    <3>1. UntakenOf(waits, owner') = UntakenOf(waits, owner) \ {e} /\ e \in UntakenOf(waits, owner)
      <4>1. owner'[w] = e /\ \A v \in Workers \ {w} : owner'[v] = owner[v]
        BY <1>1, <1>6 DEF Typed
      <4>2. \A d \in Externals \ {e} :
              (\E v \in Workers : owner'[v] = d) <=> (\E v \in Workers : owner[v] = d)
        BY <1>3, <4>1
      <4> QED
        BY <1>1, <2>1, <4>1, <4>2 DEF UntakenOf, Typed
    <3>2. IsFiniteSet(UntakenOf(waits, owner))
      <4>1. UntakenOf(waits, owner) \subseteq Externals
        BY <1>1 DEF UntakenOf, Typed
      <4> QED
        BY <4>1, FS_Subset, ConstantsAssumption
    <3>3. Cardinality(UntakenOf(waits, owner) \ {e}) = Cardinality(UntakenOf(waits, owner)) - 1
      BY <3>1, <3>2, FS_RemoveElement
    <3>4. injected = Cardinality(UntakenOf(waits, owner)) /\ injected \in Nat
      BY <1>1 DEF Injected, Typed
    <3>5. injected - 1 \in Nat
      BY <1>6, <3>4
    <3> QED
      BY <1>6, <3>1, <3>3, <3>4, <3>5
  <2> QED
    BY <1>4, <1>6, <2>1, <2>2, <2>3, <2>4
<1>7. ASSUME NEW y \in AwakeLocs, y # "scan" \/ ~Joins(w), pc' = [pc EXCEPT ![w] = y],
             scan' \in [Workers -> SUBSET Workers],
             UNCHANGED <<counters, announced, deque, injected, owner, wake>>
      PROVE  Inv'
  <2>1. pc[w] \in AwakeLocs /\ Latch(w) \in LatchStates
    BY <1>1, LatchType DEF AwakeLocs
  <2>2. /\ counters' \in [sleeping : Int, inactive : Int, jec : 0 .. JecSize - 1]
        /\ jobs_counter' \in [Workers -> 0 .. JecSize - 1]
        /\ announced' \in [Workers -> BOOLEAN]
    BY <1>1, <1>2, <1>7 DEF Typed
  <2> QED
    BY <1>2, <1>7, <2>1, <2>2, AwakeInv
<1>8. ASSUME NEW v \in scan[w], scan' = [scan EXCEPT ![w] = @ \ {v}],
             UNCHANGED <<pc, counters, announced, deque, injected, owner, wake>>
      PROVE  Inv'
  <2>1. "scan" \in AwakeLocs /\ ~Joins(w) /\ pc' = [pc EXCEPT ![w] = "scan"]
    BY <1>1, <1>3, <1>8 DEF AwakeLocs, Joins, Typed
  <2>2. scan' \in [Workers -> SUBSET Workers]
    BY <1>1, <1>8 DEF Typed
  <2> QED
    BY <1>7, <1>8, <2>1, <2>2
<1>9. ASSUME pc' = [pc EXCEPT ![w] = "no_work"],
             UNCHANGED <<counters, announced, scan, deque, injected, owner, wake>>
      PROVE  Inv'
  <2>1. "no_work" \in AwakeLocs /\ scan' \in [Workers -> SUBSET Workers]
    BY <1>1, <1>9 DEF AwakeLocs, Typed
  <2> QED
    BY <1>7, <1>9, <2>1
<1> QED
  BY <1>5, <1>6, <1>8, <1>9 DEF find_work

-----------------------------------------------------------------------------
(* The invariant and what follows from it. *)

\* Every step keeps the invariant.
LEMMA NextInv == Inv /\ [Next]_vars => Inv'
<1> SUFFICES ASSUME Inv, [Next]_vars PROVE Inv'
  OBVIOUS
<1>1. ASSUME NEW w \in Workers, WorkerStep(w) PROVE Inv'
  <2>1. finish(w) => owner[w] \in Workers \/ owner[w] \in Externals
    BY DEF finish
  <2> QED
    BY <1>1, <2>1, NewInternalInv, WaitForJobsInv, FinishChildInv, FinishExternalInv, NotifyInv,
       StartLookingInv, ProbeInv, FindWorkInv, NoWorkFoundInv, GetSleepyInv, FallAsleepInv,
       TryAddInv, CheckInjectedInv, BlockInv, ResumeInv DEF WorkerStep
<1>2. ASSUME NEW w \in Workers, fork(w) PROVE Inv'
  BY <1>2, ForkInv
<1>3. ASSUME NEW e \in Externals, ExternalStep(e) PROVE Inv'
  BY <1>3, InjectInv, InjectPushInv, NewInjectedInv, ExternalWaitInv DEF ExternalStep
<1>4. ASSUME NEW a \in Workers \cup Externals, wake_any_threads(a) PROVE Inv'
  BY <1>4, WakeAnyInv
<1>5. CASE set_terminate \/ tickle
  BY <1>5, SetTerminateInv, TickleInv
<1>6. CASE UNCHANGED vars
  <2>1. UNCHANGED <<pc, counters, jobs_counter, announced, scan, is_blocked, active, terminate,
                    child, deque, injected, owner, left, waits, wake>>
    BY <1>6 DEF vars, idleVars, poolVars
  <2>2. \A w \in Workers : /\ At(w)' = At(w) /\ Latch(w)' = Latch(w) /\ For(w)' = For(w)
                           /\ Joins(w)' <=> Joins(w)
                           /\ Locked(w)' <=> Locked(w)
                           /\ Asleep(w)' <=> Asleep(w)
                           /\ Notifier(w)' <=> Notifier(w)
    BY <2>1 DEF At, Latch, For, Joins, Locked, Asleep, Notifier
  <2>3. Typed' /\ Waking' /\ Counted'
    BY <2>1 DEF Inv, Typed, Waking, WakingAt, Counted
  <2>4. (\A w \in Workers : Placed(w)') /\ (\A w \in Workers : NoticedAt(w)')
    BY <2>1, <2>2 DEF Inv, Placed, NoticedAt
  <2>5. Joined' /\ Grounded'
    BY <2>1, <2>2, JoinedKept DEF Inv
  <2>6. Injected' /\ Terminated' /\ Seen'
    BY <2>1, <2>2 DEF Inv, Injected, Terminated, Finished, Seen, Waker
  <2> QED
    BY <2>3, <2>4, <2>5, <2>6 DEF Inv
<1> QED
  BY <1>1, <1>2, <1>3, <1>4, <1>5, <1>6 DEF Next

\* The invariant holds in every reachable state.
THEOREM PoolInvariant == Spec => []Inv
<1> QED
  BY InitInv, NextInv, PTL DEF Spec

\* sleep/counters.rs: the packed counters and active_threads count the workers
\* they claim to, and no field of the packed word borrows from its neighbour.
THEOREM PoolCountersExact == Spec => []CountersExact
<1>1. Inv => CountersExact
  <2> SUFFICES ASSUME Inv PROVE CountersExact
    OBVIOUS
  <2>1. Typed /\ Counted /\ Injected
    BY DEF Inv
  <2>2. /\ SleepersOf(pc, is_blocked) = {w \in Workers : \/ is_blocked[w]
                                                         \/ pc[w] \in {"check_injected", "block"}}
        /\ IdlersOf(pc) = {w \in Workers : Idles(w)}
        /\ BlockedOf(is_blocked) = {w \in Workers : is_blocked[w]}
    BY DEF SleepersOf, IdlersOf, BlockedOf, Idles, IdleLocs
  <2>3. /\ Cardinality(SleepersOf(pc, is_blocked)) <= N /\ Cardinality(IdlersOf(pc)) <= N
        /\ Cardinality(BlockedOf(is_blocked)) \in Nat /\ N \in Nat
    <3>1. /\ SleepersOf(pc, is_blocked) \in SUBSET Workers /\ IdlersOf(pc) \in SUBSET Workers
          /\ BlockedOf(is_blocked) \in SUBSET Workers
      BY DEF SleepersOf, IdlersOf, BlockedOf
    <3> QED
      BY <3>1, WorkersFinite, ConstantsAssumption
  <2>4. /\ counters.sleeping = Cardinality(SleepersOf(pc, is_blocked))
        /\ counters.inactive = Cardinality(IdlersOf(pc))
        /\ active + Cardinality(BlockedOf(is_blocked)) = N
        /\ active \in Nat
    BY <2>1 DEF Counted, CountedOf, Typed
  <2>5. active = N - Cardinality(BlockedOf(is_blocked)) /\ active \in 0 .. N
    BY <2>3, <2>4
  <2>6. counters \in [sleeping : 0 .. N, inactive : 0 .. N, jec : 0 .. JecSize - 1]
    <3>1. counters.sleeping \in 0 .. N /\ counters.inactive \in 0 .. N
      BY <2>1, <2>3, <2>4 DEF Typed
    <3> QED
      BY <2>1, <3>1 DEF Typed
  <2>7. injected \in 0 .. Cardinality(Externals)
    <3>1. UntakenOf(waits, owner) \subseteq Externals
      BY <2>1 DEF UntakenOf, Typed
    <3>2. Cardinality(UntakenOf(waits, owner)) <= Cardinality(Externals)
          /\ Cardinality(Externals) \in Nat
      BY <3>1, FS_Subset, FS_CardinalityType, ConstantsAssumption
    <3> QED
      BY <2>1, <3>2 DEF Injected, Typed
  <2>8. TypeOK
    BY <2>1, <2>5, <2>6, <2>7 DEF Typed, TypeOK
  <2> QED
    BY <2>2, <2>4, <2>5, <2>8 DEF CountersExact
<1> QED
  BY <1>1, PoolInvariant, PTL

\* latch.rs: a worker that is blocked on a latch that has been set is about to
\* be woken; get_sleepy, fall_asleep and the swap of CoreLatch::set never miss
\* each other.
THEOREM PoolSetLatchWakes == Spec => []SetLatchWakes
<1>1. Inv => SetLatchWakes
  BY DEF Inv, NoticedAt, Notifier, SetLatchWakes
<1> QED
  BY <1>1, PoolInvariant, PTL

\* Workers that sleep in a join wait for workers that do not: if every worker
\* is either asleep and able to steal, or waits for a child that is not done,
\* none of them waits.
LEMMA JoinersHaveRunner ==
  ASSUME Inv,
         \A w \in Workers : Asleep(w) \/ (Joins(w) /\ pc[w] \in IdleLocs /\ child[w] # "set")
  PROVE  \A w \in Workers : Asleep(w)
<1> DEFINE S == {w \in Workers : Joins(w)}
<1>1. SUFFICES ASSUME S # {} PROVE FALSE
  OBVIOUS
<1>2. PICK w \in S : \A v \in S : For(v) # w
  BY <1>1 DEF Inv, Grounded
<1>3. child[w] \notin {"none", "set"} /\ pc[w] \in IdleLocs
  BY <1>2 DEF Asleep, Joins
<1>4. ~deque[w]
  BY <1>2, <1>3 DEF Inv, Placed, At, IdleLocs
<1>5. PICK v \in Workers : For(v) = w
  BY <1>2, <1>3, <1>4 DEF Inv, Joined
<1>6. owner[v] # None /\ Placed(v)
  BY <1>2, <1>5, Distinct DEF For, Inv
<1>7. Joins(v)
  <2>1. CASE Asleep(v)
    BY <1>6, <2>1 DEF Placed, Asleep, At, IdleLocs
  <2> QED
    BY <2>1
<1> QED
  BY <1>2, <1>5, <1>7

\* sleep/mod.rs, registry.rs: the last check for injected jobs, made after the
\* worker has been counted as sleeping, and the announcement that reads that
\* count never miss each other: no injected job is left to a pool that sleeps
\* as a whole.
THEOREM PoolInjectedJobSeen == Spec => []InjectedJobSeen
<1>1. Inv => InjectedJobSeen
  <2> SUFFICES ASSUME Inv, injected > 0, \A w \in Workers : is_blocked[w]
               PROVE  \E e \in Externals : pc[e] \in {"new", "new_first", "wake"}
    BY DEF InjectedJobSeen
  <2>1. \A w \in Workers : pc[w] = "blocked" /\ pc[w] \in IdleLocs
    BY DEF Inv, Placed, IdleLocs
  <2>2. ~Finished
    <3>1. UntakenOf(waits, owner) # {}
      BY FS_EmptySet DEF Inv, Injected
    <3>2. PICK e \in waits : pc[e] # "idle"
      BY <3>1 DEF Inv, Injected, UntakenOf
    <3> QED
      BY <3>2 DEF Finished, Inv, Typed
  <2>3. \A w \in Workers : ~Notifier(w)
    BY <2>1, <2>2 DEF Inv, Terminated, Notifier
  <2>4. \A w \in Workers : Latch(w) # "set"
    BY <2>3 DEF Inv, NoticedAt
  <2>5. \A w \in Workers : Asleep(w) \/ (Joins(w) /\ pc[w] \in IdleLocs /\ child[w] # "set")
    BY <2>1, <2>4 DEF Asleep, Latch
  <2>6. \A w \in Workers : Asleep(w)
    BY <2>5, JoinersHaveRunner
  <2> QED
    BY <2>6 DEF Inv, Seen, Waker
<1> QED
  BY <1>1, PoolInvariant, PTL
=============================================================================

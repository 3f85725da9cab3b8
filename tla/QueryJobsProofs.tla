-------------------------- MODULE QueryJobsProofs ---------------------------
(***************************************************************************)
(* Proofs about QueryJobs, for every finite set of workers and queries and *)
(* every call graph: a query is executed once, waiters and wake-ups find   *)
(* each other, the counters of the thread pool are exact, and whenever the *)
(* deadlock handler is started there is a cycle that it finds and breaks;  *)
(* and about QueryCycle, for every wait graph: the depth first searches of *)
(* the handler find what WaitGraph says they should.                       *)
(*                                                                         *)
(* The invariant of QueryJobs has four parts: types (Typed); the frames on *)
(* the stacks, the active map, parents and tasks (FrameInv); latches,      *)
(* their lists and the threads that wait (WaitInv); the counters and when  *)
(* the handler is started (CountInv).  Each part is kept by a step given   *)
(* the parts before it.  The handler finds its cycle because, when nobody  *)
(* runs, every active job is waited from (JobHeldUp), and it finds a       *)
(* thread to resume because parents form no circle (Grounded); the first   *)
(* part below shows that such a graph has both.                            *)
(*                                                                         *)
(* A search is a recursive function, of which TLA+ says no more than that  *)
(* it is some function with that equation if there is one.  The last part  *)
(* gives every loop of a search a rank, the number of calls and waiters    *)
(* that it may still come to, builds the function rank by rank, and shows  *)
(* what it returns by looking at a loop of the least rank that would       *)
(* return something else.                                                  *)
(***************************************************************************)
EXTENDS QueryJobs, QueryCycle, FiniteSetTheorems, SequenceTheorems, WellFoundedInduction,
        TLAPS

-----------------------------------------------------------------------------
(***************************************************************************)
(* Why the deadlock handler of compiler/rustc_query_impl/src/job.rs finds  *)
(* what it looks for, in any finite wait graph in which the jobs' own      *)
(* parents form no circle (Rooted).                                        *)
(*                                                                         *)
(* The walks of WaitGraph are followed without counting their steps: a     *)
(* finite set that a walk does not leave has a smallest such subset, which *)
(* is the cycle (MinimalClosed).                                           *)
(***************************************************************************)

\* The function f does not leave the set C.
Closed(f, C) == \A c \in C : f[c] \in C

-----------------------------------------------------------------------------
\* A set of natural numbers has a least element.
LEMMA LeastNat ==
  ASSUME NEW S, S \subseteq Nat, S # {}
  PROVE  \E m \in S : \A t \in S : m <= t
<1> DEFINE R == {ss \in Nat \X Nat : ss[1] < ss[2]}
<1>1. IsWellFoundedOn(R, Nat)
  BY NatLessThanWellFounded DEF OpToRel
<1>2. \A a, b \in Nat : a < b => <<a, b>> \in R
  OBVIOUS
<1> HIDE DEF R
<1>3. PICK m \in S : \A y \in S : ~(<<y, m>> \in R)
  BY <1>1, WFMin
<1>4. ASSUME NEW t \in S PROVE m <= t
  <2>1. t \in Nat /\ m \in Nat /\ ~(t < m)
    BY <1>2, <1>3
  <2> QED
    BY <2>1
<1> QED
  BY <1>4

\* A finite nonempty set that f does not leave has a smallest subset of that
\* kind.
LEMMA MinimalClosed ==
  ASSUME NEW S, NEW f, IsFiniteSet(S), S # {}, Closed(f, S)
  PROVE  \E C \in SUBSET S :
           /\ C # {} /\ Closed(f, C)
           /\ \A D \in SUBSET C : D # {} /\ Closed(f, D) => D = C
<1> DEFINE All == {C \in SUBSET S : C # {} /\ Closed(f, C)}
<1>1. S \in All /\ All # {}
  OBVIOUS
<1>2. All \subseteq FiniteSubsetsOf(S)
  BY FS_Subset DEF FiniteSubsetsOf
<1>3. PICK C \in All : \A D \in All : ~(<<D, C>> \in StrictSubsetOrdering(S))
  BY <1>1, <1>2, FS_StrictSubsetOrderingWellFounded, WFMin
<1>4. ASSUME NEW D \in SUBSET C, D # {}, Closed(f, D) PROVE D = C
  <2>1. D \in All
    BY <1>3, <1>4
  <2> QED
    BY <1>3, <2>1 DEF StrictSubsetOrdering
<1> QED
  BY <1>3, <1>4

-----------------------------------------------------------------------------
\* Endless is one of the sets it is the union of.
LEMMA EndlessClosed ==
  ASSUME NEW graph
  PROVE  /\ Endless(graph) \subseteq DOMAIN graph
         /\ \A j \in Endless(graph) :
              \E i \in DOMAIN graph[j] : graph[j][i].parent \in Endless(graph)
<1> DEFINE Sets == {J \in SUBSET DOMAIN graph :
                      \A j \in J : \E i \in DOMAIN graph[j] : graph[j][i].parent \in J}
<1>1. Endless(graph) = UNION Sets
  BY Zenon DEF Endless
<1>2. Endless(graph) \subseteq DOMAIN graph
  BY <1>1
<1>3. ASSUME NEW j \in Endless(graph)
      PROVE  \E i \in DOMAIN graph[j] : graph[j][i].parent \in Endless(graph)
  <2>1. PICK J \in Sets : j \in J
    BY <1>1, <1>3
  <2>2. PICK i \in DOMAIN graph[j] : graph[j][i].parent \in J
    BY <2>1
  <2>3. graph[j][i].parent \in Endless(graph)
    BY <1>1, <2>1, <2>2
  <2> QED
    BY <2>3
<1> QED
  BY <1>2, <1>3

\* The followed waiter of a job that leads to a cycle is one of its waiters,
\* and leads to a cycle.
LEMMA FollowedWaiter ==
  ASSUME NEW graph, IsWaitGraph(graph), NEW j \in Endless(graph)
  PROVE  \E i \in DOMAIN graph[j] :
           /\ Followed(graph, j) = graph[j][i]
           /\ graph[j][i].parent \in Endless(graph)
<1> DEFINE E == Endless(graph)
           W == {i \in DOMAIN graph[j] : graph[j][i].parent \in E}
           P(i) == /\ graph[j][i].parent \in E
                   /\ \A h \in 1 .. i - 1 : graph[j][h].parent \notin E
<1>0. /\ Len(graph[j]) \in Nat /\ DOMAIN graph[j] = 1 .. Len(graph[j])
  BY EndlessClosed DEF IsWaitGraph
<1>1. W \subseteq Nat /\ W # {}
  BY <1>0, EndlessClosed
<1>2. PICK m \in W : \A t \in W : m <= t
  BY <1>1, LeastNat
<1>3. \E i \in DOMAIN graph[j] : P(i)
  <2>1. m \in DOMAIN graph[j] /\ graph[j][m].parent \in E
    BY <1>2
  <2>2. ASSUME NEW h \in 1 .. m - 1 PROVE graph[j][h].parent \notin E
    <3>1. h \in DOMAIN graph[j] /\ ~(m <= h)
      BY <1>0, <2>1, <2>2
    <3> QED
      BY <1>2, <3>1
  <2> QED
    BY <2>1, <2>2
<1>4. Followed(graph, j) = graph[j][CHOOSE i \in DOMAIN graph[j] : P(i)]
  BY DEF Followed
<1> DEFINE c == CHOOSE i \in DOMAIN graph[j] : P(i)
<1>5. c \in DOMAIN graph[j] /\ P(c)
  BY <1>3, Zenon
<1> QED
  BY <1>4, <1>5

\* Met is closed under the walk outside Stop, contains its start and is
\* contained in every other such set.
LEMMA MetClosed ==
  ASSUME NEW graph, IsWaitGraph(graph), NEW j \in Endless(graph), NEW Stop
  PROVE  /\ Met(graph, j, Stop) \subseteq Endless(graph)
         /\ j \in Met(graph, j, Stop)
         /\ \A i \in Met(graph, j, Stop) \ Stop :
              Followed(graph, i).parent \in Met(graph, j, Stop)
         /\ \A J \in SUBSET Endless(graph) :
              j \in J /\ (\A i \in J \ Stop : Followed(graph, i).parent \in J)
                => Met(graph, j, Stop) \subseteq J
<1> DEFINE E == Endless(graph)
           on == [i \in E |-> Followed(graph, i).parent]
           M == Met(graph, j, Stop)
           C(J) == j \in J /\ \A i \in J \ Stop : on[i] \in J
<1>1. M = {m \in E : \A J \in SUBSET E : C(J) => m \in J}
  BY DEF Met
<1>2. \A i \in E : on[i] = Followed(graph, i).parent /\ on[i] \in E
  BY FollowedWaiter
<1> HIDE DEF M, on, E
<1>3. M \subseteq E /\ j \in M
  BY <1>1 DEF E
<1>4. ASSUME NEW i \in M \ Stop PROVE on[i] \in M
  <2>1. ASSUME NEW J \in SUBSET E, C(J) PROVE on[i] \in J
    BY <1>1, <1>4, <2>1
  <2>2. on[i] \in E
    BY <1>2, <1>3, <1>4
  <2> QED
    BY <1>1, <2>1, <2>2
<1>5. ASSUME NEW J \in SUBSET E, j \in J, \A i \in J \ Stop : Followed(graph, i).parent \in J
      PROVE  M \subseteq J
  <2>1. C(J)
    BY <1>2, <1>5
  <2> QED
    BY <1>1, <2>1
<1> QED
  BY <1>2, <1>3, <1>4, <1>5 DEF E, M

-----------------------------------------------------------------------------
\* `resumable.unwrap()` does not fail: on the way from any job that leads to a
\* cycle find_cycle passes a thread that it can resume, because the parents
\* alone form no circle.
THEOREM ResumableFound ==
  ASSUME NEW graph, IsWaitGraph(graph), Rooted(graph), NEW k \in Endless(graph),
         \A j \in DOMAIN graph : \A i \in DOMAIN graph[j] :
           graph[j][i].resumable # None =>
             [waitee |-> j, waiter |-> graph[j][i].resumable] # None
  PROVE  /\ ResumedFrom(graph, k) # None
         /\ \E j \in DOMAIN graph : \E i \in DOMAIN graph[j] :
              /\ ResumedFrom(graph, k) = [waitee |-> j, waiter |-> graph[j][i].resumable]
              /\ graph[j][i].resumable # None
<1> DEFINE E == Endless(graph)
           R == {i \in E : Followed(graph, i).resumable # None}
           M == Met(graph, k, R)
           first == M \cap R
           j == CHOOSE i \in first : TRUE
<1>1. /\ M \subseteq E /\ k \in M
      /\ \A i \in M \ R : Followed(graph, i).parent \in M
  BY MetClosed
<1>2. E \subseteq DOMAIN graph
  BY EndlessClosed
<1>3. first # {}
  <2>1. SUFFICES ASSUME first = {} PROVE FALSE
    OBVIOUS
  <2>2. ASSUME NEW m \in M PROVE graph[m][1].parent \in M
    <3>1. m \in E /\ m \notin R
      BY <1>1, <2>1
    <3>2. PICK i \in DOMAIN graph[m] : Followed(graph, m) = graph[m][i]
      BY <3>1, FollowedWaiter
    <3>3. i = 1
      BY <1>2, <3>1, <3>2 DEF IsWaitGraph
    <3> QED
      BY <1>1, <3>1, <3>2, <3>3
  <2>3. PICK m \in M : graph[m][1].parent \notin M
    BY <1>1, <1>2 DEF Rooted
  <2> QED
    BY <2>2, <2>3
<1>4. j \in first
  BY <1>3
<1>5. ResumedFrom(graph, k) = [waitee |-> j, waiter |-> Followed(graph, j).resumable]
  BY <1>3 DEF ResumedFrom
<1>6. PICK i \in DOMAIN graph[j] : Followed(graph, j) = graph[j][i]
  BY <1>4, FollowedWaiter
<1>7. j \in DOMAIN graph /\ graph[j][i].resumable # None
  BY <1>1, <1>2, <1>4, <1>6
<1> HIDE DEF j, first, M, R, E
<1>8. ResumedFrom(graph, k) = [waitee |-> j, waiter |-> graph[j][i].resumable]
  BY <1>5, <1>6
<1> QED
  BY <1>7, <1>8

\* find_cycle returns the jobs of a cycle: from each of them the followed
\* waiter leads to another one, and there is at least one.
THEOREM CycleFound ==
  ASSUME NEW graph, IsWaitGraph(graph), NEW k \in Endless(graph)
  PROVE  /\ CycleFrom(graph, k) # {}
         /\ CycleFrom(graph, k) \subseteq DOMAIN graph
         /\ \A c \in CycleFrom(graph, k) : Followed(graph, c).parent \in CycleFrom(graph, k)
<1> DEFINE E == Endless(graph)
           on == [i \in E |-> Followed(graph, i).parent]
           M(i) == Met(graph, i, {})
<1>1. \A i \in E : on[i] = Followed(graph, i).parent /\ on[i] \in E
  BY FollowedWaiter
<1>2. E \subseteq DOMAIN graph /\ k \in E
  BY EndlessClosed
<1>3. CycleFrom(graph, k) = {c \in M(k) : c \in M(Followed(graph, c).parent)}
  BY DEF CycleFrom
<1> HIDE DEF on
<1>4. ASSUME NEW i \in E
      PROVE  /\ M(i) \subseteq E /\ i \in M(i) /\ Closed(on, M(i))
             /\ \A J \in SUBSET E : i \in J /\ Closed(on, J) => M(i) \subseteq J
  <2>1. \A J \in SUBSET E : Closed(on, J) <=> \A h \in J \ {} : Followed(graph, h).parent \in J
    BY <1>1 DEF Closed
  <2> QED
    BY <1>4, <2>1, MetClosed
<1>5. CycleFrom(graph, k) = {c \in M(k) : c \in M(on[c])}
  BY <1>1, <1>2, <1>3, <1>4
<1> HIDE DEF E, M
<1>6. IsFiniteSet(M(k)) /\ M(k) # {}
  BY <1>2, <1>4, FS_Subset DEF IsWaitGraph
<1>7. PICK C \in SUBSET M(k) :
        /\ C # {} /\ Closed(on, C)
        /\ \A D \in SUBSET C : D # {} /\ Closed(on, D) => D = C
  BY <1>2, <1>4, <1>6, MinimalClosed
<1>8. ASSUME NEW c \in C PROVE c \in CycleFrom(graph, k)
  <2>1. c \in M(k) /\ on[c] \in C /\ C \subseteq E /\ on[c] \in E
    BY <1>2, <1>4, <1>7, <1>8 DEF Closed
  <2>2. M(on[c]) \subseteq C /\ on[c] \in M(on[c]) /\ Closed(on, M(on[c]))
    BY <1>4, <1>7, <2>1
  <2>3. M(on[c]) = C
    BY <1>7, <2>2
  <2> QED
    BY <1>5, <1>8, <2>1, <2>3
<1>9. ASSUME NEW c \in CycleFrom(graph, k) PROVE on[c] \in CycleFrom(graph, k)
  <2>1. c \in M(k) /\ c \in E /\ c \in M(on[c]) /\ on[c] \in E /\ on[on[c]] \in E
    BY <1>1, <1>2, <1>4, <1>5, <1>9
  <2>2. on[c] \in M(k)
    BY <1>2, <1>4, <2>1 DEF Closed
  <2> DEFINE D == M(on[on[c]])
  <2>3. D \subseteq E /\ on[on[c]] \in D /\ Closed(on, D)
    BY <1>4, <2>1
  <2> HIDE DEF D
  <2>4. Closed(on, D \cup {on[c]})
    BY <2>3 DEF Closed
  <2>5. M(on[c]) \subseteq D \cup {on[c]}
    BY <1>4, <2>1, <2>3, <2>4
  <2>6. on[c] \in D
    BY <2>1, <2>3, <2>5 DEF Closed
  <2> QED
    BY <1>5, <2>2, <2>6 DEF D
<1>10. CycleFrom(graph, k) \subseteq E
  BY <1>2, <1>4, <1>5
<1> QED
  BY <1>1, <1>2, <1>7, <1>8, <1>9, <1>10

\* `entry_points[0]` is there: some job of the cycle is asked for from outside
\* it, by the root or by a job that the root reaches without passing through
\* the cycle.
THEOREM EntryPointFound ==
  ASSUME NEW graph, IsWaitGraph(graph), Rooted(graph), NEW k \in Endless(graph)
  PROVE  EntryPoints(graph, CycleFrom(graph, k)) # {}
<1> DEFINE ring == CycleFrom(graph, k)
           Outside == DOMAIN graph \ ring
           IsClosed(J) == \A j \in J : \A i \in DOMAIN graph[j] :
                            graph[j][i].parent \in J \cup ring
           U == UNION {J \in SUBSET Outside : IsClosed(J)}
<1>1. SUFFICES ASSUME EntryPoints(graph, ring) = {} PROVE FALSE
  OBVIOUS
<1>2. ring # {} /\ ring \subseteq DOMAIN graph
  BY CycleFound
<1>3. RootedOutside(graph, ring) = Outside \ U
  BY DEF RootedOutside
<1>4. EntryPoints(graph, ring) =
        {j \in ring : \E i \in DOMAIN graph[j] :
           graph[j][i].parent \in {None} \cup (Outside \ U)}
  BY <1>3 DEF EntryPoints
<1> HIDE DEF ring
<1>5. U \subseteq Outside /\ IsClosed(U)
  OBVIOUS
<1> HIDE DEF U
<1>6. ASSUME NEW j \in ring \cup U PROVE graph[j][1].parent \in ring \cup U
  <2>1. /\ j \in DOMAIN graph /\ 1 \in DOMAIN graph[j]
        /\ graph[j][1].parent \in DOMAIN graph \cup {None}
    BY <1>2, <1>5, <1>6 DEF IsWaitGraph
  <2>2. CASE j \in ring
    BY <1>1, <1>4, <2>1, <2>2
  <2>3. CASE j \in U
    BY <1>5, <2>1, <2>3
  <2> QED
    BY <1>6, <2>2, <2>3
<1>7. ring \cup U \in SUBSET DOMAIN graph /\ ring \cup U # {}
  BY <1>2, <1>5
<1> QED
  BY <1>6, <1>7 DEF Rooted

\* There is a cycle when every job waits for another one: "unable to find a
\* query cycle" is not reached.
THEOREM CycleExists ==
  ASSUME NEW graph, IsWaitGraph(graph), DOMAIN graph # {},
         \A j \in DOMAIN graph : \E h \in DOMAIN graph :
           \E i \in DOMAIN graph[h] : graph[h][i].parent = j
  PROVE  Endless(graph) # {}
<1> DEFINE f == [j \in DOMAIN graph |-> CHOOSE h \in DOMAIN graph :
                   \E i \in DOMAIN graph[h] : graph[h][i].parent = j]
<1>1. \A j \in DOMAIN graph :
        f[j] \in DOMAIN graph /\ \E i \in DOMAIN graph[f[j]] : graph[f[j]][i].parent = j
  OBVIOUS
<1> HIDE DEF f
<1>2. PICK C \in SUBSET DOMAIN graph :
        /\ C # {} /\ Closed(f, C)
        /\ \A D \in SUBSET C : D # {} /\ Closed(f, D) => D = C
  <2>1. IsFiniteSet(DOMAIN graph) /\ Closed(f, DOMAIN graph)
    BY <1>1 DEF IsWaitGraph, Closed
  <2> QED
    BY <2>1, MinimalClosed
<1> DEFINE D == {f[c] : c \in C}
<1>3. D \subseteq C /\ D # {} /\ Closed(f, D)
  BY <1>2 DEF Closed
<1>4. D = C
  BY <1>2, <1>3
<1>5. ASSUME NEW c \in C PROVE \E i \in DOMAIN graph[c] : graph[c][i].parent \in C
  <2>1. PICK j \in C : c = f[j]
    BY <1>4, <1>5
  <2>2. j \in DOMAIN graph
    BY <1>2, <2>1
  <2>3. PICK i \in DOMAIN graph[c] : graph[c][i].parent = j
    BY <1>1, <2>1, <2>2
  <2> QED
    BY <2>1, <2>3
<1>6. C \subseteq Endless(graph)
  BY <1>2, <1>5 DEF Endless
<1> QED
  BY <1>2, <1>6

-----------------------------------------------------------------------------
(* The invariant of the query system. *)

Depth(w) == Len(stack[w])
Frames(w) == 1 .. Depth(w)

TaskState == [st : {"none", "pending", "taken", "done", "panicked"}, left : SUBSET Keys]

\* TypeOK but for the counters, whose range follows from what they count.
Typed ==
  /\ calls \in [Keys -> SUBSET Keys]
  /\ cache \in SUBSET Keys
  /\ active \in [Keys -> {"vacant", "started", "poisoned"}]
  /\ parent \in [Keys -> Keys \cup {None}]
  /\ latch \in [Keys -> {"none", "open", "complete"}]
  /\ waiters \in [Keys -> Seq(Workers)]
  /\ wlock \in [Keys -> Workers \cup {None}]
  /\ cycle \in [Workers -> {None} \cup SUBSET Keys]
  /\ stack \in [Workers -> Seq(Frame)]
  /\ pc \in [Workers -> Locs]
  /\ want \in [Workers -> Keys \cup {None}]
  /\ task \in [Keys -> TaskState]
  /\ todo \in SUBSET Roots
  /\ handler \in [spawned : Nat, pc : {"off", "unblock", "notify"},
                   waiter : Workers \cup {None}]

Asking  == {"try", "wait_on", "mark_blocked", "wait", "waiting", "notified", "waited"}
Ending  == {"remove", "signal"}
Joining == {"joining", "join_asleep"}

\* Where a worker can be, given its stack.
Placed(w) ==
  /\ (Depth(w) = 0) <=> (pc[w] \in {"idle", "idle_asleep"})
  /\ Depth(w) # 0 => stack[w][Depth(w)].is_task
  /\ pc[w] \in Joining \cup Ending => ~stack[w][1].is_task
  /\ \A i \in Frames(w) : ~stack[w][i].is_task => stack[w][i].key \in Keys
  /\ pc[w] \in Asking => want[w] \in Keys

Base == Typed /\ \A w \in Workers : Placed(w)

-----------------------------------------------------------------------------
\* What a step does to a stack, as far as keys and kinds of frames go.
Like(s, t) ==
  /\ Len(t) = Len(s)
  /\ \A i \in 1 .. Len(s) : t[i].key = s[i].key /\ t[i].is_task = s[i].is_task

Pushed(s, t, k, b) ==
  /\ Len(t) = Len(s) + 1
  /\ t[1].key = k /\ t[1].is_task = b
  /\ \A i \in 1 .. Len(s) : t[i + 1].key = s[i].key /\ t[i + 1].is_task = s[i].is_task

Popped(s, t) ==
  /\ Len(s) = Len(t) + 1
  /\ \A i \in 1 .. Len(t) : t[i].key = s[i + 1].key /\ t[i].is_task = s[i + 1].is_task

\* All stacks but that of w stay.
Elsewhere(w) == stack' = [stack EXCEPT ![w] = stack'[w]]

\* The running frame is the first one.
LEMMA TopFrame ==
  ASSUME NEW s \in Seq(Frame), s # <<>>
  PROVE  /\ Len(s) \in Nat \ {0} /\ Head(s) = s[1] /\ s[1] \in Frame
         /\ s[1].key \in Keys \cup {None} /\ s[1].left \in SUBSET Keys
         /\ s[1].is_task \in BOOLEAN /\ s[1].bad \in BOOLEAN
<1>1. Len(s) \in Nat \ {0} /\ Head(s) = s[1] /\ s[1] \in Frame
  OBVIOUS
<1> QED
  BY <1>1 DEF Frame

\* A new frame on top.
LEMMA PushFrame ==
  ASSUME NEW s \in Seq(Frame), NEW f \in Frame
  PROVE  <<f>> \o s \in Seq(Frame) /\ Pushed(s, <<f>> \o s, f.key, f.is_task)
<1>1. /\ <<f>> \in Seq(Frame) /\ Len(<<f>>) = 1 /\ <<f>>[1] = f
      /\ Len(s) \in Nat
  OBVIOUS
<1> DEFINE t == <<f>> \o s
<1>2. t \in Seq(Frame) /\ Len(t) = Len(s) + 1
  BY <1>1
<1>3. t[1] = f /\ \A i \in 1 .. Len(s) : t[i + 1] = s[i]
  BY <1>1
<1> QED
  BY <1>2, <1>3 DEF Pushed

\* The running frame's `left` and `bad` change.
LEMMA ChangeFrame ==
  ASSUME NEW s \in Seq(Frame), s # <<>>, NEW f \in Frame,
         f.key = s[1].key, f.is_task = s[1].is_task
  PROVE  /\ [s EXCEPT ![1] = f] \in Seq(Frame)
         /\ Like(s, [s EXCEPT ![1] = f])
<1>1. Len(s) \in Nat \ {0} /\ DOMAIN s = 1 .. Len(s)
  OBVIOUS
<1> DEFINE t == [s EXCEPT ![1] = f]
<1>2. t \in Seq(Frame) /\ Len(t) = Len(s)
  BY <1>1
<1>3. \A i \in 1 .. Len(s) : t[i] = IF i = 1 THEN f ELSE s[i]
  BY <1>1
<1> QED
  BY <1>2, <1>3 DEF Like

\* The running frame is left.
LEMMA PopFrame ==
  ASSUME NEW s \in Seq(Frame), s # <<>>
  PROVE  Tail(s) \in Seq(Frame) /\ Popped(s, Tail(s))
<1>1. Len(s) \in Nat \ {0}
  OBVIOUS
<1>2. Tail(s) \in Seq(Frame) /\ Len(Tail(s)) = Len(s) - 1
  OBVIOUS
<1>3. \A i \in 1 .. Len(Tail(s)) : Tail(s)[i] = s[i + 1]
  BY <1>1, <1>2
<1> QED
  BY <1>1, <1>2, <1>3 DEF Popped

\* The running frame is left by unwinding into the one below.
LEMMA UnwindFrame ==
  ASSUME NEW s \in Seq(Frame), Len(s) > 1
  PROVE  LET t == <<[Tail(s)[1] EXCEPT !.bad = TRUE, !.left = {}]>> \o Tail(Tail(s))
         IN  t \in Seq(Frame) /\ Popped(s, t)
<1> DEFINE u == Tail(s)
           f == [u[1] EXCEPT !.bad = TRUE, !.left = {}]
           t == <<f>> \o Tail(u)
<1>1. u \in Seq(Frame) /\ Popped(s, u) /\ u # <<>> /\ Len(s) \in Nat
  BY PopFrame
<1> HIDE DEF u
<1>2. u[1] \in Frame /\ Tail(u) \in Seq(Frame) /\ Popped(u, Tail(u)) /\ Len(u) \in Nat \ {0}
  BY <1>1, PopFrame, TopFrame
<1>3. f \in Frame /\ f.key = u[1].key /\ f.is_task = u[1].is_task
  BY <1>2 DEF Frame
<1> HIDE DEF f
<1>4. t \in Seq(Frame) /\ Pushed(Tail(u), t, f.key, f.is_task)
  BY <1>2, <1>3, PushFrame
<1> HIDE DEF t
<1>5. Len(t) = Len(u) /\ Len(s) = Len(u) + 1 /\ Len(Tail(u)) = Len(u) - 1
  BY <1>1, <1>2, <1>4 DEF Popped, Pushed
<1>6. ASSUME NEW i \in 1 .. Len(t)
      PROVE  t[i].key = u[i].key /\ t[i].is_task = u[i].is_task
  <2>1. CASE i = 1
    BY <1>3, <1>4, <2>1 DEF Pushed
  <2>2. CASE i # 1
    <3> DEFINE h == i - 1
    <3>1. h \in 1 .. Len(Tail(u)) /\ i = h + 1
      BY <1>2, <1>5, <2>2
    <3>2. t[h + 1].key = Tail(u)[h].key /\ t[h + 1].is_task = Tail(u)[h].is_task
      BY <1>4, <3>1 DEF Pushed
    <3>3. Tail(u)[h].key = u[h + 1].key /\ Tail(u)[h].is_task = u[h + 1].is_task
      BY <1>2, <3>1 DEF Popped
    <3> QED
      BY <3>1, <3>2, <3>3
  <2> QED
    BY <2>1, <2>2
<1>7. Popped(s, t)
  BY <1>1, <1>5, <1>6 DEF Popped
<1> QED
  BY <1>4, <1>7 DEF t, f, u

\* A worker at a place that is not idle has a running frame.
LEMMA TopOf ==
  ASSUME Base, NEW w \in Workers, pc[w] \notin {"idle", "idle_asleep"}
  PROVE  /\ stack[w] \in Seq(Frame) /\ stack[w] # <<>> /\ Depth(w) \in Nat \ {0}
         /\ Top(w) = stack[w][1] /\ stack[w][1] \in Frame
         /\ Top(w).key \in Keys \cup {None} /\ Top(w).left \in SUBSET Keys
         /\ Top(w).is_task \in BOOLEAN /\ Top(w).bad \in BOOLEAN
         /\ ~Top(w).is_task => Top(w).key \in Keys /\ Depth(w) > 1
         /\ Current(w) = stack[w][1].key
<1>1. stack[w] \in Seq(Frame) /\ Depth(w) # 0
  BY DEF Base, Typed, Placed
<1>2. stack[w] # <<>>
  BY <1>1 DEF Depth
<1>3. Depth(w) \in Nat \ {0} /\ Top(w) = stack[w][1] /\ Current(w) = stack[w][1].key
  BY <1>1, <1>2, TopFrame DEF Depth, Top, Current
<1>4. ~Top(w).is_task => Top(w).key \in Keys /\ Depth(w) > 1
  BY <1>1, <1>3 DEF Base, Placed, Frames
<1> QED
  BY <1>1, <1>2, <1>3, <1>4, TopFrame

\* The running frame of w is changed.
LEMMA ChangeTop ==
  ASSUME Base, NEW w \in Workers, stack[w] # <<>>, NEW f \in Frame,
         f.key = stack[w][1].key, f.is_task = stack[w][1].is_task,
         stack' = [stack EXCEPT ![w] = [stack[w] EXCEPT ![1] = f]]
  PROVE  /\ stack' \in [Workers -> Seq(Frame)] /\ Elsewhere(w)
         /\ Like(stack[w], stack'[w])
<1>1. stack \in [Workers -> Seq(Frame)]
  BY DEF Base, Typed
<1>2. stack'[w] = [stack[w] EXCEPT ![1] = f]
  BY <1>1
<1>3. stack'[w] \in Seq(Frame) /\ Like(stack[w], stack'[w])
  BY <1>1, <1>2, ChangeFrame
<1> QED
  BY <1>1, <1>2, <1>3 DEF Elsewhere

\* A panic changes what is left of the running frame, not its key or kind.
LEMMA UnwoundShape ==
  ASSUME Base, NEW w \in Workers, stack[w] # <<>>, stack' = Unwound(w)
  PROVE  /\ stack' \in [Workers -> Seq(Frame)] /\ Elsewhere(w)
         /\ Like(stack[w], stack'[w])
<1> DEFINE f == [stack[w][1] EXCEPT !.bad = TRUE, !.left = {}]
<1>1. stack \in [Workers -> Seq(Frame)] /\ stack[w] \in Seq(Frame) /\ stack[w][1] \in Frame
  BY TopFrame DEF Base, Typed
<1>2. f \in Frame /\ f.key = stack[w][1].key /\ f.is_task = stack[w][1].is_task
  BY <1>1 DEF Frame
<1>3. stack' = [stack EXCEPT ![w] = [stack[w] EXCEPT ![1] = f]]
  BY DEF Unwound
<1> HIDE DEF f
<1> QED
  BY <1>2, <1>3, ChangeTop

\* Asking and forking take queries from what is left of the running frame.
LEMMA LeftShape ==
  ASSUME Base, NEW w \in Workers, stack[w] # <<>>, NEW L,
         stack' = [stack EXCEPT ![w][1].left = @ \ L]
  PROVE  /\ stack' \in [Workers -> Seq(Frame)] /\ Elsewhere(w)
         /\ Like(stack[w], stack'[w])
<1> DEFINE f == [stack[w][1] EXCEPT !.left = stack[w][1].left \ L]
<1>1. stack \in [Workers -> Seq(Frame)] /\ stack[w] \in Seq(Frame) /\ stack[w][1] \in Frame
  BY TopFrame DEF Base, Typed
<1>2. f \in Frame /\ f.key = stack[w][1].key /\ f.is_task = stack[w][1].is_task
  BY <1>1 DEF Frame
<1>3. stack' = [stack EXCEPT ![w] = [stack[w] EXCEPT ![1] = f]]
  OBVIOUS
<1> HIDE DEF f
<1> QED
  BY <1>2, <1>3, ChangeTop

\* A worker enters a frame: the others stay below it.
LEMMA PushShape ==
  ASSUME Base, NEW w \in Workers, NEW f \in Frame,
         stack' = [stack EXCEPT ![w] = <<f>> \o @]
  PROVE  /\ stack' \in [Workers -> Seq(Frame)] /\ Elsewhere(w)
         /\ Pushed(stack[w], stack'[w], f.key, f.is_task)
<1>1. stack \in [Workers -> Seq(Frame)] /\ stack[w] \in Seq(Frame)
  BY DEF Base, Typed
<1>2. stack'[w] = <<f>> \o stack[w]
  BY <1>1
<1>3. stack'[w] \in Seq(Frame) /\ Pushed(stack[w], stack'[w], f.key, f.is_task)
  BY <1>1, <1>2, PushFrame
<1> QED
  BY <1>1, <1>2, <1>3 DEF Elsewhere

-----------------------------------------------------------------------------
(* Types. *)

\* The handler's cycle is a set of jobs.
LEMMA CycleType ==
  ASSUME NEW k PROVE CycleFrom(JobMap, k) \subseteq Keys
<1>1. DOMAIN JobMap \subseteq Keys
  BY DEF JobMap, Started
<1>2. Endless(JobMap) \subseteq DOMAIN JobMap
  BY EndlessClosed
<1> HIDE DEF JobMap
<1>3. CycleFrom(JobMap, k) \subseteq Endless(JobMap)
  BY DEF CycleFrom, Met
<1> QED
  BY <1>1, <1>2, <1>3

\* A waiter is taken out of a list.
LEMMA RemoveType ==
  ASSUME NEW s \in Seq(Workers), NEW i \in DOMAIN s
  PROVE  RemoveAt(s, i) \in Seq(Workers)
<1>1. Len(s) \in Nat /\ i \in 1 .. Len(s)
  OBVIOUS
<1>2. SubSeq(s, 1, i - 1) \in Seq(Workers) /\ SubSeq(s, i + 1, Len(s)) \in Seq(Workers)
  BY <1>1
<1> QED
  BY <1>2 DEF RemoveAt

\* Sleepers that are woken are idle or joining.
LEMMA WokenType ==
  ASSUME Base, NEW S
  PROVE  /\ Woken(S) \in [Workers -> Locs]
         /\ \A v \in Workers :
              Woken(S)[v] = IF v \in S THEN Awake(pc[v]) ELSE pc[v]
BY DEF Woken, Awake, Base, Typed, Locs

\* notify_one moves only threads that are in condvar.wait.
LEMMA NotifiedType ==
  ASSUME Base, NEW S
  PROVE  /\ Notified(S) \in [Workers -> Locs]
         /\ \A v \in Workers :
              Notified(S)[v] = IF v \in S /\ pc[v] = "waiting" THEN "notified" ELSE pc[v]
BY DEF Notified, Base, Typed, Locs

\* A task is taken.
LEMMA TakenType ==
  ASSUME Typed, NEW k
  PROVE  [task EXCEPT ![k].st = "taken"] \in [Keys -> TaskState]
<1>1. task \in [Keys -> TaskState]
  BY DEF Typed
<1>2. \A t \in TaskState : [t EXCEPT !.st = "taken"] \in TaskState
  BY DEF TaskState
<1>3. k \in Keys => [task[k] EXCEPT !.st = "taken"] \in TaskState
  BY <1>1, <1>2
<1> QED
  BY <1>1, <1>3

\* Frames of tasks and of queries.
LEMMA NewTaskFrame ==
  ASSUME NEW k \in Keys \cup {None}, NEW L \in SUBSET Keys
  PROVE  /\ TaskFrame(k, L) \in Frame
         /\ TaskFrame(k, L).key = k /\ TaskFrame(k, L).is_task = TRUE
BY DEF TaskFrame, Frame

\* The frame of a query that starts.
LEMMA NewQueryFrame ==
  ASSUME Typed, NEW k \in Keys
  PROVE  /\ QueryFrame(k) \in Frame
         /\ QueryFrame(k).key = k /\ QueryFrame(k).is_task = FALSE
BY DEF QueryFrame, Frame, Typed

\* The first frame of an idle worker.
LEMMA FirstShape ==
  ASSUME Base, NEW w \in Workers, pc[w] = "idle", NEW f \in Frame,
         stack' = [stack EXCEPT ![w] = <<f>>]
  PROVE  /\ stack' \in [Workers -> Seq(Frame)] /\ Elsewhere(w)
         /\ Depth(w) = 0 /\ Pushed(stack[w], stack'[w], f.key, f.is_task)
<1>1. stack \in [Workers -> Seq(Frame)] /\ Len(stack[w]) = 0
  BY DEF Base, Typed, Placed, Depth
<1>2. stack'[w] = <<f>> /\ <<f>> \in Seq(Frame) /\ Len(<<f>>) = 1 /\ <<f>>[1] = f
  BY <1>1
<1> QED
  BY <1>1, <1>2 DEF Elsewhere, Depth, Pushed

\* The steps that change a stack, by their shape.
LEMMA find_work_shape ==
  ASSUME Base, NEW w \in Workers, find_work(w)
  PROVE  /\ stack' \in [Workers -> Seq(Frame)] /\ Elsewhere(w) /\ Depth(w) = 0
         /\ \/ Pushed(stack[w], stack'[w], None, TRUE) /\ UNCHANGED task
            \/ \E k \in Keys : /\ Pushed(stack[w], stack'[w], k, TRUE)
                               /\ task[k].st = "pending"
                               /\ task' = [task EXCEPT ![k].st = "taken"]
<1>0. pc[w] = "idle"
  BY DEF find_work
<1>1. CASE \E r \in todo : /\ stack' = [stack EXCEPT ![w] = <<TaskFrame(None, {r})>>]
                           /\ UNCHANGED task
  <2>1. PICK r \in todo : /\ stack' = [stack EXCEPT ![w] = <<TaskFrame(None, {r})>>]
                          /\ UNCHANGED task
    BY <1>1
  <2>2. {r} \in SUBSET Keys
    BY ConstantsAssumption DEF Base, Typed
  <2> DEFINE f == TaskFrame(None, {r})
  <2>3. f \in Frame /\ f.key = None /\ f.is_task = TRUE
    BY <2>2, NewTaskFrame
  <2>4. stack' = [stack EXCEPT ![w] = <<f>>] /\ UNCHANGED task
    BY <2>1
  <2> HIDE DEF f
  <2> QED
    BY <1>0, <2>3, <2>4, FirstShape
<1>2. CASE \E k \in Keys : /\ task[k].st = "pending"
                           /\ task' = [task EXCEPT ![k].st = "taken"]
                           /\ stack' = [stack EXCEPT ![w] = <<TaskFrame(k, task[k].left)>>]
  <2>1. PICK k \in Keys : /\ task[k].st = "pending"
                          /\ task' = [task EXCEPT ![k].st = "taken"]
                          /\ stack' = [stack EXCEPT ![w] = <<TaskFrame(k, task[k].left)>>]
    BY <1>2
  <2>2. task[k].left \in SUBSET Keys
    BY DEF Base, Typed, TaskState
  <2> DEFINE f == TaskFrame(k, task[k].left)
  <2>3. f \in Frame /\ f.key = k /\ f.is_task = TRUE
    BY <2>2, NewTaskFrame
  <2>4. stack' = [stack EXCEPT ![w] = <<f>>]
    BY <2>1
  <2> HIDE DEF f
  <2>5. /\ stack' \in [Workers -> Seq(Frame)] /\ Elsewhere(w) /\ Depth(w) = 0
        /\ Pushed(stack[w], stack'[w], k, TRUE)
    BY <1>0, <2>3, <2>4, FirstShape
  <2> QED
    BY <2>1, <2>5
<1> QED
  BY <1>1, <1>2 DEF find_work

\* run_inline puts the task's frame on that of the query that forked it.
LEMMA run_inline_shape ==
  ASSUME Base, NEW w \in Workers, run_inline(w)
  PROVE  /\ stack' \in [Workers -> Seq(Frame)] /\ Elsewhere(w)
         /\ Pushed(stack[w], stack'[w], Top(w).key, TRUE)
         /\ Top(w).key \in Keys /\ ~Top(w).is_task
<1>1. pc[w] = "run" /\ ~Top(w).is_task
  BY DEF run_inline
<1>2. Top(w).key \in Keys
  BY <1>1, TopOf
<1>3. task[Top(w).key].left \in SUBSET Keys
  BY <1>2 DEF Base, Typed, TaskState
<1> DEFINE f == TaskFrame(Top(w).key, task[Top(w).key].left)
<1>4. f \in Frame /\ f.key = Top(w).key /\ f.is_task = TRUE
  BY <1>2, <1>3, NewTaskFrame
<1>5. stack' = [stack EXCEPT ![w] = <<f>> \o @]
  BY DEF run_inline
<1> HIDE DEF f
<1> QED
  BY <1>1, <1>2, <1>4, <1>5, PushShape

\* finish_task leaves the frame of the task.
LEMMA finish_task_shape ==
  ASSUME Base, NEW w \in Workers, finish_task(w)
  PROVE  /\ stack' \in [Workers -> Seq(Frame)] /\ Elsewhere(w)
         /\ Popped(stack[w], stack'[w])
         /\ (stack'[w] = <<>>) <=> (Len(stack'[w]) = 0)
<1>1. stack[w] \in Seq(Frame) /\ stack[w] # <<>> /\ stack \in [Workers -> Seq(Frame)]
  BY TopOf DEF finish_task, Base, Typed
<1>2. stack' = [stack EXCEPT ![w] = Tail(stack[w])]
  BY DEF finish_task
<1>3. stack'[w] = Tail(stack[w]) /\ Tail(stack[w]) \in Seq(Frame)
      /\ Popped(stack[w], Tail(stack[w]))
  BY <1>1, <1>2, PopFrame
<1>4. \A t \in Seq(Frame) : (t = <<>>) <=> (Len(t) = 0)
  OBVIOUS
<1>5. stack' \in [Workers -> Seq(Frame)] /\ Elsewhere(w)
  BY <1>1, <1>2, <1>3 DEF Elsewhere
<1> QED
  BY <1>3, <1>4, <1>5

\* start_job enters a frame of the query asked for.
LEMMA start_job_shape ==
  ASSUME Base, NEW w \in Workers, pc[w] = "try", start_job(w)
  PROVE  /\ stack' \in [Workers -> Seq(Frame)] /\ Elsewhere(w) /\ want[w] \in Keys
         /\ Pushed(stack[w], stack'[w], want[w], FALSE)
<1>1. want[w] \in Keys
  BY DEF Base, Placed, Asking
<1> QED
  BY <1>1, NewQueryFrame, PushShape DEF start_job, Base

\* set leaves the frame of the query that has ended, by a return or by unwinding.
LEMMA set_shape ==
  ASSUME Base, NEW w \in Workers, set(w)
  PROVE  /\ stack' \in [Workers -> Seq(Frame)] /\ Elsewhere(w)
         /\ Popped(stack[w], stack'[w]) /\ ~Top(w).is_task /\ Top(w).key \in Keys
<1>0. pc[w] = "signal"
  BY DEF set
<1>1. /\ stack[w] \in Seq(Frame) /\ stack[w] # <<>> /\ stack \in [Workers -> Seq(Frame)]
      /\ ~Top(w).is_task /\ Top(w).key \in Keys /\ Len(stack[w]) > 1
  BY <1>0, TopOf DEF Base, Typed, Placed, Ending, Depth
<1> DEFINE s == stack[w]
           t == <<[Tail(s)[1] EXCEPT !.bad = TRUE, !.left = {}]>> \o Tail(Tail(s))
<1>2. /\ Tail(s) \in Seq(Frame) /\ Popped(s, Tail(s))
      /\ t \in Seq(Frame) /\ Popped(s, t)
  BY <1>1, PopFrame, UnwindFrame
<1>3. stack' = [stack EXCEPT ![w] = IF active[Top(w).key] = "poisoned" THEN t ELSE Tail(s)]
  BY <1>1 DEF set
<1> HIDE DEF s, t
<1>4. stack'[w] \in {t, Tail(s)}
  BY <1>1, <1>3
<1> QED
  BY <1>1, <1>2, <1>3, <1>4 DEF s, Elsewhere

\* deadlock_check starts a handler or does nothing.
LEMMA DeadlockCheckType ==
  ASSUME Typed, NEW c, DeadlockCheck(c)
  PROVE  /\ handler' \in [spawned : Nat, pc : {"off", "unblock", "notify"},
                           waiter : Workers \cup {None}]
         /\ handler'.pc = handler.pc /\ handler'.waiter = handler.waiter
<1>1. handler \in [spawned : Nat, pc : {"off", "unblock", "notify"},
                    waiter : Workers \cup {None}]
  BY DEF Typed
<1> QED
  BY <1>1 DEF DeadlockCheck

\* set, but for the stack.
LEMMA SetKeeps ==
  ASSUME NEW w, set(w)
  PROVE  /\ pc[w] = "signal" /\ wlock[Top(w).key] = None
         /\ latch' = [latch EXCEPT ![Top(w).key] = IF @ = "open" THEN "complete" ELSE @]
         /\ waiters' = [waiters EXCEPT ![Top(w).key] = <<>>]
         /\ pc' = [Notified(ToSet(waiters[Top(w).key])) EXCEPT ![w] = "run"]
         /\ count' = [active  |-> count.active + Len(waiters[Top(w).key]),
                      blocked |-> count.blocked - Len(waiters[Top(w).key])]
         /\ UNCHANGED <<calls, mapVars, wlock, cycle, want, poolVars, handler>>
BY DEF set

\* A worker's step keeps the types.
LEMMA TypedStep ==
  ASSUME Base, NEW w \in Workers, Step(w) \/ panic(w) \/ \E left \in SUBSET Keys : fork(w, left)
  PROVE  Typed'
<1> USE DEF Base
<1>0. Typed /\ task \in [Keys -> TaskState]
  BY DEF Typed
<1>1. CASE find_work(w)
  <2>1. PICK S : pc' = [Woken(S) EXCEPT ![w] = "run"]
    BY <1>1 DEF find_work
  <2>2. pc' \in [Workers -> Locs]
    BY <2>1, WokenType DEF Locs
  <2>3. task' = task \/ \E k \in Keys : task' = [task EXCEPT ![k].st = "taken"]
    BY <1>1, find_work_shape
  <2>4. task' \in [Keys -> TaskState]
    BY <1>0, <2>3, TakenType
  <2>5. todo' \in SUBSET Roots
    BY <1>1 DEF find_work, Typed
  <2> QED
    BY <1>1, <2>2, <2>4, <2>5, find_work_shape DEF find_work, mapVars, latchVars, Typed
<1>2. CASE sleep(w)
  <2>1. pc' \in [Workers -> Locs]
    BY <1>2 DEF sleep, Goto, Typed, Locs
  <2> QED
    BY <1>2, <2>1, DeadlockCheckType DEF sleep, mapVars, latchVars, poolVars, Typed
<1>3. CASE run_inline(w)
  <2>1. task' \in [Keys -> TaskState]
    BY <1>3, TakenType DEF run_inline
  <2> QED
    BY <1>3, <2>1, run_inline_shape DEF run_inline, mapVars, latchVars, poolVars, Typed
<1>4. CASE wait_until(w)
  BY <1>4 DEF wait_until, Goto, Locs, mapVars, latchVars, poolVars, Typed
<1>5. CASE finish_task(w)
  <2>1. PICK S : pc' = [Woken(S) EXCEPT ![w] = IF stack'[w] = <<>> THEN "idle" ELSE "run"]
    BY <1>5 DEF finish_task
  <2>2. pc' \in [Workers -> Locs]
    BY <2>1, WokenType DEF Locs
  <2>3. task' \in [Keys -> TaskState]
    <3>1. \/ task' = task
          \/ task' = [task EXCEPT ![Top(w).key] = [st |-> "panicked", left |-> {}]]
          \/ task' = [task EXCEPT ![Top(w).key] = [st |-> "done", left |-> {}]]
      BY <1>5 DEF finish_task
    <3>2. /\ [st |-> "panicked", left |-> {}] \in TaskState
          /\ [st |-> "done", left |-> {}] \in TaskState
      BY DEF TaskState
    <3> QED
      BY <1>0, <3>1, <3>2
  <2> QED
    BY <1>5, <2>2, <2>3, finish_task_shape DEF finish_task, mapVars, latchVars, poolVars, Typed
<1>6. ASSUME NEW k \in Keys, ask(w, k) PROVE Typed'
  <2>1. stack[w] # <<>> /\ stack' = [stack EXCEPT ![w][1].left = @ \ {k}]
    BY <1>6, TopOf DEF ask
  <2>2. stack' \in [Workers -> Seq(Frame)]
    BY <2>1, LeftShape
  <2>3. pc' \in [Workers -> Locs] /\ want' \in [Workers -> Keys \cup {None}]
    <3>1. /\ pc' = pc \/ pc' = [pc EXCEPT ![w] = "try"]
          /\ want' = want \/ want' = [want EXCEPT ![w] = k]
      BY <1>6 DEF ask
    <3>2. pc \in [Workers -> Locs] /\ want \in [Workers -> Keys \cup {None}] /\ "try" \in Locs
      BY DEF Typed, Locs
    <3>3. pc' \in [Workers -> Locs]
      BY <3>1, <3>2
    <3>4. want' \in [Workers -> Keys \cup {None}]
      BY <3>1, <3>2
    <3> QED
      BY <3>3, <3>4
  <2>4. UNCHANGED <<calls, mapVars, latchVars, poolVars, handler>>
    BY <1>6 DEF ask
  <2> QED
    BY <2>2, <2>3, <2>4 DEF mapVars, latchVars, poolVars, Typed
<1>7. CASE try_execute_query(w)
  <2>0. pc[w] = "try" /\ want[w] \in Keys /\ stack[w] # <<>>
    BY <1>7, TopOf DEF try_execute_query, Placed, Asking
  <2>1. CASE hit_cache(w)
    BY <2>1 DEF hit_cache, Returns, Goto, Locs, mapVars, latchVars, poolVars, Typed
  <2>2. CASE start_job(w)
    <3>1. Current(w) \in Keys \cup {None}
      BY <2>0, TopOf, TopFrame
    <3> QED
      BY <2>0, <2>2, <3>1, start_job_shape
      DEF start_job, Returns, Goto, Locs, latchVars, poolVars, Typed
  <2>3. CASE get_latch(w)
    BY <2>0, <2>3 DEF get_latch, Goto, Locs, mapVars, poolVars, Typed
  <2>4. CASE raise_fatal(w)
    BY <2>0, <2>4, UnwoundShape
    DEF raise_fatal, Returns, Goto, Locs, mapVars, latchVars, poolVars, Typed
  <2> QED
    BY <1>7, <2>1, <2>2, <2>3, <2>4 DEF try_execute_query
<1>8. CASE wait_on(w)
  <2>1. want[w] \in Keys
    BY <1>8 DEF wait_on, Placed, Asking
  <2>2. waiters' \in [Keys -> Seq(Workers)]
    <3>1. waiters' = waiters \/ waiters' = [waiters EXCEPT ![want[w]] = Append(@, w)]
      BY <1>8 DEF wait_on
    <3>2. waiters \in [Keys -> Seq(Workers)]
      BY DEF Typed
    <3>3. Append(waiters[want[w]], w) \in Seq(Workers)
      BY <2>1, <3>2
    <3> QED
      BY <3>1, <3>2, <3>3
  <2>3. pc' \in [Workers -> Locs]
    <3>1. pc' = [pc EXCEPT ![w] = "waited"] \/ pc' = [pc EXCEPT ![w] = "mark_blocked"]
      BY <1>8 DEF wait_on, Goto
    <3> QED
      BY <3>1 DEF Locs, Typed
  <2>5. wlock' \in [Keys -> Workers \cup {None}]
    <3>1. wlock' = wlock \/ wlock' = [wlock EXCEPT ![want[w]] = w]
      BY <1>8 DEF wait_on
    <3> QED
      BY <3>1 DEF Typed
  <2>4. UNCHANGED <<calls, mapVars, latch, cycle, stack, want, poolVars, handler>>
    BY <1>8 DEF wait_on
  <2> QED
    BY <2>2, <2>3, <2>4, <2>5 DEF mapVars, poolVars, Typed
<1>9. CASE mark_blocked(w)
  <2>1. pc' \in [Workers -> Locs]
    BY <1>9 DEF mark_blocked, Goto, Typed, Locs
  <2> QED
    BY <1>9, <2>1, DeadlockCheckType DEF mark_blocked, mapVars, latchVars, poolVars, Typed
<1>10. CASE condvar_wait(w)
  BY <1>10 DEF condvar_wait, Goto, Locs, mapVars, poolVars, Typed
<1>11. CASE condvar_return(w)
  BY <1>11 DEF condvar_return, Goto, Locs, mapVars, latchVars, poolVars, Typed
<1>12. CASE wait_for_query(w)
  <2>1. stack[w] # <<>>
    BY <1>12, TopOf DEF wait_for_query, Goto
  <2>2. stack' = stack \/ stack' = Unwound(w)
    BY <1>12 DEF wait_for_query
  <2>3. stack' \in [Workers -> Seq(Frame)]
    BY <2>1, <2>2, UnwoundShape DEF Typed
  <2> QED
    BY <1>12, <2>3 DEF wait_for_query, Goto, Locs, mapVars, poolVars, Typed
<1>13. CASE complete(w)
  <2>1. Top(w).key \in Keys
    BY <1>13, TopOf DEF complete, Ends
  <2> QED
    BY <1>13, <2>1 DEF complete, Locs, latchVars, poolVars, Typed
<1>14. CASE drop_entry(w)
  BY <1>14 DEF drop_entry, Goto, Locs, latchVars, poolVars, Typed
<1>15. CASE poison(w)
  BY <1>15 DEF poison, Locs, latchVars, poolVars, Typed
<1>16. CASE set(w)
  <2>1. pc' = [Notified(ToSet(waiters[Top(w).key])) EXCEPT ![w] = "run"]
    BY <1>16 DEF set
  <2>2. pc' \in [Workers -> Locs]
    BY <2>1, NotifiedType DEF Locs
  <2>3. waiters' \in [Keys -> Seq(Workers)]
    <3>1. <<>> \in Seq(Workers) /\ waiters \in [Keys -> Seq(Workers)]
      BY DEF Typed
    <3>2. waiters' = [waiters EXCEPT ![Top(w).key] = <<>>]
      BY <1>16, SetKeeps
    <3> QED
      BY <3>1, <3>2
  <2>4. latch' \in [Keys -> {"none", "open", "complete"}]
    <3>1. latch \in [Keys -> {"none", "open", "complete"}]
      BY DEF Typed
    <3>2. latch' = [latch EXCEPT ![Top(w).key] = IF @ = "open" THEN "complete" ELSE @]
      BY <1>16, SetKeeps
    <3> QED
      BY <3>1, <3>2
  <2> QED
    BY <1>16, <2>2, <2>3, <2>4, set_shape, SetKeeps DEF mapVars, poolVars, Typed
<1>17. CASE panic(w)
  <2>1. stack[w] # <<>> /\ stack' = Unwound(w)
    BY <1>17, TopOf DEF panic
  <2>2. stack' \in [Workers -> Seq(Frame)]
    BY <2>1, UnwoundShape
  <2> QED
    BY <1>17, <2>2 DEF panic, mapVars, latchVars, poolVars, Typed
<1>18. ASSUME NEW left \in SUBSET Keys, fork(w, left) PROVE Typed'
  <2>1. stack[w] # <<>> /\ stack' = [stack EXCEPT ![w][1].left = @ \ left]
    BY <1>18, TopOf DEF fork
  <2>2. stack' \in [Workers -> Seq(Frame)]
    BY <2>1, LeftShape
  <2>3. PICK S : pc' = Woken(S)
    BY <1>18 DEF fork
  <2>4. pc' \in [Workers -> Locs]
    BY <2>3, WokenType
  <2>5. task' \in [Keys -> TaskState]
    <3>1. task' = [task EXCEPT ![Top(w).key] = [st |-> "pending", left |-> left]]
      BY <1>18 DEF fork
    <3>2. [st |-> "pending", left |-> left] \in TaskState
      BY DEF TaskState
    <3> QED
      BY <1>0, <3>1, <3>2
  <2> QED
    BY <1>18, <2>2, <2>4, <2>5 DEF fork, mapVars, latchVars, Typed
<1> QED
  BY <1>1, <1>2, <1>3, <1>4, <1>5, <1>6, <1>7, <1>8, <1>9, <1>10, <1>11, <1>12, <1>13,
     <1>14, <1>15, <1>16, <1>17, <1>18 DEF Step

\* The deadlock handler keeps the types.
LEMMA HandleTyped ==
  ASSUME Base, Handle
  PROVE  Typed'
<1> USE DEF Base
<1>1. ASSUME NEW k \in Keys, find_and_process_cycle(k) PROVE Typed'
  <2>1. PICK waitee \in Started, waiter \in Workers :
          /\ \E i \in DOMAIN waiters[waitee] : waiters' = [waiters EXCEPT ![waitee] = RemoveAt(@, i)]
          /\ cycle' = [cycle EXCEPT ![waiter] = CycleFrom(JobMap, k)]
          /\ handler' = [spawned |-> handler.spawned - 1, pc |-> "unblock", waiter |-> waiter]
    BY <1>1 DEF find_and_process_cycle
  <2>2. waiters' \in [Keys -> Seq(Workers)]
    <3>1. PICK i \in DOMAIN waiters[waitee] : waiters' = [waiters EXCEPT ![waitee] = RemoveAt(@, i)]
      BY <2>1
    <3>2. waiters \in [Keys -> Seq(Workers)] /\ waitee \in Keys
      BY DEF Typed, Started
    <3>3. RemoveAt(waiters[waitee], i) \in Seq(Workers)
      BY <3>1, <3>2, RemoveType
    <3> QED
      BY <3>1, <3>2, <3>3
  <2>3. cycle' \in [Workers -> {None} \cup SUBSET Keys]
    <3>1. CycleFrom(JobMap, k) \in SUBSET Keys /\ cycle \in [Workers -> {None} \cup SUBSET Keys]
      BY CycleType DEF Typed
    <3> QED
      BY <2>1, <3>1
  <2>4. handler' \in [spawned : Nat, pc : {"off", "unblock", "notify"}, waiter : Workers \cup {None}]
    <3>1. handler.spawned \in Nat /\ handler.spawned > 0
      BY <1>1 DEF find_and_process_cycle, Typed
    <3>2. handler.spawned - 1 \in Nat
      BY <3>1
    <3> QED
      BY <2>1, <3>2
  <2>5. UNCHANGED <<calls, mapVars, latch, wlock, stack, pc, want, poolVars>>
    BY <1>1 DEF find_and_process_cycle
  <2> QED
    BY <2>2, <2>3, <2>4, <2>5 DEF Typed, mapVars, poolVars
<1>2. CASE unblock_resumed
  <2>1. handler' \in [spawned : Nat, pc : {"off", "unblock", "notify"}, waiter : Workers \cup {None}]
    BY <1>2 DEF unblock_resumed, Typed
  <2> QED
    BY <1>2, <2>1 DEF unblock_resumed, Typed, mapVars, latchVars, poolVars
<1>3. CASE notify_resumed
  <2>1. handler' \in [spawned : Nat, pc : {"off", "unblock", "notify"}, waiter : Workers \cup {None}]
    BY <1>3 DEF notify_resumed, Typed
  <2>2. pc' \in [Workers -> Locs]
    BY <1>3, NotifiedType DEF notify_resumed
  <2> QED
    BY <1>3, <2>1, <2>2 DEF notify_resumed, Typed, mapVars, latchVars, poolVars
<1> QED
  BY <1>1, <1>2, <1>3 DEF Handle

-----------------------------------------------------------------------------
(* Frames. *)

Idle == {"idle", "idle_asleep"}

\* Below a query is the frame that asked for it, below a task run inline the
\* query that forked it.
Framed(w) ==
  \A i \in Frames(w) :
    /\ ~stack[w][i].is_task => parent[stack[w][i].key] = stack[w][i + 1].key
    /\ stack[w][i].is_task /\ stack[w][i].key # None => task[stack[w][i].key].st = "taken"
    /\ stack[w][i].is_task /\ i + 1 \in Frames(w) =>
         ~stack[w][i + 1].is_task /\ stack[w][i + 1].key = stack[w][i].key

Settled(k) == k \in cache \/ active[k] = "poisoned"

\* A query that is executed is started and has no value, until it ends.
Live(w) ==
  /\ \A i \in Frames(w) : ~stack[w][i].is_task =>
       /\ stack[w][i].key \in cache => i = 1 /\ pc[w] \in Ending
       /\ active[stack[w][i].key] # "started" => i = 1 /\ pc[w] = "signal"
  /\ pc[w] = "remove" => stack[w][1].key \in cache
  /\ pc[w] = "signal" => Settled(stack[w][1].key) /\ active[stack[w][1].key] # "started"
  /\ pc[w] = "join_asleep" => task[stack[w][1].key].st = "taken"

\* One frame per query, and one per task.
Alone ==
  \A v, w \in Workers : \A i \in Frames(v), j \in Frames(w) :
    /\ stack[v][i].is_task <=> stack[w][j].is_task
    /\ stack[v][i].key = stack[w][j].key
    /\ stack[v][i].key # None
    => v = w /\ i = j

\* A started query has its frame, a task that is not done its owner, which does
\* not end, and a task that was taken its frame.
Owned ==
  \A k \in Keys :
    /\ active[k] = "started" =>
         \E v \in Workers : \E i \in Frames(v) : ~stack[v][i].is_task /\ stack[v][i].key = k
    /\ task[k].st \in {"pending", "taken"} =>
         /\ active[k] = "started"
         /\ \A v \in Workers : pc[v] \in Ending => stack[v][1].key # k
    /\ task[k].st = "taken" =>
         \E v \in Workers : \E i \in Frames(v) : stack[v][i].is_task /\ stack[v][i].key = k

\* Parents are started before their children, so they form no circle.
Grounded ==
  \A J \in SUBSET Started : J # {} => \E j \in J : parent[j] \notin J

FrameInv ==
  /\ \A w \in Workers : Placed(w) /\ Framed(w) /\ Live(w)
  /\ Alone /\ Owned /\ Grounded

-----------------------------------------------------------------------------
\* A step that leaves the frames alone, but for what is left of them to do.
Moves(v) ==
  /\ \/ pc'[v] = pc[v]
     \/ pc[v] \in Idle /\ pc'[v] \in Idle
     \/ pc[v] \notin Idle \cup Ending /\ pc'[v] \in Locs \ (Idle \cup Ending)
  /\ pc'[v] \in Joining => ~stack[v][1].is_task
  /\ pc'[v] = "join_asleep" => task[stack[v][1].key].st = "taken"
  /\ pc'[v] \in Asking => want'[v] \in Keys

\* A task is new, of a running query that does not end.
Kept(k) ==
  \/ task'[k].st = task[k].st
  \/ /\ task[k].st = "none" /\ task'[k].st = "pending" /\ active[k] = "started"
     /\ \A v \in Workers : pc'[v] \in Ending => stack[v][1].key # k

Still ==
  /\ \A v \in Workers : Like(stack[v], stack'[v]) /\ Moves(v)
  /\ UNCHANGED mapVars
  /\ \A k \in Keys : Kept(k)

\* The key and the kind of a frame.
LEMMA FrameType ==
  ASSUME Typed, NEW w \in Workers, NEW i \in Frames(w)
  PROVE  stack[w][i].key \in Keys \cup {None} /\ stack[w][i].is_task \in BOOLEAN
<1>1. stack[w] \in Seq(Frame) /\ i \in 1 .. Len(stack[w])
  BY DEF Typed, Frames, Depth
<1>2. stack[w][i] \in Frame
  BY <1>1
<1> QED
  BY <1>2 DEF Frame

\* A step that leaves the frames alone keeps what is said of them.
LEMMA StillStep ==
  ASSUME Typed, Typed', FrameInv, Still
  PROVE  FrameInv'
<1>1. \A v \in Workers : Depth(v) \in Nat /\ Depth(v)' = Depth(v) /\ Frames(v)' = Frames(v)
  BY DEF Typed, Still, Like, Depth, Frames
<1>2. \A v \in Workers : \A i \in Frames(v) :
        stack'[v][i].key = stack[v][i].key /\ stack'[v][i].is_task = stack[v][i].is_task
  BY DEF Still, Like, Frames, Depth
<1>3. UNCHANGED <<cache, active, parent>> /\ \A k \in Keys : Kept(k)
  BY DEF Still, mapVars
<1>4. \A v \in Workers : Depth(v) # 0 => Depth(v) \in Frames(v) /\ 1 \in Frames(v)
  BY <1>1 DEF Frames
<1>5. \A v \in Workers : Moves(v)
  BY DEF Still
<1>6. ASSUME NEW v \in Workers PROVE Placed(v)'
  <2>1. Placed(v) /\ Moves(v)
    BY <1>5 DEF FrameInv
  <2> QED
    BY <1>1, <1>2, <1>4, <2>1 DEF Placed, Moves, Idle, Ending, Joining, Asking
<1>7. ASSUME NEW v \in Workers PROVE Framed(v)'
  <2>1. Framed(v) /\ Placed(v)
    BY DEF FrameInv
  <2>2. \A i \in Frames(v) : ~stack[v][i].is_task => i + 1 \in Frames(v)
    BY <1>1, <2>1 DEF Placed, Frames
  <2>3. \A i \in Frames(v) : stack[v][i].key \in Keys \cup {None}
    BY FrameType
  <2>4. \A k \in Keys : task[k].st = "taken" => task'[k].st = "taken"
    BY <1>3 DEF Kept
  <2> QED
    BY <1>1, <1>2, <1>3, <2>1, <2>2, <2>3, <2>4 DEF Framed
<1>8. ASSUME NEW v \in Workers PROVE Live(v)'
  <2>1. Live(v) /\ Moves(v) /\ Placed(v)
    BY <1>5 DEF FrameInv
  <2>2. pc'[v] \notin Idle => 1 \in Frames(v)
    BY <1>4, <2>1 DEF Moves, Placed, Idle
  <2>3. pc'[v] = "join_asleep" => task'[stack[v][1].key].st = "taken"
    <3>1. ASSUME pc'[v] = "join_asleep"
          PROVE  stack[v][1].key \in Keys /\ task[stack[v][1].key].st = "taken"
      BY <2>1, <2>2, <3>1 DEF Moves, Placed, Joining, Idle
    <3> QED
      BY <1>3, <3>1 DEF Kept
  <2> QED
    BY <1>1, <1>2, <1>3, <2>1, <2>2, <2>3 DEF Live, Moves, Ending, Idle, Settled
<1>9. Alone'
  BY <1>1, <1>2 DEF FrameInv, Alone
<1>10. Owned'
  <2>1. \A v \in Workers : pc'[v] \in Ending => pc[v] = pc'[v] /\ 1 \in Frames(v)
    BY <1>4, <1>5 DEF FrameInv, Moves, Placed, Idle, Ending
  <2>2. \A k \in Keys : task'[k].st = "taken" => task[k].st = "taken"
    BY <1>3 DEF Kept
  <2>3. ASSUME NEW k \in Keys, task'[k].st \in {"pending", "taken"}
        PROVE  active[k] = "started" /\ \A v \in Workers : pc'[v] \in Ending => stack'[v][1].key # k
    <3>1. CASE task'[k].st = task[k].st
      BY <1>2, <2>1, <2>3, <3>1 DEF FrameInv, Owned
    <3>2. CASE task'[k].st # task[k].st
      BY <1>2, <1>3, <2>1, <2>3, <3>2 DEF Kept
    <3> QED
      BY <3>1, <3>2
  <2> QED
    BY <1>1, <1>2, <1>3, <2>2, <2>3 DEF FrameInv, Owned
<1>11. Grounded'
  BY <1>3 DEF FrameInv, Grounded, Started
<1> QED
  BY <1>6, <1>7, <1>8, <1>9, <1>10, <1>11 DEF FrameInv

\* The running frame is the first one.
LEMMA HasTop ==
  ASSUME Base, NEW v \in Workers, pc[v] \notin Idle
  PROVE  1 \in Frames(v) /\ Top(v) = stack[v][1]
<1>1. Depth(v) \in Nat \ {0} /\ Top(v) = stack[v][1]
  BY TopOf DEF Idle
<1> QED
  BY <1>1 DEF Frames

\* A worker that stays where it is.
LEMMA Unmoved ==
  ASSUME FrameInv, NEW v \in Workers, pc'[v] = pc[v], want'[v] = want[v]
  PROVE  Moves(v)
BY DEF FrameInv, Placed, Live, Moves

\* A step of w alone that leaves the frames alone.
LEMMA StillOne ==
  ASSUME Base, FrameInv, NEW w \in Workers, NEW p \in Locs,
         pc' = [pc EXCEPT ![w] = p], Moves(w),
         \A v \in Workers \ {w} : want'[v] = want[v],
         stack' = stack \/ (Elsewhere(w) /\ Like(stack[w], stack'[w])),
         UNCHANGED <<mapVars, task>>
  PROVE  Still
<1>1. \A v \in Workers \ {w} : pc'[v] = pc[v]
  BY DEF Base, Typed
<1>2. \A v \in Workers : Moves(v)
  BY <1>1, Unmoved
<1>3. stack \in [Workers -> Seq(Frame)]
  BY DEF Base, Typed
<1>4. \A v \in Workers : stack'[v] = stack[v] \/ Like(stack[v], stack'[v])
  BY <1>3 DEF Elsewhere
<1>5. \A v \in Workers : Like(stack[v], stack'[v])
  BY <1>4 DEF Like
<1> QED
  BY <1>2, <1>5 DEF Still, Kept

\* The steps of that kind.
StillStepOf(w) ==
  \/ sleep(w) \/ wait_until(w) \/ panic(w) \/ \E k \in Keys : ask(w, k)
  \/ pc[w] = "try" /\ (hit_cache(w) \/ get_latch(w) \/ raise_fatal(w))
  \/ wait_on(w) \/ mark_blocked(w) \/ condvar_wait(w) \/ condvar_return(w)
  \/ wait_for_query(w)

\* The steps of a worker that change no frame, active map or task.
LEMMA StillSteps ==
  ASSUME Base, FrameInv, NEW w \in Workers, StillStepOf(w)
  PROVE  Still
<1>0. /\ Placed(w) /\ Live(w) /\ pc[w] \in Locs
      /\ \A p \in Locs : [pc EXCEPT ![w] = p][w] = p
      /\ \A k \in Keys \cup {None} : \A v \in Workers \ {w} : [want EXCEPT ![w] = k][v] = want[v]
      /\ \A k \in Keys \cup {None} : [want EXCEPT ![w] = k][w] = k
  BY DEF FrameInv, Base, Typed
<1>1. CASE sleep(w)
  <2>1. CASE pc[w] = "idle" /\ pc' = [pc EXCEPT ![w] = "idle_asleep"]
    <3>1. Moves(w)
      BY <1>0, <2>1 DEF Moves, Idle, Joining, Asking, Locs
    <3> QED
      BY <1>1, <2>1, <3>1, StillOne DEF sleep, poolVars, Locs
  <2>2. CASE /\ pc[w] = "joining" /\ pc' = [pc EXCEPT ![w] = "join_asleep"]
             /\ task[Top(w).key].st = "taken"
    <3>1. Top(w) = stack[w][1]
      BY <2>2, TopOf
    <3>2. Moves(w)
      BY <1>0, <2>2, <3>1 DEF Moves, Idle, Ending, Joining, Asking, Locs, Placed
    <3> QED
      BY <1>1, <2>2, <3>2, StillOne DEF sleep, poolVars, Locs
  <2> QED
    BY <1>1, <2>1, <2>2 DEF sleep, Goto
<1>2. CASE wait_until(w)
  <2>1. CASE pc[w] = "run" /\ pc' = [pc EXCEPT ![w] = "joining"] /\ ~Top(w).is_task
    <3>1. Top(w) = stack[w][1]
      BY <2>1, TopOf
    <3>2. Moves(w)
      BY <1>0, <2>1, <3>1 DEF Moves, Idle, Ending, Joining, Asking, Locs
    <3> QED
      BY <1>2, <2>1, <3>2, StillOne DEF wait_until, poolVars, Locs
  <2>2. CASE pc[w] = "joining" /\ pc' = [pc EXCEPT ![w] = "run"]
    <3>1. Moves(w)
      BY <1>0, <2>2 DEF Moves, Idle, Ending, Joining, Asking, Locs
    <3> QED
      BY <1>2, <2>2, <3>1, StillOne DEF wait_until, poolVars, Locs
  <2> QED
    BY <1>2, <2>1, <2>2 DEF wait_until, Goto
<1>3. CASE panic(w)
  <2>1. stack[w] # <<>> /\ stack' = Unwound(w) /\ pc' = pc /\ want' = want
    BY <1>3, TopOf DEF panic
  <2>2. pc' = [pc EXCEPT ![w] = pc[w]]
    BY <2>1 DEF Base, Typed
  <2> QED
    BY <1>0, <1>3, <2>1, <2>2, UnwoundShape, Unmoved, StillOne DEF panic, poolVars
<1>4. ASSUME NEW k \in Keys, ask(w, k) PROVE Still
  <2>1. stack[w] # <<>> /\ stack' = [stack EXCEPT ![w][1].left = @ \ {k}]
    BY <1>4, TopOf DEF ask
  <2>2. Elsewhere(w) /\ Like(stack[w], stack'[w]) /\ UNCHANGED <<mapVars, task>>
    BY <1>4, <2>1, LeftShape DEF ask, poolVars
  <2>3. CASE pc' = pc /\ want' = want
    <3>1. pc' = [pc EXCEPT ![w] = pc[w]]
      BY <2>3 DEF Base, Typed
    <3> QED
      BY <1>0, <2>2, <2>3, <3>1, Unmoved, StillOne
  <2>4. CASE pc' = [pc EXCEPT ![w] = "try"] /\ want' = [want EXCEPT ![w] = k]
    <3>1. Moves(w)
      BY <1>0, <1>4, <2>4 DEF ask, Moves, Idle, Ending, Joining, Asking, Locs
    <3>2. \A v \in Workers \ {w} : want'[v] = want[v]
      BY <1>0, <2>4
    <3>3. "try" \in Locs
      BY DEF Locs
    <3> QED
      BY <2>2, <2>4, <3>1, <3>2, <3>3, StillOne
  <2> QED
    BY <1>4, <2>3, <2>4 DEF ask
<1>5. ASSUME pc[w] \notin Idle \cup Ending, NEW p \in {"run"},
             pc' = [pc EXCEPT ![w] = p], want' = [want EXCEPT ![w] = None],
             stack' = stack \/ stack' = Unwound(w), UNCHANGED <<mapVars, task>>
      PROVE  Still
  <2>1. stack' = stack \/ (Elsewhere(w) /\ Like(stack[w], stack'[w]))
    BY <1>5, TopOf, UnwoundShape DEF Idle
  <2>2. Moves(w)
    BY <1>0, <1>5 DEF Moves, Idle, Ending, Joining, Asking, Locs
  <2>3. \A v \in Workers \ {w} : want'[v] = want[v]
    BY <1>0, <1>5
  <2>4. p \in Locs
    BY DEF Locs
  <2> QED
    BY <1>5, <2>1, <2>2, <2>3, <2>4, StillOne
<1>6. CASE pc[w] = "try" /\ (hit_cache(w) \/ raise_fatal(w))
  BY <1>5, <1>6 DEF hit_cache, raise_fatal, Returns, Goto, poolVars, Idle, Ending
<1>7. CASE wait_for_query(w)
  BY <1>5, <1>7 DEF wait_for_query, Goto, poolVars, Idle, Ending
<1>8. ASSUME pc[w] \in Asking, NEW p \in Asking, pc' = [pc EXCEPT ![w] = p],
             UNCHANGED <<want, stack, mapVars, task>>
      PROVE  Still
  <2>1. Moves(w)
    BY <1>0, <1>8 DEF Moves, Idle, Ending, Joining, Asking, Locs, Placed
  <2> QED
    BY <1>8, <2>1, StillOne DEF Asking, Locs
<1>9. CASE pc[w] = "try" /\ get_latch(w)
  BY <1>8, <1>9 DEF get_latch, Goto, poolVars, Asking
<1>10. CASE wait_on(w)
  BY <1>8, <1>10 DEF wait_on, Goto, poolVars, Asking
<1>11. CASE mark_blocked(w)
  BY <1>8, <1>11 DEF mark_blocked, Goto, poolVars, Asking
<1>12. CASE condvar_wait(w)
  BY <1>8, <1>12 DEF condvar_wait, Goto, poolVars, Asking
<1>13. CASE condvar_return(w)
  BY <1>8, <1>13 DEF condvar_return, Goto, poolVars, Asking
<1> QED
  BY <1>1, <1>2, <1>3, <1>4, <1>6, <1>7, <1>9, <1>10, <1>11, <1>12, <1>13 DEF StillStepOf

\* The deadlock handler leaves the frames alone.
LEMMA HandleStill ==
  ASSUME Base, FrameInv, Handle
  PROVE  Still
<1>1. stack' = stack /\ want' = want /\ UNCHANGED <<mapVars, task>>
  BY DEF Handle, find_and_process_cycle, unblock_resumed, notify_resumed, poolVars
<1>2. \A v \in Workers : pc'[v] = pc[v] \/ (pc[v] = "waiting" /\ pc'[v] = "notified")
  BY NotifiedType DEF Handle, find_and_process_cycle, unblock_resumed, notify_resumed
<1>3. \A v \in Workers : Moves(v)
  <2>1. ASSUME NEW v \in Workers, pc[v] = "waiting", pc'[v] = "notified" PROVE Moves(v)
    BY <1>1, <2>1 DEF FrameInv, Placed, Moves, Idle, Ending, Joining, Asking, Locs
  <2> QED
    BY <1>1, <1>2, <2>1, Unmoved
<1> QED
  BY <1>1, <1>3 DEF Still, Kept, Like

-----------------------------------------------------------------------------
(* Frames that come and go. *)

\* The frames after a push, and where they were before.
LEMMA PushFacts ==
  ASSUME Typed, Typed', NEW w \in Workers, NEW k, NEW b, Elsewhere(w),
         Pushed(stack[w], stack'[w], k, b)
  PROVE  /\ \A v \in Workers \ {w} : stack'[v] = stack[v] /\ Frames(v)' = Frames(v)
         /\ \A v \in Workers : Depth(v) \in Nat /\ Frames(v) = 1 .. Depth(v)
         /\ Depth(w)' = Depth(w) + 1 /\ Frames(w)' = 1 .. Depth(w) + 1
         /\ 1 \in Frames(w)' /\ stack'[w][1].key = k /\ stack'[w][1].is_task = b
         /\ \A i \in Frames(w) :
              /\ i + 1 \in Frames(w)'
              /\ stack'[w][i + 1].key = stack[w][i].key
              /\ stack'[w][i + 1].is_task = stack[w][i].is_task
         /\ \A i \in Frames(w)' \ {1} :
              /\ i - 1 \in Frames(w)
              /\ stack'[w][i].key = stack[w][i - 1].key
              /\ stack'[w][i].is_task = stack[w][i - 1].is_task
<1>1. stack \in [Workers -> Seq(Frame)] /\ stack' = [stack EXCEPT ![w] = stack'[w]]
  BY DEF Typed, Elsewhere
<1>2. \A v \in Workers \ {w} : stack'[v] = stack[v]
  BY <1>1
<1>3. \A v \in Workers : Depth(v) \in Nat /\ Frames(v) = 1 .. Depth(v)
  BY <1>1 DEF Depth, Frames
<1>4. Depth(w)' = Depth(w) + 1
  BY DEF Depth, Pushed
<1>5. Frames(w)' = 1 .. Depth(w) + 1 /\ \A v \in Workers \ {w} : Frames(v)' = Frames(v)
  BY <1>2, <1>4 DEF Frames, Depth
<1>6. \A i \in Frames(w) :
              /\ i + 1 \in Frames(w)'
              /\ stack'[w][i + 1].key = stack[w][i].key
              /\ stack'[w][i + 1].is_task = stack[w][i].is_task
  <2>1. \A i \in Frames(w) : i + 1 \in Frames(w)' /\ i \in 1 .. Len(stack[w])
    BY <1>3, <1>5 DEF Depth
  <2> QED
    BY <2>1 DEF Pushed
<1>7. ASSUME NEW i \in Frames(w)' \ {1}
      PROVE  /\ i - 1 \in Frames(w)
             /\ stack'[w][i].key = stack[w][i - 1].key
             /\ stack'[w][i].is_task = stack[w][i - 1].is_task
  <2>1. i - 1 \in Frames(w) /\ (i - 1) + 1 = i
    BY <1>3, <1>5
  <2> QED
    BY <1>6, <2>1
<1>8. 1 \in Frames(w)' /\ stack'[w][1].key = k /\ stack'[w][1].is_task = b
  BY <1>3, <1>5 DEF Pushed
<1> QED
  BY <1>2, <1>3, <1>4, <1>5, <1>6, <1>7, <1>8

\* The frames after a pop.
LEMMA PopFacts ==
  ASSUME Typed, Typed', NEW w \in Workers, Elsewhere(w), Popped(stack[w], stack'[w])
  PROVE  /\ \A v \in Workers \ {w} : stack'[v] = stack[v] /\ Frames(v)' = Frames(v)
         /\ \A v \in Workers : Depth(v) \in Nat /\ Frames(v) = 1 .. Depth(v)
         /\ Depth(w)' \in Nat /\ Depth(w) = Depth(w)' + 1 /\ Frames(w)' = 1 .. Depth(w) - 1
         /\ \A i \in Frames(w)' :
              /\ i + 1 \in Frames(w) /\ i + 1 # 1
              /\ stack'[w][i].key = stack[w][i + 1].key
              /\ stack'[w][i].is_task = stack[w][i + 1].is_task
         /\ \A i \in Frames(w) \ {1} :
              /\ i - 1 \in Frames(w)'
              /\ stack'[w][i - 1].key = stack[w][i].key
              /\ stack'[w][i - 1].is_task = stack[w][i].is_task
<1>1. /\ stack \in [Workers -> Seq(Frame)] /\ stack' = [stack EXCEPT ![w] = stack'[w]]
      /\ stack' \in [Workers -> Seq(Frame)]
  BY DEF Typed, Elsewhere
<1>2. \A v \in Workers \ {w} : stack'[v] = stack[v]
  BY <1>1
<1>3. \A v \in Workers : Depth(v) \in Nat /\ Frames(v) = 1 .. Depth(v)
  BY <1>1 DEF Depth, Frames
<1>4. Depth(w)' \in Nat /\ Depth(w) = Depth(w)' + 1
  BY <1>1 DEF Depth, Popped
<1>5. Frames(w)' = 1 .. Depth(w)' /\ \A v \in Workers \ {w} : Frames(v)' = Frames(v)
  BY <1>2 DEF Frames, Depth
<1>6. \A i \in Frames(w)' :
              /\ i + 1 \in Frames(w) /\ i + 1 # 1
              /\ stack'[w][i].key = stack[w][i + 1].key
              /\ stack'[w][i].is_task = stack[w][i + 1].is_task
  BY <1>3, <1>4, <1>5 DEF Popped, Depth
<1>7. ASSUME NEW i \in Frames(w) \ {1}
      PROVE  /\ i - 1 \in Frames(w)'
             /\ stack'[w][i - 1].key = stack[w][i].key
             /\ stack'[w][i - 1].is_task = stack[w][i].is_task
  <2>1. i - 1 \in Frames(w)' /\ (i - 1) + 1 = i
    BY <1>3, <1>4, <1>5
  <2> QED
    BY <1>6, <2>1
<1>8. Frames(w)' = 1 .. Depth(w) - 1
  BY <1>4, <1>5
<1> QED
  BY <1>2, <1>3, <1>4, <1>5, <1>6, <1>7, <1>8

\* A query is not the last frame of its stack.
LEMMA Below ==
  ASSUME Typed, NEW w \in Workers, Placed(w), NEW i \in Frames(w), ~stack[w][i].is_task
  PROVE  i + 1 \in Frames(w)
<1>1. Depth(w) \in Nat /\ i \in 1 .. Depth(w) /\ i # Depth(w)
  BY DEF Typed, Depth, Frames, Placed
<1> QED
  BY <1>1 DEF Frames

\* complete puts the value into the cache; drop_entry and poison end the
\* job's time in the active map.
LEMMA EndSteps ==
  ASSUME Base, Typed', FrameInv, NEW w \in Workers, complete(w) \/ drop_entry(w) \/ poison(w)
  PROVE  FrameInv'
<1> DEFINE k == stack[w][1].key
<1>1. /\ stack' = stack /\ task' = task /\ parent' = parent /\ want' = want
      /\ pc[w] \in {"run", "remove"} /\ \A v \in Workers \ {w} : pc'[v] = pc[v]
  BY DEF complete, drop_entry, poison, Ends, Goto, poolVars, Base, Typed
<1>2. /\ Top(w) = stack[w][1] /\ k \in Keys /\ ~stack[w][1].is_task
      /\ 1 \in Frames(w) /\ Depth(w) \in Nat \ {0}
  <2>1. Top(w) = stack[w][1] /\ Depth(w) \in Nat \ {0}
    BY <1>1, TopOf
  <2>2. ~Top(w).is_task
    BY <2>1 DEF complete, drop_entry, poison, Ends, Goto, Base, Placed, Ending
  <2> QED
    BY <1>1, <2>1, <2>2, TopOf DEF Frames
<1>3. /\ \/ /\ pc[w] = "run" /\ cache' = cache \cup {k} /\ active' = active
            /\ pc'[w] = "remove"
         \/ /\ pc[w] = "remove" /\ cache' = cache
            /\ active' = [active EXCEPT ![k] = "vacant"] /\ pc'[w] = "signal"
         \/ /\ pc[w] = "run" /\ cache' = cache
            /\ active' = [active EXCEPT ![k] = "poisoned"] /\ pc'[w] = "signal"
      /\ pc[w] = "run" => task[k].st \notin {"pending", "taken"}
  BY <1>2 DEF complete, drop_entry, poison, Ends, Goto, Base, Typed
<1>4. \A v \in Workers : Placed(v) /\ Framed(v) /\ Live(v)
  BY DEF FrameInv
<1>5. task[k].st \notin {"pending", "taken"}
  BY <1>2, <1>3 DEF FrameInv, Owned, Ending
<1>6. \A v \in Workers : \A i \in Frames(v) :
        ~stack[v][i].is_task /\ stack[v][i].key = k => v = w /\ i = 1
  BY <1>2, ConstantsAssumption DEF FrameInv, Alone
<1>7. \A v \in Workers : Frames(v)' = Frames(v) /\ Depth(v)' = Depth(v)
  BY <1>1 DEF Frames, Depth
<1>8. \A j \in Keys \ {k} : active'[j] = active[j] /\ (j \in cache' <=> j \in cache)
  BY <1>3 DEF Base, Typed
<1>9. active[k] = "started"
  BY <1>2, <1>3, <1>4 DEF Live
<1> HIDE DEF k
<1>10. ASSUME NEW v \in Workers PROVE Placed(v)'
  BY <1>1, <1>2, <1>3, <1>4, <1>7 DEF Placed, Ending, Joining, Asking
<1>11. ASSUME NEW v \in Workers PROVE Framed(v)'
  BY <1>1, <1>4, <1>7 DEF Framed
<1>12. ASSUME NEW v \in Workers PROVE Live(v)'
  <2>1. CASE v # w
    <3>1. \A i \in Frames(v) : ~stack[v][i].is_task => stack[v][i].key \in Keys \ {k}
      BY <1>4, <1>6, <2>1 DEF Placed
    <3>2. pc[v] \in Ending \cup {"join_asleep"} => 1 \in Frames(v) /\ ~stack[v][1].is_task
      BY <1>4, HasTop DEF Placed, Ending, Joining, Idle
    <3> QED
      BY <1>1, <1>4, <1>7, <1>8, <2>1, <3>1, <3>2 DEF Live, Settled, Ending
  <2>2. CASE v = w
    <3>1. \A i \in Frames(w) : ~stack[w][i].is_task => stack[w][i].key \in Keys
      BY <1>4 DEF Placed
    <3>2. \A i \in Frames(w) : i # 1 /\ ~stack[w][i].is_task => stack[w][i].key \in Keys \ {k}
      BY <1>6, <3>1
    <3>3. \A i \in Frames(w) : i # 1 /\ ~stack[w][i].is_task =>
            stack[w][i].key \notin cache /\ active[stack[w][i].key] = "started"
      BY <1>4 DEF Live
    <3>4. k \in cache' \/ active'[k] = "poisoned"
      BY <1>2, <1>3, <1>4 DEF Base, Typed, Live, k
    <3>5. /\ pc'[w] \in Ending /\ (pc'[w] = "remove" => k \in cache' /\ active'[k] = "started")
          /\ pc'[w] = "signal" => active'[k] # "started"
      BY <1>2, <1>3, <1>9 DEF Ending, Base, Typed
    <3> QED
      BY <1>1, <1>7, <1>8, <2>2, <3>2, <3>3, <3>4, <3>5 DEF Live, Settled, Ending, k
  <2> QED
    BY <2>1, <2>2
<1>13. Alone'
  BY <1>1, <1>7 DEF FrameInv, Alone
<1>14. Owned'
  <2>1. \A j \in Keys : active'[j] = "started" => active[j] = "started"
    BY <1>3, <1>8, <1>9
  <2>2. \A j \in Keys : task[j].st \in {"pending", "taken"} =>
          /\ active'[j] = "started"
          /\ \A v \in Workers : pc'[v] \in Ending => stack[v][1].key # j
    BY <1>1, <1>5, <1>8 DEF FrameInv, Owned, k
  <2> QED
    BY <1>1, <1>7, <2>1, <2>2 DEF FrameInv, Owned
<1>15. Grounded'
  <2>1. Started' \subseteq Started
    BY <1>3, <1>8, <1>9 DEF Started
  <2> QED
    BY <1>1, <2>1 DEF FrameInv, Grounded
<1> QED
  BY <1>10, <1>11, <1>12, <1>13, <1>14, <1>15 DEF FrameInv

\* What the stacks alone say of Placed.
Based(w) ==
  /\ Depth(w) # 0 => stack[w][Depth(w)].is_task
  /\ \A i \in Frames(w) : ~stack[w][i].is_task => stack[w][i].key \in Keys

\* The running frame of w is left; the tasks of the frames that stay are still
\* running.
LEMMA PopKeeps ==
  ASSUME Base, Typed', FrameInv, NEW w \in Workers, Elsewhere(w),
         Popped(stack[w], stack'[w]), parent' = parent,
         \A v \in Workers : \A i \in Frames(v)' :
           stack'[v][i].is_task /\ stack'[v][i].key # None => task'[stack'[v][i].key].st = "taken"
  PROVE  Alone' /\ \A v \in Workers : Based(v)' /\ Framed(v)'
<1>1. Typed /\ \A v \in Workers : Placed(v) /\ Framed(v)
  BY DEF FrameInv, Base
<1>2. /\ \A v \in Workers \ {w} : stack'[v] = stack[v] /\ Frames(v)' = Frames(v)
      /\ \A v \in Workers : Depth(v) \in Nat /\ Frames(v) = 1 .. Depth(v)
      /\ Depth(w)' \in Nat /\ Depth(w) = Depth(w)' + 1 /\ Frames(w)' = 1 .. Depth(w) - 1
      /\ \A i \in Frames(w)' :
           /\ i + 1 \in Frames(w) /\ i + 1 # 1
           /\ stack'[w][i].key = stack[w][i + 1].key
           /\ stack'[w][i].is_task = stack[w][i + 1].is_task
  BY <1>1, PopFacts
<1>3. ASSUME NEW v \in Workers, v # w PROVE Based(v)' /\ Framed(v)'
  <2>1. stack'[v] = stack[v] /\ Frames(v)' = Frames(v) /\ Depth(v)' = Depth(v)
    BY <1>2, <1>3 DEF Depth
  <2>2. Based(v)'
    BY <1>1, <2>1 DEF Based, Placed
  <2>3. Framed(v)'
    BY <1>1, <2>1 DEF Framed
  <2> QED
    BY <2>2, <2>3
<1>4. Based(w)'
  <2>1. Depth(w)' # 0 => /\ Depth(w)' \in Frames(w)' /\ Depth(w)' + 1 = Depth(w)
                         /\ stack[w][Depth(w)].is_task
    BY <1>1, <1>2 DEF Placed
  <2>2. Depth(w)' # 0 => stack'[w][Depth(w)'].is_task
    BY <1>2, <2>1
  <2>3. \A i \in Frames(w)' : ~stack'[w][i].is_task => stack'[w][i].key \in Keys
    BY <1>1, <1>2 DEF Placed
  <2> QED
    BY <2>2, <2>3 DEF Based
<1>5. Framed(w)'
  <2>1. ASSUME NEW i \in Frames(w)'
        PROVE  /\ ~stack'[w][i].is_task => parent'[stack'[w][i].key] = stack'[w][i + 1].key
               /\ stack'[w][i].is_task /\ i + 1 \in Frames(w)' =>
                    ~stack'[w][i + 1].is_task /\ stack'[w][i + 1].key = stack'[w][i].key
    <3> DEFINE a == i + 1
    <3>1. /\ a \in Frames(w) /\ stack'[w][i].key = stack[w][a].key
          /\ stack'[w][i].is_task = stack[w][a].is_task
      BY <1>2
    <3>2. ~stack[w][a].is_task => a + 1 \in Frames(w)
      BY <1>1, <3>1, Below
    <3>3. a + 1 \in Frames(w) => a \in Frames(w)'
      BY <1>2, <3>1
    <3>4. a \in Frames(w)' => /\ a + 1 \in Frames(w) /\ stack'[w][a].key = stack[w][a + 1].key
                              /\ stack'[w][a].is_task = stack[w][a + 1].is_task
      BY <1>2
    <3>5. /\ ~stack[w][a].is_task => parent[stack[w][a].key] = stack[w][a + 1].key
          /\ stack[w][a].is_task /\ a + 1 \in Frames(w) =>
               ~stack[w][a + 1].is_task /\ stack[w][a + 1].key = stack[w][a].key
      BY <1>1, <3>1 DEF Framed
    <3> HIDE DEF a
    <3>6. /\ ~stack'[w][i].is_task => parent'[stack'[w][i].key] = stack'[w][a].key
          /\ stack'[w][i].is_task /\ a \in Frames(w)' =>
                    ~stack'[w][a].is_task /\ stack'[w][a].key = stack'[w][i].key
      BY <3>1, <3>2, <3>3, <3>4, <3>5
    <3> QED
      BY <3>6 DEF a
  <2> QED
    BY <2>1 DEF Framed
<1>6. Alone'
  <2>0. ASSUME NEW v \in Workers, NEW i \in Frames(v)'
        PROVE  \E a \in Frames(v) : /\ a = IF v = w THEN i + 1 ELSE i
                                    /\ stack'[v][i].key = stack[v][a].key
                                    /\ stack'[v][i].is_task = stack[v][a].is_task
    <3>1. CASE v = w
      BY <1>2, <3>1
    <3>2. CASE v # w
      BY <1>2, <3>2
    <3> QED
      BY <3>1, <3>2
  <2>1. ASSUME NEW v \in Workers, NEW u \in Workers, NEW i \in Frames(v)', NEW j \in Frames(u)',
               stack'[v][i].is_task <=> stack'[u][j].is_task,
               stack'[v][i].key = stack'[u][j].key, stack'[v][i].key # None
        PROVE  v = u /\ i = j
    <3>1. PICK a \in Frames(v) : /\ a = IF v = w THEN i + 1 ELSE i
                                 /\ stack'[v][i].key = stack[v][a].key
                                 /\ stack'[v][i].is_task = stack[v][a].is_task
      BY <2>0
    <3>2. PICK b \in Frames(u) : /\ b = IF u = w THEN j + 1 ELSE j
                                 /\ stack'[u][j].key = stack[u][b].key
                                 /\ stack'[u][j].is_task = stack[u][b].is_task
      BY <2>0
    <3>3. /\ stack[v][a].is_task <=> stack[u][b].is_task
          /\ stack[v][a].key = stack[u][b].key /\ stack[v][a].key # None
      BY <2>1, <3>1, <3>2
    <3>4. v = u /\ a = b
      BY <3>3 DEF FrameInv, Alone
    <3>5. i \in Int /\ j \in Int
      BY <1>2, <2>1
    <3> QED
      BY <3>1, <3>2, <3>4, <3>5
  <2> QED
    BY <2>1 DEF Alone
<1> QED
  BY <1>3, <1>4, <1>5, <1>6

\* All frames but the running one of w stay.
LEMMA PopStays ==
  ASSUME Typed, Typed', NEW w \in Workers, Elsewhere(w), Popped(stack[w], stack'[w]),
         NEW v \in Workers, NEW i \in Frames(v), v # w \/ i # 1
  PROVE  \E j \in Frames(v)' : /\ stack'[v][j].key = stack[v][i].key
                               /\ stack'[v][j].is_task = stack[v][i].is_task
<1>1. CASE v = w
  <2>1. /\ i - 1 \in Frames(w)' /\ stack'[w][i - 1].key = stack[w][i].key
        /\ stack'[w][i - 1].is_task = stack[w][i].is_task
    BY <1>1, PopFacts
  <2> QED
    BY <1>1, <2>1
<1>2. CASE v # w
  BY <1>2, PopFacts
<1> QED
  BY <1>1, <1>2

\* The job of a finished query is left: its frame goes.
LEMMA SetStep ==
  ASSUME Base, Typed', FrameInv, NEW w \in Workers, set(w)
  PROVE  FrameInv'
<1>1. /\ Elsewhere(w) /\ Popped(stack[w], stack'[w])
      /\ pc[w] = "signal" /\ UNCHANGED <<cache, active, parent, want, task>> /\ Typed
  BY set_shape, SetKeeps DEF poolVars, mapVars, Base
<1>2. /\ \A v \in Workers \ {w} : /\ stack'[v] = stack[v] /\ Frames(v)' = Frames(v)
                                  /\ Depth(v)' = Depth(v)
      /\ Depth(w)' \in Nat /\ Depth(w) = Depth(w)' + 1
      /\ \A i \in Frames(w)' :
           /\ i + 1 \in Frames(w) /\ i + 1 # 1
           /\ stack'[w][i].key = stack[w][i + 1].key
           /\ stack'[w][i].is_task = stack[w][i + 1].is_task
  BY <1>1, PopFacts DEF Depth
<1>3. /\ pc'[w] = "run"
      /\ \A v \in Workers \ {w} :
           pc'[v] = pc[v] \/ (pc[v] = "waiting" /\ pc'[v] = "notified")
  <2>1. pc' = [Notified(ToSet(waiters[Top(w).key])) EXCEPT ![w] = "run"]
    BY SetKeeps
  <2> QED
    BY <2>1, NotifiedType
<1>4. \A v \in Workers : Placed(v) /\ Framed(v) /\ Live(v)
  BY DEF FrameInv
<1>5. Depth(w) > 1 /\ ~stack[w][1].is_task
  BY <1>1, set_shape, TopOf
<1>6. ASSUME NEW v \in Workers, NEW i \in Frames(v)',
             stack'[v][i].is_task, stack'[v][i].key # None
      PROVE  task'[stack'[v][i].key].st = "taken"
  <2>1. CASE v = w
    BY <1>1, <1>2, <1>4, <1>6, <2>1 DEF Framed
  <2>2. CASE v # w
    BY <1>1, <1>2, <1>4, <1>6, <2>2 DEF Framed
  <2> QED
    BY <2>1, <2>2
<1>7. Alone' /\ \A v \in Workers : Based(v)' /\ Framed(v)'
  BY <1>1, <1>6, PopKeeps
<1>8. ASSUME NEW v \in Workers PROVE Placed(v)'
  <2>1. CASE v # w
    BY <1>1, <1>2, <1>3, <1>4, <2>1 DEF Placed, Ending, Joining, Asking
  <2>2. CASE v = w
    BY <1>2, <1>3, <1>5, <1>7, <2>2 DEF Placed, Based, Ending, Joining, Asking
  <2> QED
    BY <2>1, <2>2
<1>9. ASSUME NEW v \in Workers PROVE Live(v)'
  <2>1. CASE v # w
    BY <1>1, <1>2, <1>3, <1>4, <2>1 DEF Live, Settled, Ending
  <2>2. CASE v = w
    <3>1. \A i \in Frames(w)' : ~stack'[w][i].is_task =>
            stack'[w][i].key \notin cache' /\ active'[stack'[w][i].key] = "started"
      BY <1>1, <1>2, <1>4 DEF Live
    <3> QED
      BY <1>3, <2>2, <3>1 DEF Live
  <2> QED
    BY <2>1, <2>2
<1>11. Owned'
  <2>2. ASSUME NEW k \in Keys, active[k] = "started"
        PROVE  \E v \in Workers : \E i \in Frames(v)' : ~stack'[v][i].is_task /\ stack'[v][i].key = k
    <3>1. PICK v \in Workers : \E i \in Frames(v) : ~stack[v][i].is_task /\ stack[v][i].key = k
      BY <2>2 DEF FrameInv, Owned
    <3>2. PICK i \in Frames(v) : ~stack[v][i].is_task /\ stack[v][i].key = k
      BY <3>1
    <3>3. v # w \/ i # 1
      BY <1>1, <1>4, <2>2, <3>2 DEF Live
    <3> QED
      BY <1>1, <3>2, <3>3, PopStays
  <2>3. ASSUME NEW k \in Keys, task[k].st = "taken"
        PROVE  \E v \in Workers : \E i \in Frames(v)' : stack'[v][i].is_task /\ stack'[v][i].key = k
    <3>1. PICK v \in Workers : \E i \in Frames(v) : stack[v][i].is_task /\ stack[v][i].key = k
      BY <2>3 DEF FrameInv, Owned
    <3>2. PICK i \in Frames(v) : stack[v][i].is_task /\ stack[v][i].key = k
      BY <3>1
    <3>3. v # w \/ i # 1
      BY <1>5, <3>2
    <3> QED
      BY <1>1, <3>2, <3>3, PopStays
  <2>4. \A v \in Workers : pc'[v] \in Ending => pc[v] \in Ending /\ stack'[v] = stack[v]
    BY <1>2, <1>3 DEF Ending
  <2> QED
    BY <1>1, <2>2, <2>3, <2>4 DEF FrameInv, Owned
<1>12. Grounded'
  BY <1>1 DEF FrameInv, Grounded, Started
<1> QED
  BY <1>7, <1>8, <1>9, <1>11, <1>12 DEF FrameInv

\* A task ends: its frame goes, and its owner goes on.
LEMMA FinishStep ==
  ASSUME Base, Typed', FrameInv, NEW w \in Workers, finish_task(w)
  PROVE  FrameInv'
<1> DEFINE k == stack[w][1].key
<1>1. /\ Elsewhere(w) /\ Popped(stack[w], stack'[w])
      /\ pc[w] = "run" /\ UNCHANGED <<cache, active, parent, want>> /\ Typed
  BY finish_task_shape DEF finish_task, mapVars, Base
<1>2. /\ \A v \in Workers \ {w} : /\ stack'[v] = stack[v] /\ Frames(v)' = Frames(v)
                                  /\ Depth(v)' = Depth(v)
      /\ Depth(w)' \in Nat /\ Depth(w) = Depth(w)' + 1
      /\ \A i \in Frames(w)' :
           /\ i + 1 \in Frames(w) /\ i + 1 # 1
           /\ stack'[w][i].key = stack[w][i + 1].key
           /\ stack'[w][i].is_task = stack[w][i + 1].is_task
  BY <1>1, PopFacts DEF Depth
<1>3. Top(w) = stack[w][1] /\ stack[w][1].is_task /\ 1 \in Frames(w)
  BY <1>1, HasTop DEF finish_task, Idle
<1>4. \A v \in Workers : Placed(v) /\ Framed(v) /\ Live(v)
  BY DEF FrameInv
<1>5. /\ pc'[w] = IF Depth(w)' = 0 THEN "idle" ELSE "run"
      /\ \A v \in Workers \ {w} :
           \/ pc'[v] = pc[v] /\ (pc[v] = "join_asleep" => Current(v) # k)
           \/ pc[v] = "join_asleep" /\ pc'[v] = "joining"
  <2> DEFINE S == {v \in Workers : pc[v] = "join_asleep" /\ Current(v) = k}
  <2>1. pc' = [Woken(S) EXCEPT ![w] = IF stack'[w] = <<>> THEN "idle" ELSE "run"]
    BY <1>3 DEF finish_task
  <2>2. \A v \in S : Awake(pc[v]) = "joining"
    BY DEF Awake
  <2>3. (stack'[w] = <<>>) <=> (Depth(w)' = 0)
    BY finish_task_shape DEF Depth
  <2> QED
    BY <2>1, <2>2, <2>3, WokenType
<1>6. /\ k = None => task' = task
      /\ k # None => /\ task'[k].st \in {"done", "panicked"}
                     /\ \A j \in Keys \ {k} : task'[j] = task[j]
  <2>1. k \in Keys \cup {None} /\ task \in [Keys -> TaskState]
    BY <1>1, <1>3, TopOf DEF Typed
  <2>2. \/ k = None /\ task' = task
        \/ k # None /\ task' = [task EXCEPT ![k] = [st |-> "panicked", left |-> {}]]
        \/ k # None /\ task' = [task EXCEPT ![k] = [st |-> "done", left |-> {}]]
    BY <1>3 DEF finish_task
  <2> HIDE DEF k
  <2> QED
    BY <2>1, <2>2
<1>7. \A v \in Workers : \A i \in Frames(v) :
        stack[v][i].is_task /\ stack[v][i].key = k /\ k # None => v = w /\ i = 1
  BY <1>3 DEF FrameInv, Alone
<1>8. \A j \in Keys : j # k => task'[j] = task[j]
  BY <1>6
<1> HIDE DEF k
<1>9. ASSUME NEW v \in Workers, NEW i \in Frames(v)',
             stack'[v][i].is_task, stack'[v][i].key # None
      PROVE  task'[stack'[v][i].key].st = "taken"
  <2>1. PICK a \in Frames(v) :
          /\ v = w => a # 1
          /\ stack'[v][i].key = stack[v][a].key /\ stack'[v][i].is_task = stack[v][a].is_task
    <3>1. CASE v = w
      BY <1>2, <3>1
    <3>2. CASE v # w
      BY <1>2, <3>2
    <3> QED
      BY <3>1, <3>2
  <2>2. stack[v][a].key \in Keys
    BY <1>1, <1>9, <2>1, FrameType
  <2>3. stack[v][a].key # k
    BY <1>7, <1>9, <2>1
  <2>4. task[stack[v][a].key].st = "taken"
    BY <1>4, <1>9, <2>1 DEF Framed
  <2> QED
    BY <1>8, <2>1, <2>2, <2>3, <2>4
<1>10. Alone' /\ \A v \in Workers : Based(v)' /\ Framed(v)'
  BY <1>1, <1>9, PopKeeps
<1>11. ASSUME NEW v \in Workers PROVE Placed(v)'
  <2>1. CASE v # w
    BY <1>1, <1>2, <1>4, <1>5, <2>1 DEF Placed, Ending, Joining, Asking
  <2>2. CASE v = w
    BY <1>2, <1>5, <1>10, <2>2 DEF Placed, Based, Ending, Joining, Asking
  <2> QED
    BY <2>1, <2>2
<1>12. ASSUME NEW v \in Workers PROVE Live(v)'
  <2>1. CASE v # w
    <3>1. pc[v] = "join_asleep" => Current(v) = stack[v][1].key /\ Current(v) \in Keys
      BY TopOf, <1>4 DEF Placed, Joining, Base
    <3>2. pc'[v] = "join_asleep" => task'[stack[v][1].key].st = "taken"
      BY <1>4, <1>5, <1>8, <2>1, <3>1 DEF Live
    <3> QED
      BY <1>1, <1>2, <1>4, <1>5, <2>1, <3>2 DEF Live, Settled, Ending
  <2>2. CASE v = w
    <3>1. \A i \in Frames(w)' : ~stack'[w][i].is_task =>
            stack'[w][i].key \notin cache' /\ active'[stack'[w][i].key] = "started"
      BY <1>1, <1>2, <1>4 DEF Live
    <3> QED
      BY <1>5, <2>2, <3>1 DEF Live
  <2> QED
    BY <2>1, <2>2
<1>13. Owned'
  <2>2. ASSUME NEW j \in Keys, active[j] = "started"
        PROVE  \E v \in Workers : \E i \in Frames(v)' : ~stack'[v][i].is_task /\ stack'[v][i].key = j
    <3>1. PICK v \in Workers : \E i \in Frames(v) : ~stack[v][i].is_task /\ stack[v][i].key = j
      BY <2>2 DEF FrameInv, Owned
    <3>2. PICK i \in Frames(v) : ~stack[v][i].is_task /\ stack[v][i].key = j
      BY <3>1
    <3>3. v # w \/ i # 1
      BY <1>3, <3>2
    <3> QED
      BY <1>1, <3>2, <3>3, PopStays
  <2>3. ASSUME NEW j \in Keys, j # k, task[j].st = "taken"
        PROVE  \E v \in Workers : \E i \in Frames(v)' : stack'[v][i].is_task /\ stack'[v][i].key = j
    <3>1. PICK v \in Workers : \E i \in Frames(v) : stack[v][i].is_task /\ stack[v][i].key = j
      BY <2>3 DEF FrameInv, Owned
    <3>2. PICK i \in Frames(v) : stack[v][i].is_task /\ stack[v][i].key = j
      BY <3>1
    <3>3. v # w \/ i # 1
      BY <2>3, <3>2 DEF k
    <3> QED
      BY <1>1, <3>2, <3>3, PopStays
  <2>4. \A v \in Workers : pc'[v] \in Ending => pc[v] \in Ending /\ stack'[v] = stack[v]
    BY <1>2, <1>5 DEF Ending
  <2>5. ASSUME NEW j \in Keys, task'[j].st \in {"pending", "taken"}
        PROVE  j # k /\ task'[j] = task[j]
    <3>1. j = k => k # None /\ task'[k].st \in {"done", "panicked"}
      BY <1>6, ConstantsAssumption
    <3> QED
      BY <1>8, <2>5, <3>1
  <2> QED
    BY <1>1, <2>2, <2>3, <2>4, <2>5 DEF FrameInv, Owned
<1>14. Grounded'
  BY <1>1 DEF FrameInv, Grounded, Started
<1> QED
  BY <1>10, <1>11, <1>12, <1>13, <1>14 DEF FrameInv

-----------------------------------------------------------------------------
\* All frames stay below a new one.
LEMMA PushStays ==
  ASSUME Typed, Typed', NEW w \in Workers, NEW k, NEW b, Elsewhere(w),
         Pushed(stack[w], stack'[w], k, b), NEW v \in Workers, NEW i \in Frames(v)
  PROVE  \E j \in Frames(v)' : /\ stack'[v][j].key = stack[v][i].key
                               /\ stack'[v][j].is_task = stack[v][i].is_task
<1>1. CASE v = w
  <2>1. /\ i + 1 \in Frames(w)' /\ stack'[w][i + 1].key = stack[w][i].key
        /\ stack'[w][i + 1].is_task = stack[w][i].is_task
    BY <1>1, PushFacts
  <2> QED
    BY <1>1, <2>1
<1>2. CASE v # w
  <2>1. stack'[v] = stack[v] /\ Frames(v)' = Frames(v)
    BY <1>2, PushFacts
  <2> QED
    BY <1>2, <2>1
<1> QED
  BY <1>1, <1>2

\* Where a frame was before a push.
LEMMA PushWas ==
  ASSUME Typed, Typed', NEW w \in Workers, NEW k, NEW b, Elsewhere(w),
         Pushed(stack[w], stack'[w], k, b), NEW v \in Workers, NEW i \in Frames(v)',
         v # w \/ i # 1
  PROVE  \E a \in Frames(v) : /\ a = IF v = w THEN i - 1 ELSE i
                              /\ stack'[v][i].key = stack[v][a].key
                              /\ stack'[v][i].is_task = stack[v][a].is_task
<1>1. CASE v = w
  <2>1. /\ i - 1 \in Frames(w) /\ stack'[w][i].key = stack[w][i - 1].key
        /\ stack'[w][i].is_task = stack[w][i - 1].is_task
    BY <1>1, PushFacts
  <2> QED
    BY <1>1, <2>1
<1>2. CASE v # w
  <2>1. stack'[v] = stack[v] /\ Frames(v)' = Frames(v)
    BY <1>2, PushFacts
  <2> QED
    BY <1>2, <2>1
<1> QED
  BY <1>1, <1>2

\* A frame that fits on the stack of w: a query that no frame is for, asked
\* for by the running frame, or a task that no frame is for.
Fits(w, k, b) ==
  /\ ~b => k \in Keys /\ Depth(w) # 0 /\ parent'[k] = stack[w][1].key
  /\ b => Depth(w) = 0 \/ (~stack[w][1].is_task /\ stack[w][1].key = k)
  /\ b /\ k # None => task'[k].st = "taken"
  /\ \A v \in Workers : \A i \in Frames(v) :
       /\ stack[v][i].is_task /\ stack[v][i].key # None => task'[stack[v][i].key].st = "taken"
       /\ ~stack[v][i].is_task => parent'[stack[v][i].key] = parent[stack[v][i].key]
       /\ stack[v][i].key = k /\ k # None => ~(stack[v][i].is_task <=> b)

\* A new frame whose key has no frame of its kind, on the frame it belongs to, keeps
\* frames unique and in their order.
LEMMA PushKeeps ==
  ASSUME Base, Typed', FrameInv, NEW w \in Workers, NEW k, NEW b, Elsewhere(w),
         Pushed(stack[w], stack'[w], k, b), Fits(w, k, b)
  PROVE  Alone' /\ \A v \in Workers : Based(v)' /\ Framed(v)'
<1>1. Typed /\ \A v \in Workers : Placed(v) /\ Framed(v)
  BY DEF FrameInv, Base
<1>2. /\ \A v \in Workers \ {w} : stack'[v] = stack[v] /\ Frames(v)' = Frames(v)
      /\ \A v \in Workers : Depth(v) \in Nat /\ Frames(v) = 1 .. Depth(v)
      /\ Depth(w)' = Depth(w) + 1 /\ Frames(w)' = 1 .. Depth(w) + 1
      /\ 1 \in Frames(w)' /\ stack'[w][1].key = k /\ stack'[w][1].is_task = b
      /\ \A i \in Frames(w) :
           /\ i + 1 \in Frames(w)'
           /\ stack'[w][i + 1].key = stack[w][i].key
           /\ stack'[w][i + 1].is_task = stack[w][i].is_task
  <2>1. \A v \in Workers \ {w} : stack'[v] = stack[v] /\ Frames(v)' = Frames(v)
    BY <1>1, PushFacts
  <2>2. \A v \in Workers : Depth(v) \in Nat /\ Frames(v) = 1 .. Depth(v)
    BY <1>1, PushFacts
  <2>3. Depth(w)' = Depth(w) + 1 /\ Frames(w)' = 1 .. Depth(w) + 1
    BY <1>1, PushFacts
  <2>4. 1 \in Frames(w)' /\ stack'[w][1].key = k /\ stack'[w][1].is_task = b
    BY <2>2, <2>3 DEF Pushed
  <2>5. \A i \in Frames(w) :
           /\ i + 1 \in Frames(w)'
           /\ stack'[w][i + 1].key = stack[w][i].key
           /\ stack'[w][i + 1].is_task = stack[w][i].is_task
    BY <1>1, PushFacts
  <2> QED
    BY <2>1, <2>2, <2>3, <2>4, <2>5
<1>w. ASSUME NEW v \in Workers, NEW i \in Frames(v)', v # w \/ i # 1
      PROVE  \E a \in Frames(v) : /\ a = IF v = w THEN i - 1 ELSE i
                                  /\ stack'[v][i].key = stack[v][a].key
                                  /\ stack'[v][i].is_task = stack[v][a].is_task
  BY <1>1, <1>w, PushWas
<1>3. ASSUME NEW v \in Workers, v # w PROVE Based(v)' /\ Framed(v)'
  <2>1. stack'[v] = stack[v] /\ Frames(v)' = Frames(v) /\ Depth(v)' = Depth(v)
    BY <1>2, <1>3 DEF Depth
  <2>2. Based(v)'
    BY <1>1, <2>1 DEF Based, Placed
  <2>3. Framed(v)'
    BY <1>1, <2>1 DEF Framed, Fits
  <2> QED
    BY <2>2, <2>3
<1>4. Based(w)'
  <2>1. CASE Depth(w) = 0
    <3>1. b /\ Frames(w)' = {1} /\ Depth(w)' = 1
      BY <1>2, <2>1 DEF Fits
    <3> QED
      BY <1>2, <3>1 DEF Based
  <2>2. CASE Depth(w) # 0
    <3>1. Depth(w) \in Frames(w) /\ stack[w][Depth(w)].is_task
      BY <1>1, <1>2, <2>2 DEF Placed
    <3>2. stack'[w][Depth(w)'].is_task
      BY <1>2, <3>1
    <3>3. ASSUME NEW i \in Frames(w)', i # 1, ~stack'[w][i].is_task PROVE stack'[w][i].key \in Keys
      <4>1. PICK a \in Frames(w) : /\ stack'[w][i].key = stack[w][a].key
                                   /\ stack'[w][i].is_task = stack[w][a].is_task
        BY <1>w, <3>3
      <4> QED
        BY <1>1, <3>3, <4>1 DEF Placed
    <3> QED
      BY <1>2, <3>2, <3>3 DEF Based, Fits
  <2> QED
    BY <2>1, <2>2
<1>5. Framed(w)'
  <2>1. ASSUME NEW i \in Frames(w)'
        PROVE  /\ ~stack'[w][i].is_task => parent'[stack'[w][i].key] = stack'[w][i + 1].key
               /\ stack'[w][i].is_task /\ stack'[w][i].key # None
                    => task'[stack'[w][i].key].st = "taken"
               /\ stack'[w][i].is_task /\ i + 1 \in Frames(w)' =>
                    ~stack'[w][i + 1].is_task /\ stack'[w][i + 1].key = stack'[w][i].key
    <3>1. CASE i = 1
      <4>1. Depth(w) # 0 => /\ 1 \in Frames(w)
                            /\ stack'[w][2].key = stack[w][1].key
                            /\ stack'[w][2].is_task = stack[w][1].is_task
        <5>1. Depth(w) # 0 => 1 \in Frames(w) /\ 1 + 1 = 2
          BY <1>2
        <5> QED
          BY <1>2, <5>1
      <4>2. Depth(w) = 0 => 2 \notin Frames(w)'
        BY <1>2
      <4>3. i + 1 = 2
        BY <3>1
      <4> QED
        BY <1>2, <3>1, <4>1, <4>2, <4>3 DEF Fits
    <3>2. CASE i # 1
      <4>1. PICK a \in Frames(w) : /\ a = IF w = w THEN i - 1 ELSE i
                                   /\ stack'[w][i].key = stack[w][a].key
                                   /\ stack'[w][i].is_task = stack[w][a].is_task
        BY <1>w, <3>2
      <4>2. a + 1 = i /\ (i + 1 \in Frames(w)' => i \in Frames(w))
        BY <1>2, <4>1
      <4>3. ~stack[w][a].is_task => i \in Frames(w)
        BY <1>1, <4>1, <4>2, Below
      <4>4. i \in Frames(w) => /\ stack'[w][i + 1].key = stack[w][i].key
                               /\ stack'[w][i + 1].is_task = stack[w][i].is_task
        BY <1>2
      <4>5. /\ ~stack[w][a].is_task => parent[stack[w][a].key] = stack[w][i].key
            /\ stack[w][a].is_task /\ i \in Frames(w) =>
                 ~stack[w][i].is_task /\ stack[w][i].key = stack[w][a].key
        BY <1>1, <4>1, <4>2 DEF Framed
      <4> QED
        BY <4>1, <4>2, <4>3, <4>4, <4>5 DEF Fits
    <3> QED
      BY <3>1, <3>2
  <2> QED
    BY <2>1 DEF Framed
<1>6. Alone'
  <2>1. ASSUME NEW v \in Workers, NEW u \in Workers, NEW i \in Frames(v)', NEW j \in Frames(u)',
               stack'[v][i].is_task <=> stack'[u][j].is_task,
               stack'[v][i].key = stack'[u][j].key, stack'[v][i].key # None
        PROVE  v = u /\ i = j
    <3>0. i \in Int /\ j \in Int
      BY <1>2
    <3>1. CASE v = w /\ i = 1 /\ u = w /\ j = 1
      BY <3>1
    <3>2. CASE v = w /\ i = 1 /\ ~(u = w /\ j = 1)
      <4>1. PICK a \in Frames(u) : /\ stack'[u][j].key = stack[u][a].key
                                   /\ stack'[u][j].is_task = stack[u][a].is_task
        BY <1>w, <3>2
      <4>2. stack'[v][i].key = k /\ stack'[v][i].is_task = b
        BY <1>2, <3>2
      <4>3. stack[u][a].key = k /\ k # None /\ (stack[u][a].is_task <=> b)
        BY <2>1, <4>1, <4>2
      <4> QED
        BY <4>3 DEF Fits
    <3>3. CASE u = w /\ j = 1 /\ ~(v = w /\ i = 1)
      <4>1. PICK a \in Frames(v) : /\ stack'[v][i].key = stack[v][a].key
                                   /\ stack'[v][i].is_task = stack[v][a].is_task
        BY <1>w, <3>3
      <4>2. stack'[u][j].key = k /\ stack'[u][j].is_task = b
        BY <1>2, <3>3
      <4>3. stack[v][a].key = k /\ k # None /\ (stack[v][a].is_task <=> b)
        BY <2>1, <4>1, <4>2
      <4> QED
        BY <4>3 DEF Fits
    <3>4. CASE ~(v = w /\ i = 1) /\ ~(u = w /\ j = 1)
      <4>1. PICK a \in Frames(v) : /\ a = IF v = w THEN i - 1 ELSE i
                                   /\ stack'[v][i].key = stack[v][a].key
                                   /\ stack'[v][i].is_task = stack[v][a].is_task
        BY <1>w, <3>4
      <4>2. PICK c \in Frames(u) : /\ c = IF u = w THEN j - 1 ELSE j
                                   /\ stack'[u][j].key = stack[u][c].key
                                   /\ stack'[u][j].is_task = stack[u][c].is_task
        BY <1>w, <3>4
      <4>3. /\ stack[v][a].is_task <=> stack[u][c].is_task
            /\ stack[v][a].key = stack[u][c].key /\ stack[v][a].key # None
        BY <2>1, <4>1, <4>2
      <4>4. v = u /\ a = c
        BY <4>3 DEF FrameInv, Alone
      <4> QED
        BY <3>0, <4>1, <4>2, <4>4
    <3> QED
      BY <3>1, <3>2, <3>3, <3>4
  <2> QED
    BY <2>1 DEF Alone
<1> QED
  BY <1>3, <1>4, <1>5, <1>6

\* The queries of all frames but that of a query that has left the active map
\* are started.
LEMMA KeysStarted ==
  ASSUME Typed, FrameInv, NEW w \in Workers, NEW i \in Frames(w),
         stack[w][i].is_task \/ i # 1 \/ pc[w] # "signal"
  PROVE  stack[w][i].key \in Started \cup {None}
<1>1. Placed(w) /\ Framed(w) /\ Live(w) /\ stack[w][i].key \in Keys \cup {None}
  BY FrameType DEF FrameInv
<1>2. CASE stack[w][i].is_task
  BY <1>1, <1>2 DEF Framed, FrameInv, Owned, Started
<1>3. CASE ~stack[w][i].is_task
  BY <1>1, <1>3 DEF Live, Started
<1> QED
  BY <1>2, <1>3

\* So are the parents of started queries.
LEMMA ParentStarted ==
  ASSUME Typed, FrameInv, NEW k \in Started
  PROVE  parent[k] \in Started \cup {None}
<1>1. k \in Keys /\ active[k] = "started"
  BY DEF Started
<1>2. PICK v \in Workers : \E i \in Frames(v) : ~stack[v][i].is_task /\ stack[v][i].key = k
  BY <1>1 DEF FrameInv, Owned
<1>3. PICK i \in Frames(v) : ~stack[v][i].is_task /\ stack[v][i].key = k
  BY <1>2
<1>4. Placed(v) /\ Framed(v)
  BY DEF FrameInv
<1>5. i + 1 \in Frames(v)
  BY <1>3, <1>4, Below
<1>6. i + 1 # 1
  BY <1>3 DEF Frames
<1>7. parent[k] = stack[v][i + 1].key
  BY <1>3, <1>4 DEF Framed
<1> QED
  BY <1>5, <1>6, <1>7, KeysStarted

\* A query that is neither started nor settled has no frame.
LEMMA Fresh ==
  ASSUME Typed, FrameInv, NEW k \in Keys, k \notin cache, active[k] = "vacant",
         NEW v \in Workers, NEW i \in Frames(v)
  PROVE  stack[v][i].key # k
<1>1. SUFFICES ASSUME stack[v][i].key = k PROVE FALSE
  OBVIOUS
<1>2. k \notin Started /\ k # None
  BY ConstantsAssumption DEF Started
<1>3. i = 1 /\ pc[v] = "signal"
  BY <1>1, <1>2, KeysStarted
<1> QED
  BY <1>1, <1>3 DEF FrameInv, Live, Settled

\* A new job.
LEMMA StartStep ==
  ASSUME Base, Typed', FrameInv, NEW w \in Workers, pc[w] = "try", want[w] \notin cache,
         start_job(w)
  PROVE  FrameInv'
<1> DEFINE k == want[w]
<1>1. /\ Elsewhere(w) /\ k \in Keys /\ Pushed(stack[w], stack'[w], k, FALSE)
      /\ UNCHANGED <<cache, task>> /\ Typed /\ active[k] = "vacant" /\ k \notin cache
  BY start_job_shape DEF start_job, poolVars, Base
<1>2. /\ active' = [active EXCEPT ![k] = "started"]
      /\ parent' = [parent EXCEPT ![k] = Current(w)]
      /\ pc' = [pc EXCEPT ![w] = "run"] /\ want' = [want EXCEPT ![w] = None]
  BY DEF start_job, Returns, Goto
<1>3. /\ active'[k] = "started" /\ parent'[k] = Current(w)
      /\ \A j \in Keys \ {k} : active'[j] = active[j] /\ parent'[j] = parent[j]
  <2>1. /\ active \in [Keys -> {"vacant", "started", "poisoned"}]
        /\ parent \in [Keys -> Keys \cup {None}]
    BY <1>1 DEF Typed
  <2> QED
    BY <1>1, <1>2, <2>1
<1>4. /\ pc'[w] = "run"
      /\ \A v \in Workers \ {w} : pc'[v] = pc[v] /\ want'[v] = want[v]
  <2>1. pc \in [Workers -> Locs] /\ want \in [Workers -> Keys \cup {None}]
    BY <1>1 DEF Typed
  <2> QED
    BY <1>2, <2>1
<1>5. \A v \in Workers : Placed(v) /\ Framed(v) /\ Live(v)
  BY DEF FrameInv
<1>6. \A v \in Workers : \A i \in Frames(v) : stack[v][i].key # k
  BY <1>1, Fresh
<1>7. Current(w) = stack[w][1].key /\ Depth(w) # 0 /\ 1 \in Frames(w)
  BY TopOf, HasTop DEF Idle
<1>8. Current(w) # k
  BY <1>6, <1>7
<1> HIDE DEF k
<1>9. \A v \in Workers : \A i \in Frames(v) : ~stack[v][i].is_task => stack[v][i].key \in Keys \ {k}
  BY <1>5, <1>6 DEF Placed
<1>10. Fits(w, k, FALSE)
  BY <1>1, <1>3, <1>5, <1>6, <1>7, <1>9 DEF Fits, Framed
<1>11. Alone' /\ \A v \in Workers : Based(v)' /\ Framed(v)'
  BY <1>1, <1>10, PushKeeps
<1>12. /\ \A v \in Workers \ {w} : /\ stack'[v] = stack[v] /\ Frames(v)' = Frames(v)
                                   /\ Depth(v)' = Depth(v)
       /\ Depth(w)' # 0 /\ 1 \in Frames(w)'
       /\ stack'[w][1].key = k /\ ~stack'[w][1].is_task
  <2>1. /\ \A v \in Workers \ {w} : stack'[v] = stack[v] /\ Frames(v)' = Frames(v)
        /\ Depth(w) \in Nat /\ Depth(w)' = Depth(w) + 1 /\ 1 \in Frames(w)'
    BY <1>1, PushFacts
  <2>2. stack'[w][1].key = k /\ ~stack'[w][1].is_task
    BY <1>1 DEF Pushed
  <2> QED
    BY <2>1, <2>2 DEF Depth
<1>13. ASSUME NEW v \in Workers PROVE Placed(v)'
  <2>1. CASE v # w
    BY <1>4, <1>5, <1>12, <2>1 DEF Placed, Ending, Joining, Asking
  <2>2. CASE v = w
    BY <1>4, <1>11, <1>12, <2>2 DEF Placed, Based, Ending, Joining, Asking
  <2> QED
    BY <2>1, <2>2
<1>14. ASSUME NEW v \in Workers PROVE Live(v)'
  <2>1. CASE v # w
    <3>1. pc[v] \in Ending => 1 \in Frames(v) /\ ~stack[v][1].is_task
      BY <1>5, HasTop DEF Placed, Ending, Idle
    <3> QED
      BY <1>1, <1>3, <1>4, <1>5, <1>9, <1>12, <2>1, <3>1 DEF Live, Settled, Ending
  <2>2. CASE v = w
    <3>1. ASSUME NEW i \in Frames(w)', ~stack'[w][i].is_task
          PROVE  stack'[w][i].key \notin cache' /\ active'[stack'[w][i].key] = "started"
      <4>1. CASE i = 1
        BY <1>1, <1>3, <1>12, <4>1
      <4>2. CASE i # 1
        <5>1. PICK a \in Frames(w) : /\ stack'[w][i].key = stack[w][a].key
                                     /\ stack'[w][i].is_task = stack[w][a].is_task
          BY <1>1, <4>2, PushWas
        <5>2. stack[w][a].key \in Keys \ {k} /\ ~stack[w][a].is_task
          BY <1>9, <3>1, <5>1
        <5>3. stack[w][a].key \notin cache /\ active[stack[w][a].key] = "started"
          BY <1>5, <5>2 DEF Live, Ending
        <5> QED
          BY <1>1, <1>3, <5>1, <5>2, <5>3
      <4> QED
        BY <4>1, <4>2
    <3> QED
      BY <1>4, <2>2, <3>1 DEF Live
  <2> QED
    BY <2>1, <2>2
<1>15. Owned'
  <2>1. ASSUME NEW j \in Keys, active'[j] = "started"
        PROVE  \E v \in Workers : \E i \in Frames(v)' : ~stack'[v][i].is_task /\ stack'[v][i].key = j
    <3>1. CASE j = k
      BY <1>12, <3>1
    <3>2. CASE j # k
      <4>1. PICK v \in Workers : \E i \in Frames(v) : ~stack[v][i].is_task /\ stack[v][i].key = j
        BY <1>3, <2>1, <3>2 DEF FrameInv, Owned
      <4>2. PICK i \in Frames(v) : ~stack[v][i].is_task /\ stack[v][i].key = j
        BY <4>1
      <4>3. \E h \in Frames(v)' : /\ stack'[v][h].key = stack[v][i].key
                                  /\ stack'[v][h].is_task = stack[v][i].is_task
        BY <1>1, PushStays
      <4> QED
        BY <4>2, <4>3
    <3> QED
      BY <3>1, <3>2
  <2>2. ASSUME NEW j \in Keys, task[j].st = "taken"
        PROVE  \E v \in Workers : \E i \in Frames(v)' : stack'[v][i].is_task /\ stack'[v][i].key = j
    <3>1. PICK v \in Workers : \E i \in Frames(v) : stack[v][i].is_task /\ stack[v][i].key = j
      BY <2>2 DEF FrameInv, Owned
    <3>2. PICK i \in Frames(v) : stack[v][i].is_task /\ stack[v][i].key = j
      BY <3>1
    <3>3. \E h \in Frames(v)' : /\ stack'[v][h].key = stack[v][i].key
                                /\ stack'[v][h].is_task = stack[v][i].is_task
      BY <1>1, PushStays
    <3> QED
      BY <3>2, <3>3
  <2>3. ASSUME NEW j \in Keys, task[j].st \in {"pending", "taken"}
        PROVE  /\ active'[j] = "started"
               /\ \A v \in Workers : pc'[v] \in Ending => stack'[v][1].key # j
    <3>1. /\ active[j] = "started"
          /\ \A v \in Workers : pc[v] \in Ending => stack[v][1].key # j
      BY <2>3 DEF FrameInv, Owned
    <3>2. active'[j] = "started"
      BY <1>1, <1>3, <3>1
    <3> QED
      BY <1>4, <1>12, <3>1, <3>2 DEF Ending
  <2> QED
    BY <1>1, <2>1, <2>2, <2>3 DEF Owned
<1>16. Grounded'
  <2>1. SUFFICES ASSUME NEW J \in SUBSET Started', J # {} PROVE \E j \in J : parent'[j] \notin J
    BY DEF Grounded
  <2>2. \A j \in J : j # k => j \in Started
    BY <1>3 DEF Started
  <2>3. CASE J = {k}
    BY <1>3, <1>8, <2>3
  <2>4. CASE J # {k}
    <3>1. J \ {k} \in SUBSET Started /\ J \ {k} # {}
      BY <2>1, <2>2, <2>4
    <3>2. PICK j \in J \ {k} : parent[j] \notin J \ {k}
      BY <3>1 DEF FrameInv, Grounded
    <3>3. j \in Started
      BY <3>1, <3>2
    <3>4. parent[j] \in Started \cup {None} /\ j \in Keys
      BY <1>1, <3>3, ParentStarted DEF Started
    <3>5. parent[j] # k
      BY <1>1, <3>4, ConstantsAssumption DEF Started
    <3> QED
      BY <1>3, <3>2, <3>4, <3>5
  <2> QED
    BY <2>3, <2>4
<1> QED
  BY <1>11, <1>13, <1>14, <1>15, <1>16 DEF FrameInv

\* A task is taken, by an idle worker or by its owner.
Takes(w, k) ==
  /\ Elsewhere(w) /\ Pushed(stack[w], stack'[w], k, TRUE)
  /\ Depth(w) = 0 \/ (~stack[w][1].is_task /\ stack[w][1].key = k)
  /\ UNCHANGED <<cache, active, parent, want>>
  /\ \/ k = None /\ task' = task
     \/ /\ k \in Keys /\ task[k].st = "pending" /\ task'[k].st = "taken"
        /\ \A j \in Keys \ {k} : task'[j] = task[j]
  /\ pc[w] \in {"idle", "run"} /\ pc'[w] = "run"
  /\ \A v \in Workers \ {w} :
       \/ pc'[v] = pc[v]
       \/ pc[v] = "idle_asleep" /\ pc'[v] = "idle"
       \/ pc[v] = "join_asleep" /\ pc'[v] = "joining"

\* A task, of a query or a root task, gets its frame.
LEMMA TakeStep ==
  ASSUME Base, Typed', FrameInv, NEW w \in Workers, NEW k \in Keys \cup {None}, Takes(w, k)
  PROVE  FrameInv'
<1>1. /\ Elsewhere(w) /\ Pushed(stack[w], stack'[w], k, TRUE)
      /\ UNCHANGED <<cache, active, parent, want>> /\ Typed
      /\ pc[w] \in {"idle", "run"} /\ pc'[w] = "run"
  BY DEF Takes, Base
<1>2. \A v \in Workers \ {w} :
        \/ pc'[v] = pc[v]
        \/ pc[v] = "idle_asleep" /\ pc'[v] = "idle"
        \/ pc[v] = "join_asleep" /\ pc'[v] = "joining"
  BY DEF Takes
<1>3. /\ \A j \in Keys : j # k => task'[j] = task[j]
      /\ k # None => task[k].st = "pending" /\ task'[k].st = "taken"
  BY DEF Takes
<1>4. \A v \in Workers : Placed(v) /\ Framed(v) /\ Live(v)
  BY DEF FrameInv
<1>5. \A j \in Keys : task[j].st = "taken" => j # k /\ task'[j].st = "taken"
  BY <1>3, ConstantsAssumption
<1>6. \A v \in Workers : \A i \in Frames(v) :
        stack[v][i].is_task /\ stack[v][i].key # None =>
          stack[v][i].key # k /\ task'[stack[v][i].key].st = "taken"
  <2>1. ASSUME NEW v \in Workers, NEW i \in Frames(v), stack[v][i].is_task, stack[v][i].key # None
        PROVE  stack[v][i].key # k /\ task'[stack[v][i].key].st = "taken"
    <3>1. stack[v][i].key \in Keys /\ task[stack[v][i].key].st = "taken"
      BY <1>1, <1>4, <2>1, FrameType DEF Framed
    <3> QED
      BY <1>5, <3>1
  <2> QED
    BY <2>1
<1>7. Fits(w, k, TRUE)
  BY <1>1, <1>3, <1>6 DEF Fits, Takes
<1>8. Alone' /\ \A v \in Workers : Based(v)' /\ Framed(v)'
  BY <1>1, <1>7, PushKeeps
<1>9. /\ \A v \in Workers \ {w} : /\ stack'[v] = stack[v] /\ Frames(v)' = Frames(v)
                                  /\ Depth(v)' = Depth(v)
      /\ Depth(w)' # 0 /\ 1 \in Frames(w)'
      /\ stack'[w][1].key = k /\ stack'[w][1].is_task
  <2>1. /\ \A v \in Workers \ {w} : stack'[v] = stack[v] /\ Frames(v)' = Frames(v)
        /\ Depth(w) \in Nat /\ Depth(w)' = Depth(w) + 1 /\ 1 \in Frames(w)'
    BY <1>1, PushFacts
  <2>2. stack'[w][1].key = k /\ stack'[w][1].is_task
    BY <1>1 DEF Pushed
  <2> QED
    BY <2>1, <2>2 DEF Depth
<1>10. ASSUME NEW v \in Workers PROVE Placed(v)'
  <2>1. CASE v # w
    BY <1>1, <1>2, <1>4, <1>9, <2>1 DEF Placed, Ending, Joining, Asking
  <2>2. CASE v = w
    BY <1>1, <1>8, <1>9, <2>2 DEF Placed, Based, Ending, Joining, Asking
  <2> QED
    BY <2>1, <2>2
<1>11. ASSUME NEW v \in Workers PROVE Live(v)'
  <2>1. CASE v # w
    <3>1. pc[v] = "join_asleep" => stack[v][1].key \in Keys
      BY <1>4, HasTop DEF Placed, Joining, Idle
    <3>2. pc'[v] = "join_asleep" => task'[stack[v][1].key].st = "taken"
      BY <1>2, <1>4, <1>5, <2>1, <3>1 DEF Live
    <3> QED
      BY <1>1, <1>2, <1>4, <1>9, <2>1, <3>2 DEF Live, Settled, Ending
  <2>2. CASE v = w
    <3>1. ASSUME NEW i \in Frames(w)', ~stack'[w][i].is_task
          PROVE  stack'[w][i].key \notin cache' /\ active'[stack'[w][i].key] = "started"
      <4>1. i # 1
        BY <1>9, <3>1
      <4>2. PICK a \in Frames(w) : /\ stack'[w][i].key = stack[w][a].key
                                   /\ stack'[w][i].is_task = stack[w][a].is_task
        BY <1>1, <4>1, PushWas
      <4>3. stack[w][a].key \notin cache /\ active[stack[w][a].key] = "started"
        BY <1>1, <1>4, <3>1, <4>2 DEF Live, Ending
      <4> QED
        BY <1>1, <4>2, <4>3
    <3> QED
      BY <1>1, <2>2, <3>1 DEF Live
  <2> QED
    BY <2>1, <2>2
<1>12. Owned'
  <2>1. ASSUME NEW j \in Keys, active[j] = "started"
        PROVE  \E v \in Workers : \E i \in Frames(v)' : ~stack'[v][i].is_task /\ stack'[v][i].key = j
    <3>1. PICK v \in Workers : \E i \in Frames(v) : ~stack[v][i].is_task /\ stack[v][i].key = j
      BY <2>1 DEF FrameInv, Owned
    <3>2. PICK i \in Frames(v) : ~stack[v][i].is_task /\ stack[v][i].key = j
      BY <3>1
    <3>3. \E h \in Frames(v)' : /\ stack'[v][h].key = stack[v][i].key
                                /\ stack'[v][h].is_task = stack[v][i].is_task
      BY <1>1, PushStays
    <3> QED
      BY <3>2, <3>3
  <2>2. ASSUME NEW j \in Keys, task'[j].st = "taken"
        PROVE  \E v \in Workers : \E i \in Frames(v)' : stack'[v][i].is_task /\ stack'[v][i].key = j
    <3>1. CASE j = k
      BY <1>9, <3>1
    <3>2. CASE j # k
      <4>1. PICK v \in Workers : \E i \in Frames(v) : stack[v][i].is_task /\ stack[v][i].key = j
        BY <1>3, <2>2, <3>2 DEF FrameInv, Owned
      <4>2. PICK i \in Frames(v) : stack[v][i].is_task /\ stack[v][i].key = j
        BY <4>1
      <4>3. \E h \in Frames(v)' : /\ stack'[v][h].key = stack[v][i].key
                                  /\ stack'[v][h].is_task = stack[v][i].is_task
        BY <1>1, PushStays
      <4> QED
        BY <4>2, <4>3
    <3> QED
      BY <3>1, <3>2
  <2>3. ASSUME NEW j \in Keys, task'[j].st \in {"pending", "taken"}
        PROVE  /\ active[j] = "started"
               /\ \A v \in Workers : pc'[v] \in Ending => stack'[v][1].key # j
    <3>1. task[j].st \in {"pending", "taken"}
      BY <1>3, <2>3, ConstantsAssumption
    <3>2. /\ active[j] = "started"
          /\ \A v \in Workers : pc[v] \in Ending => stack[v][1].key # j
      BY <3>1 DEF FrameInv, Owned
    <3>3. \A v \in Workers : pc'[v] \in Ending => pc[v] \in Ending /\ stack'[v] = stack[v]
      BY <1>1, <1>2, <1>9 DEF Ending
    <3> QED
      BY <3>2, <3>3
  <2> QED
    BY <1>1, <2>1, <2>2, <2>3 DEF Owned
<1>13. Grounded'
  BY <1>1 DEF FrameInv, Grounded, Started
<1> QED
  BY <1>8, <1>10, <1>11, <1>12, <1>13 DEF FrameInv

\* Woken sleepers.
LEMMA WokenMoves ==
  ASSUME Base, NEW S, S \subseteq {v \in Workers : Asleep(v)}, NEW v \in Workers
  PROVE  \/ Woken(S)[v] = pc[v]
         \/ pc[v] = "idle_asleep" /\ Woken(S)[v] = "idle"
         \/ pc[v] = "join_asleep" /\ Woken(S)[v] = "joining"
BY DEF Woken, Awake, Asleep

\* find_work takes a root task or a pending one.
LEMMA find_work_takes ==
  ASSUME Base, FrameInv, NEW w \in Workers, find_work(w)
  PROVE  \E k \in Keys \cup {None} : Takes(w, k)
<1>1. PICK S : /\ S \subseteq {v \in Workers : Asleep(v)}
               /\ pc' = [Woken(S) EXCEPT ![w] = "run"]
  BY DEF find_work
<1>2. /\ pc[w] \in {"idle", "run"} /\ pc'[w] = "run"
      /\ \A v \in Workers \ {w} :
           \/ pc'[v] = pc[v]
           \/ pc[v] = "idle_asleep" /\ pc'[v] = "idle"
           \/ pc[v] = "join_asleep" /\ pc'[v] = "joining"
  <2>1. pc[w] \in {"idle", "run"}
    BY DEF find_work
  <2>2. Woken(S) \in [Workers -> Locs]
    BY WokenType
  <2>3. pc'[w] = "run" /\ \A v \in Workers \ {w} : pc'[v] = Woken(S)[v]
    BY <1>1, <2>2
  <2> QED
    BY <1>1, <2>1, <2>3, WokenMoves
<1>3. UNCHANGED <<cache, active, parent, want>>
  BY DEF find_work, mapVars
<1>4. /\ Elsewhere(w) /\ Depth(w) = 0
      /\ \/ Pushed(stack[w], stack'[w], None, TRUE) /\ UNCHANGED task
         \/ \E k \in Keys : /\ Pushed(stack[w], stack'[w], k, TRUE)
                            /\ task[k].st = "pending"
                            /\ task' = [task EXCEPT ![k].st = "taken"]
  BY find_work_shape
<1>5. CASE Pushed(stack[w], stack'[w], None, TRUE) /\ UNCHANGED task
  BY <1>2, <1>3, <1>4, <1>5 DEF Takes
<1>6. ASSUME NEW k \in Keys, Pushed(stack[w], stack'[w], k, TRUE), task[k].st = "pending",
             task' = [task EXCEPT ![k].st = "taken"]
      PROVE  Takes(w, k)
  <2>1. task \in [Keys -> TaskState]
    BY DEF Base, Typed
  <2>2. task'[k].st = "taken" /\ \A j \in Keys \ {k} : task'[j] = task[j]
    BY <1>6, <2>1 DEF TaskState
  <2> QED
    BY <1>2, <1>3, <1>4, <1>6, <2>2 DEF Takes
<1> QED
  BY <1>4, <1>5, <1>6

\* run_inline takes the pending task of the running query.
LEMMA run_inline_takes ==
  ASSUME Base, FrameInv, NEW w \in Workers, run_inline(w)
  PROVE  Top(w).key \in Keys /\ Takes(w, Top(w).key)
<1> DEFINE k == Top(w).key
<1>1. /\ Elsewhere(w) /\ Pushed(stack[w], stack'[w], k, TRUE)
      /\ k \in Keys /\ ~Top(w).is_task
  BY run_inline_shape
<1>2. pc[w] = "run" /\ pc' = pc /\ UNCHANGED <<cache, active, parent, want>>
  BY DEF run_inline, mapVars
<1>3. ~stack[w][1].is_task /\ stack[w][1].key = k
  BY <1>1, <1>2, TopOf
<1>4. task[k].st = "pending" /\ task' = [task EXCEPT ![k].st = "taken"]
  BY DEF run_inline
<1>5. task \in [Keys -> TaskState]
  BY DEF Base, Typed
<1> HIDE DEF k
<1>6. task'[k].st = "taken" /\ \A j \in Keys \ {k} : task'[j] = task[j]
  BY <1>1, <1>4, <1>5 DEF TaskState
<1>7. Takes(w, k)
  BY <1>1, <1>2, <1>3, <1>4, <1>6 DEF Takes
<1> QED
  BY <1>1, <1>7 DEF k

\* A provider forks a task.
LEMMA ForkStill ==
  ASSUME Base, FrameInv, NEW w \in Workers, NEW left \in SUBSET Keys, fork(w, left)
  PROVE  Still
<1> DEFINE k == stack[w][1].key
<1>1. /\ pc[w] = "run" /\ Top(w) = stack[w][1] /\ ~stack[w][1].is_task /\ 1 \in Frames(w)
      /\ stack[w] # <<>> /\ k \in Keys
  BY TopOf, HasTop DEF fork, Idle
<1>2. /\ task[k].st = "none" /\ task' = [task EXCEPT ![k] = [st |-> "pending", left |-> left]]
      /\ stack' = [stack EXCEPT ![w][1].left = @ \ left]
      /\ UNCHANGED <<mapVars, want>>
  BY <1>1 DEF fork
<1>3. PICK S : S \subseteq {v \in Workers : Asleep(v)} /\ pc' = Woken(S)
  BY DEF fork
<1>4. \A v \in Workers : Placed(v) /\ Framed(v) /\ Live(v)
  BY DEF FrameInv
<1>5. active[k] = "started"
  BY <1>1, <1>4 DEF Live
<1>6. ASSUME NEW v \in Workers, pc[v] \in Ending PROVE stack[v][1].key # k
  <2>1. 1 \in Frames(v) /\ ~stack[v][1].is_task
    BY <1>4, <1>6, HasTop DEF Placed, Ending, Idle
  <2> QED
    BY <1>1, <1>6, <2>1, ConstantsAssumption DEF FrameInv, Alone, Ending
<1>7. \A v \in Workers : Like(stack[v], stack'[v])
  <2>1. Elsewhere(w) /\ Like(stack[w], stack'[w])
    BY <1>1, <1>2, LeftShape
  <2>2. \A v \in Workers \ {w} : stack'[v] = stack[v]
    BY <2>1 DEF Elsewhere, Base, Typed
  <2> QED
    BY <2>1, <2>2 DEF Like
<1>8. \A v \in Workers :
        \/ pc'[v] = pc[v]
        \/ pc[v] = "idle_asleep" /\ pc'[v] = "idle"
        \/ pc[v] = "join_asleep" /\ pc'[v] = "joining"
  BY <1>3, WokenMoves
<1>9. \A v \in Workers : Moves(v)
  BY <1>2, <1>4, <1>8 DEF Moves, Placed, Live, Idle, Ending, Joining, Asking, Locs
<1>10. \A j \in Keys : Kept(j)
  <2>1. task \in [Keys -> TaskState]
    BY DEF Base, Typed
  <2>2. task'[k].st = "pending" /\ \A j \in Keys \ {k} : task'[j] = task[j]
    BY <1>1, <1>2, <2>1
  <2>3. \A v \in Workers : pc'[v] \in Ending => stack[v][1].key # k
    BY <1>6, <1>8 DEF Ending
  <2> HIDE DEF k
  <2> QED
    BY <1>2, <1>5, <2>2, <2>3 DEF Kept
<1> QED
  BY <1>2, <1>7, <1>9, <1>10 DEF Still

\* The frames are in order after every step.
LEMMA FrameNext ==
  ASSUME Typed, Typed', FrameInv, Next
  PROVE  FrameInv'
<1>0. Base
  BY DEF Base, FrameInv
<1>1. CASE Handle
  BY <1>0, <1>1, HandleStill, StillStep
<1>2. ASSUME NEW w \in Workers, NEW left \in SUBSET Keys, fork(w, left) PROVE FrameInv'
  BY <1>0, <1>2, ForkStill, StillStep
<1>3. ASSUME NEW w \in Workers, StillStepOf(w) PROVE FrameInv'
  BY <1>0, <1>3, StillSteps, StillStep
<1>4. ASSUME NEW w \in Workers, find_work(w) \/ run_inline(w) PROVE FrameInv'
  BY <1>0, <1>4, find_work_takes, run_inline_takes, TakeStep
<1>5. ASSUME NEW w \in Workers, pc[w] = "try", want[w] \notin cache, start_job(w) PROVE FrameInv'
  BY <1>0, <1>5, StartStep
<1>6. ASSUME NEW w \in Workers, finish_task(w) PROVE FrameInv'
  BY <1>0, <1>6, FinishStep
<1>7. ASSUME NEW w \in Workers, complete(w) \/ drop_entry(w) \/ poison(w) PROVE FrameInv'
  BY <1>0, <1>7, EndSteps
<1>8. ASSUME NEW w \in Workers, set(w) PROVE FrameInv'
  BY <1>0, <1>8, SetStep
<1>9. ASSUME NEW w \in Workers, Step(w) \/ panic(w) PROVE FrameInv'
  <2>1. \/ StillStepOf(w) \/ find_work(w) \/ run_inline(w) \/ finish_task(w)
        \/ pc[w] = "try" /\ want[w] \notin cache /\ start_job(w)
        \/ complete(w) \/ drop_entry(w) \/ poison(w) \/ set(w)
    BY <1>9 DEF Step, try_execute_query, StillStepOf
  <2> QED
    BY <1>3, <1>4, <1>5, <1>6, <1>7, <1>8, <2>1
<1> QED
  BY <1>1, <1>2, <1>9 DEF Next

-----------------------------------------------------------------------------
(* Waiting. *)

\* The threads on the list of a latch.
Listed(k) == ToSet(waiters[k])

Injective(s) == \A i, j \in 1 .. Len(s) : s[i] = s[j] => i = j

\* The empty list of waiters.
LEMMA EmptyList == ToSet(<<>>) = {} /\ Injective(<<>>) /\ Len(<<>>) = 0
BY DEF ToSet, Injective

\* A waiter is listed.
LEMMA AppendList ==
  ASSUME NEW s \in Seq(Workers), NEW w \in Workers
  PROVE  /\ ToSet(Append(s, w)) = ToSet(s) \cup {w}
         /\ Injective(s) /\ w \notin ToSet(s) => Injective(Append(s, w))
<1> DEFINE t == Append(s, w)
<1>1. /\ Len(s) \in Nat /\ Len(t) = Len(s) + 1 /\ DOMAIN t = 1 .. Len(t) /\ DOMAIN s = 1 .. Len(s)
      /\ \A i \in 1 .. Len(s) : t[i] = s[i]
      /\ t[Len(s) + 1] = w
  OBVIOUS
<1> HIDE DEF t
<1>2. ToSet(t) = ToSet(s) \cup {w}
  <2>1. ASSUME NEW v \in ToSet(t) PROVE v \in ToSet(s) \cup {w}
    <3>1. PICK i \in 1 .. Len(t) : v = t[i]
      BY <1>1, <2>1 DEF ToSet
    <3> QED
      BY <1>1, <3>1 DEF ToSet
  <2>2. ASSUME NEW v \in ToSet(s) PROVE v \in ToSet(t)
    <3>1. PICK i \in 1 .. Len(s) : v = s[i]
      BY <1>1, <2>2 DEF ToSet
    <3>2. i \in DOMAIN t /\ v = t[i]
      BY <1>1, <3>1
    <3> QED
      BY <3>2 DEF ToSet
  <2>3. w \in ToSet(t)
    BY <1>1 DEF ToSet
  <2> QED
    BY <2>1, <2>2, <2>3
<1>3. ASSUME Injective(s), w \notin ToSet(s) PROVE Injective(t)
  <2>1. \A i \in 1 .. Len(s) : s[i] # w
    BY <1>1, <1>3 DEF ToSet
  <2> QED
    BY <1>1, <1>3, <2>1 DEF Injective
<1> QED
  BY <1>2, <1>3 DEF t

\* A waiter is taken out of a list that names it once.
LEMMA RemoveList ==
  ASSUME NEW s \in Seq(Workers), NEW h \in DOMAIN s, Injective(s)
  PROVE  ToSet(RemoveAt(s, h)) = ToSet(s) \ {s[h]} /\ Injective(RemoveAt(s, h))
<1> DEFINE t == RemoveAt(s, h)
           a == SubSeq(s, 1, h - 1)
           b == SubSeq(s, h + 1, Len(s))
<1>1. Len(s) \in Nat /\ h \in 1 .. Len(s) /\ DOMAIN s = 1 .. Len(s)
  OBVIOUS
<1>2. /\ a \in Seq(Workers) /\ b \in Seq(Workers) /\ Len(a) = h - 1 /\ Len(b) = Len(s) - h
      /\ \A i \in 1 .. h - 1 : a[i] = s[i]
      /\ \A i \in 1 .. Len(s) - h : b[i] = s[i + h]
  BY <1>1
<1>3. t = a \o b
  BY DEF RemoveAt
<1> HIDE DEF a, b, t
<1>4. /\ t \in Seq(Workers) /\ Len(t) = Len(s) - 1 /\ DOMAIN t = 1 .. Len(t)
      /\ \A i \in 1 .. Len(t) : t[i] = IF i <= Len(a) THEN a[i] ELSE b[i - Len(a)]
  <2>1. /\ t \in Seq(Workers) /\ Len(t) = Len(a) + Len(b)
        /\ \A i \in 1 .. Len(a) + Len(b) : t[i] = IF i <= Len(a) THEN a[i] ELSE b[i - Len(a)]
    <3>1. a \in Seq(Workers) /\ b \in Seq(Workers) /\ Len(a) \in Nat /\ Len(b) \in Nat
      BY <1>2
    <3>2. t \in Seq(Workers) /\ Len(t) = Len(a) + Len(b)
      BY <1>3, <3>1
    <3>3. \A i \in 1 .. Len(a) + Len(b) : t[i] = IF i <= Len(a) THEN a[i] ELSE b[i - Len(a)]
      BY <1>3, <3>1
    <3> QED
      BY <3>2, <3>3
  <2>2. Len(t) = Len(s) - 1
    BY <1>1, <1>2, <2>1
  <2>3. DOMAIN t = 1 .. Len(t)
    BY <2>1
  <2> QED
    BY <2>1, <2>2, <2>3
<1>5. \A i \in 1 .. Len(t) : t[i] = IF i < h THEN s[i] ELSE s[i + 1]
  <2>1. ASSUME NEW i \in 1 .. Len(t), i < h PROVE t[i] = s[i]
    BY <1>1, <1>2, <1>4, <2>1
  <2>2. ASSUME NEW i \in 1 .. Len(t), ~(i < h) PROVE t[i] = s[i + 1]
    <3>1. ~(i <= Len(a)) /\ i - Len(a) \in 1 .. Len(s) - h /\ (i - Len(a)) + h = i + 1
      BY <1>1, <1>2, <1>4, <2>2
    <3> QED
      BY <1>2, <1>4, <3>1
  <2> QED
    BY <2>1, <2>2
<1>6. ToSet(t) = ToSet(s) \ {s[h]}
  <2>1. ASSUME NEW v \in ToSet(t) PROVE v \in ToSet(s) \ {s[h]}
    <3>1. PICK i \in 1 .. Len(t) : v = t[i]
      BY <1>4, <2>1 DEF ToSet
    <3>2. PICK j \in 1 .. Len(s) : v = s[j] /\ j # h
      BY <1>1, <1>4, <1>5, <3>1
    <3> QED
      BY <1>1, <3>2 DEF ToSet, Injective
  <2>2. ASSUME NEW v \in ToSet(s), v # s[h] PROVE v \in ToSet(t)
    <3>1. PICK j \in 1 .. Len(s) : v = s[j]
      BY <1>1, <2>2 DEF ToSet
    <3>2. CASE j < h
      <4>1. j \in 1 .. Len(t) /\ t[j] = v
        BY <1>1, <1>4, <1>5, <3>1, <3>2
      <4> QED
        BY <1>4, <4>1 DEF ToSet
    <3>3. CASE ~(j < h)
      <4>1. j # h
        BY <2>2, <3>1
      <4>2. j - 1 \in 1 .. Len(t) /\ ~(j - 1 < h) /\ (j - 1) + 1 = j
        BY <1>1, <1>4, <3>1, <3>3, <4>1
      <4>3. t[j - 1] = v
        BY <1>5, <3>1, <4>2
      <4> QED
        BY <1>4, <4>2, <4>3 DEF ToSet
    <3> QED
      BY <3>2, <3>3
  <2> QED
    BY <2>1, <2>2
<1>7. Injective(t)
  <2>1. SUFFICES ASSUME NEW i \in 1 .. Len(t), NEW j \in 1 .. Len(t), t[i] = t[j] PROVE i = j
    BY DEF Injective
  <2>2. PICK x \in 1 .. Len(s) : t[i] = s[x] /\ x = IF i < h THEN i ELSE i + 1
    BY <1>1, <1>4, <1>5
  <2>3. PICK y \in 1 .. Len(s) : t[j] = s[y] /\ y = IF j < h THEN j ELSE j + 1
    BY <1>1, <1>4, <1>5
  <2>4. x = y
    BY <2>1, <2>2, <2>3 DEF Injective
  <2> QED
    BY <1>1, <2>2, <2>3, <2>4
<1> QED
  BY <1>6, <1>7 DEF t

\* A query with a latch that somebody may be waiting on still owes the wake-up.
Owed(k) ==
  active[k] = "started" \/ \E v \in Workers : pc[v] = "signal" /\ stack[v][1].key = k

Latched(k) ==
  /\ latch[k] = "complete" => Settled(k)
  /\ latch[k] = "open" => Owed(k)
  /\ Listed(k) # {} => latch[k] = "open"
  /\ Injective(waiters[k])
  /\ \A w \in Listed(k) :
       want[w] = k /\ pc[w] \in {"mark_blocked", "wait", "waiting"} /\ w # handler.waiter

Waits(w) ==
  /\ pc[w] \in {"wait_on", "mark_blocked", "wait", "waiting"} => latch[want[w]] # "none"
  /\ pc[w] \in {"mark_blocked", "wait"} => wlock[want[w]] = w
  /\ pc[w] \in {"mark_blocked", "wait", "waiting"} => w = handler.waiter \/ w \in Listed(want[w])
  /\ pc[w] \in {"notified", "waited"} /\ cycle[w] = None => Settled(want[w])

\* The thread that the handler resumes waits, and knows of the cycle.
Resumes ==
  /\ handler.pc = "off" => handler.waiter = None
  /\ handler.pc # "off" => /\ handler.waiter \in Workers /\ pc[handler.waiter] = "waiting"
                           /\ cycle[handler.waiter] # None

WaitInv ==
  /\ \A k \in Keys : Latched(k)
  /\ \A w \in Workers : Waits(w)
  /\ Resumes

\* What a query has become, it stays.
LEMMA SettledStays ==
  ASSUME Typed, FrameInv, Next, NEW k \in Keys, Settled(k)
  PROVE  Settled(k)'
<1>0. Base /\ active \in [Keys -> {"vacant", "started", "poisoned"}]
  BY DEF Base, FrameInv, Typed
<1>1. ASSUME NEW w \in Workers, start_job(w) PROVE Settled(k)'
  <2>1. cache' = cache /\ active[want[w]] = "vacant" /\ active' = [active EXCEPT ![want[w]] = "started"]
    BY <1>1 DEF start_job
  <2> QED
    BY <1>0, <2>1 DEF Settled
<1>2. ASSUME NEW w \in Workers, complete(w) PROVE Settled(k)'
  BY <1>2 DEF complete, Settled
<1>3. ASSUME NEW w \in Workers, drop_entry(w) \/ poison(w) PROVE Settled(k)'
  <2>1. /\ pc[w] \in {"run", "remove"} /\ Top(w) = stack[w][1] /\ ~stack[w][1].is_task
        /\ 1 \in Frames(w)
    <3>1. pc[w] \in {"run", "remove"}
      BY <1>3 DEF drop_entry, poison, Ends, Goto
    <3>2. Top(w) = stack[w][1] /\ 1 \in Frames(w)
      BY <1>0, <3>1, HasTop DEF Idle
    <3> QED
      BY <1>0, <1>3, <3>1, <3>2 DEF drop_entry, poison, Ends, Goto, Base, Placed, Ending
  <2>2. active[Top(w).key] = "started"
    BY <2>1 DEF FrameInv, Live
  <2>3. cache' = cache /\ \E a : active' = [active EXCEPT ![Top(w).key] = a]
    BY <1>3 DEF drop_entry, poison
  <2> QED
    BY <1>0, <2>2, <2>3 DEF Settled
<1>4. CASE UNCHANGED mapVars
  BY <1>4 DEF mapVars, Settled
<1>5. CASE Handle
  BY <1>4, <1>5 DEF Handle, find_and_process_cycle, unblock_resumed, notify_resumed
<1>6. ASSUME NEW w \in Workers, NEW left \in SUBSET Keys, fork(w, left) PROVE Settled(k)'
  BY <1>4, <1>6 DEF fork
<1>7. ASSUME NEW w \in Workers, Step(w) \/ panic(w) PROVE Settled(k)'
  <2>1. \/ start_job(w) \/ complete(w) \/ drop_entry(w) \/ poison(w) \/ UNCHANGED mapVars
    BY <1>7 DEF Step, panic, find_work, sleep, run_inline, wait_until, finish_task, ask,
       try_execute_query, hit_cache, get_latch, raise_fatal, wait_on, mark_blocked,
       condvar_wait, condvar_return, wait_for_query, set
  <2> QED
    BY <1>1, <1>2, <1>3, <1>4, <2>1
<1> QED
  BY <1>5, <1>6, <1>7 DEF Next

\* Steps that have nothing to do with waiting.
Waiting == {"wait_on", "mark_blocked", "wait", "waiting", "notified", "waited"}

Calm(w) ==
  /\ UNCHANGED latchVars
  /\ handler'.pc = handler.pc /\ handler'.waiter = handler.waiter
  /\ pc[w] \notin Waiting \cup {"signal"} /\ pc'[w] \notin Waiting
  /\ \A k \in Keys : active[k] = "started" =>
       active'[k] = "started" \/ (pc'[w] = "signal" /\ stack'[w][1].key = k)
  /\ \A v \in Workers \ {w} :
       /\ stack'[v] = stack[v] /\ want'[v] = want[v]
       /\ \/ pc'[v] = pc[v]
          \/ pc[v] \notin Waiting \cup {"signal"} /\ pc'[v] \notin Waiting

\* A step that has nothing to do with waiting keeps what is said of it.
LEMMA CalmStep ==
  ASSUME Typed, FrameInv, WaitInv, Next, NEW w \in Workers, Calm(w)
  PROVE  WaitInv'
<1>1. UNCHANGED <<latch, waiters, wlock, cycle>> /\ handler'.pc = handler.pc
      /\ handler'.waiter = handler.waiter
  BY DEF Calm, latchVars
<1>2. \A v \in Workers :
        \/ pc'[v] = pc[v] /\ want'[v] = want[v] /\ stack'[v] = stack[v]
        \/ pc[v] \notin Waiting \cup {"signal"} /\ pc'[v] \notin Waiting
  BY DEF Calm
<1>3. \A k \in Keys : Settled(k) => Settled(k)'
  BY SettledStays
<1>4. \A k \in Keys : Listed(k)' = Listed(k)
  BY <1>1 DEF Listed
<1>5. \A v \in Workers : pc[v] = "signal" => pc'[v] = "signal" /\ stack'[v] = stack[v]
  BY <1>2 DEF Waiting
<1>6. ASSUME NEW k \in Keys, Owed(k) PROVE Owed(k)'
  <2>1. CASE active[k] = "started"
    BY <2>1 DEF Owed, Calm
  <2>2. CASE \E v \in Workers : pc[v] = "signal" /\ stack[v][1].key = k
    BY <1>5, <2>2 DEF Owed
  <2> QED
    BY <1>6, <2>1, <2>2 DEF Owed
<1>7. ASSUME NEW v \in Workers, pc[v] \in Waiting \/ pc'[v] \in Waiting
      PROVE  pc'[v] = pc[v] /\ want'[v] = want[v]
  BY <1>2, <1>7
<1>8. ASSUME NEW k \in Keys PROVE Latched(k)'
  <2>1. Latched(k) /\ Listed(k) \subseteq Workers
    BY DEF WaitInv, Listed, ToSet, Typed
  <2>2. \A v \in Listed(k) : pc'[v] = pc[v] /\ want'[v] = want[v]
    BY <1>7, <2>1 DEF Latched, Waiting
  <2> QED
    BY <1>1, <1>3, <1>4, <1>6, <2>1, <2>2 DEF Latched
<1>9. ASSUME NEW v \in Workers PROVE Waits(v)'
  <2>1. CASE pc'[v] \in Waiting
    <3>1. pc'[v] = pc[v] /\ want'[v] = want[v] /\ want[v] \in Keys
      BY <1>7, <2>1 DEF FrameInv, Placed, Waiting, Asking
    <3>2. Waits(v)
      BY DEF WaitInv
    <3> QED
      BY <1>1, <1>3, <1>4, <3>1, <3>2 DEF Waits
  <2>2. CASE pc'[v] \notin Waiting
    BY <2>2 DEF Waits, Waiting
  <2> QED
    BY <2>1, <2>2
<1>10. Resumes'
  BY <1>1, <1>7 DEF WaitInv, Resumes, Waiting
<1> QED
  BY <1>8, <1>9, <1>10 DEF WaitInv

CalmStepOf(w) ==
  \/ find_work(w) \/ sleep(w) \/ run_inline(w) \/ wait_until(w) \/ finish_task(w)
  \/ \E k \in Keys : ask(w, k)
  \/ panic(w) \/ \E left \in SUBSET Keys : fork(w, left)
  \/ pc[w] = "try" /\ (hit_cache(w) \/ start_job(w) \/ raise_fatal(w))
  \/ complete(w) \/ drop_entry(w) \/ poison(w)

\* What a step of that kind does to the threads it is not a step of.
LEMMA CalmElsewhere ==
  ASSUME Base, NEW w \in Workers, CalmStepOf(w), NEW v \in Workers, v # w
  PROVE  /\ stack'[v] = stack[v] /\ want'[v] = want[v]
         /\ \/ pc'[v] = pc[v]
            \/ pc[v] = "idle_asleep" /\ pc'[v] = "idle"
            \/ pc[v] = "join_asleep" /\ pc'[v] = "joining"
<1>0. /\ stack \in [Workers -> Seq(Frame)] /\ pc \in [Workers -> Locs]
      /\ want \in [Workers -> Keys \cup {None}]
  BY DEF Base, Typed
<1>1. \A s : [stack EXCEPT ![w] = s][v] = stack[v]
  BY <1>0
<1>2. stack' = stack \/ \E s : stack' = [stack EXCEPT ![w] = s]
  <2>1. CASE find_work(w)
    BY <2>1 DEF find_work
  <2>2. CASE run_inline(w) \/ finish_task(w)
    BY <2>2 DEF run_inline, finish_task
  <2>3. CASE \/ \E k \in Keys : ask(w, k) 
             \/ \E left \in SUBSET Keys : fork(w, left)
    BY <2>3 DEF ask, fork
  <2>4. CASE panic(w) \/ raise_fatal(w) \/ start_job(w)
    BY <2>4 DEF panic, raise_fatal, Unwound, start_job
  <2>5. CASE \/ sleep(w) \/ wait_until(w) \/ hit_cache(w) \/ complete(w) \/ drop_entry(w)
             \/ poison(w)
    BY <2>5 DEF sleep, wait_until, hit_cache, complete, drop_entry, poison
  <2> QED
    BY <2>1, <2>2, <2>3, <2>4, <2>5 DEF CalmStepOf
<1>3. want' = want \/ \E k : want' = [want EXCEPT ![w] = k]
  BY DEF CalmStepOf, find_work, sleep, run_inline, wait_until, finish_task, ask, panic, fork,
     hit_cache, start_job, raise_fatal, Returns, complete, drop_entry, poison
<1>4. \/ pc' = pc \/ \E p : pc' = [pc EXCEPT ![w] = p]
      \/ \E S : /\ S \subseteq {u \in Workers : Asleep(u)}
                /\ pc' = Woken(S) \/ \E p : pc' = [Woken(S) EXCEPT ![w] = p]
  <2>1. CASE find_work(w)
    BY <2>1 DEF find_work
  <2>2. CASE finish_task(w)
    <3> DEFINE S == {u \in Workers : pc[u] = "join_asleep" /\ Current(u) = Top(w).key}
    <3>1. S \subseteq {u \in Workers : Asleep(u)}
      BY DEF Asleep
    <3>2. \E p : pc' = [Woken(S) EXCEPT ![w] = p]
      BY <2>2 DEF finish_task
    <3> HIDE DEF S
    <3> QED
      BY <3>1, <3>2
  <2>3. CASE \E left \in SUBSET Keys : fork(w, left)
    BY <2>3 DEF fork
  <2>4. CASE \/ sleep(w) \/ run_inline(w) \/ wait_until(w) \/ \E k \in Keys : ask(w, k)
             \/ panic(w) \/ hit_cache(w) \/ start_job(w) \/ raise_fatal(w)
             \/ complete(w) \/ drop_entry(w) \/ poison(w)
    BY <2>4 DEF sleep, run_inline, wait_until, ask, panic, hit_cache, start_job, raise_fatal,
       Returns, Goto, complete, drop_entry, poison
  <2> QED
    BY <2>1, <2>2, <2>3, <2>4 DEF CalmStepOf
<1>5. \/ pc'[v] = pc[v]
      \/ pc[v] = "idle_asleep" /\ pc'[v] = "idle"
      \/ pc[v] = "join_asleep" /\ pc'[v] = "joining"
  <2>1. CASE pc' = pc \/ \E p : pc' = [pc EXCEPT ![w] = p]
    BY <1>0, <2>1
  <2>2. ASSUME NEW S, S \subseteq {u \in Workers : Asleep(u)},
               pc' = Woken(S) \/ \E p : pc' = [Woken(S) EXCEPT ![w] = p]
        PROVE  \/ pc'[v] = pc[v]
               \/ pc[v] = "idle_asleep" /\ pc'[v] = "idle"
               \/ pc[v] = "join_asleep" /\ pc'[v] = "joining"
    <3>1. Woken(S) \in [Workers -> Locs]
      BY WokenType
    <3>2. pc'[v] = Woken(S)[v]
      BY <2>2, <3>1
    <3> QED
      BY <2>2, <3>2, WokenMoves
  <2> QED
    BY <1>4, <2>1, <2>2
<1> QED
  BY <1>0, <1>1, <1>2, <1>3, <1>5

\* The steps of workers that neither wait nor signal.
LEMMA CalmSteps ==
  ASSUME Base, FrameInv, Typed', NEW w \in Workers, CalmStepOf(w)
  PROVE  Calm(w)
<1>0. /\ pc \in [Workers -> Locs] /\ active \in [Keys -> {"vacant", "started", "poisoned"}]
      /\ Typed
  BY DEF Base, Typed
<1>1. UNCHANGED latchVars
  BY DEF CalmStepOf, find_work, sleep, run_inline, wait_until, finish_task, ask, panic, fork,
     hit_cache, start_job, raise_fatal, complete, drop_entry, poison
<1>2. handler'.pc = handler.pc /\ handler'.waiter = handler.waiter
  <2>1. CASE sleep(w)
    BY <1>0, <2>1, DeadlockCheckType DEF sleep
  <2>2. CASE ~sleep(w)
    BY <2>2 DEF CalmStepOf, find_work, run_inline, wait_until, finish_task, ask, panic, fork,
       hit_cache, start_job, raise_fatal, complete, drop_entry, poison
  <2> QED
    BY <2>1, <2>2
<1>3. pc[w] \in {"idle", "run", "joining", "try", "remove"}
  BY DEF CalmStepOf, find_work, sleep, run_inline, wait_until, finish_task, ask, panic, fork,
     complete, drop_entry, poison, Goto, Ends
<1>4. pc'[w] \notin Waiting
  <2>1. CASE \E left \in SUBSET Keys : fork(w, left)
    <3>1. PICK S : S \subseteq {v \in Workers : Asleep(v)} /\ pc' = Woken(S)
      BY <2>1 DEF fork
    <3> QED
      BY <1>3, <3>1, WokenMoves DEF Waiting
  <2>2. CASE find_work(w) \/ finish_task(w)
    <3>1. PICK S, p : pc' = [Woken(S) EXCEPT ![w] = p] /\ p \in {"idle", "run"}
      BY <2>2 DEF find_work, finish_task
    <3>2. Woken(S) \in [Workers -> Locs]
      BY WokenType
    <3> QED
      BY <3>1, <3>2 DEF Waiting
  <2>3. CASE \/ sleep(w) \/ run_inline(w) \/ wait_until(w) \/ \E k \in Keys : ask(w, k)
             \/ panic(w) \/ hit_cache(w) \/ start_job(w) \/ raise_fatal(w)
             \/ complete(w) \/ drop_entry(w) \/ poison(w)
    <3>1. pc' = pc \/ \E p \in {"idle_asleep", "join_asleep", "joining", "run", "try",
                                "remove", "signal"} : pc' = [pc EXCEPT ![w] = p]
      BY <2>3 DEF sleep, run_inline, wait_until, ask, panic, hit_cache, start_job, raise_fatal,
         Returns, Goto, complete, drop_entry, poison
    <3> QED
      BY <1>0, <1>3, <3>1 DEF Waiting
  <2> QED
    BY <2>1, <2>2, <2>3 DEF CalmStepOf
<1>5. ASSUME NEW k \in Keys, active[k] = "started"
      PROVE  active'[k] = "started" \/ (pc'[w] = "signal" /\ stack'[w][1].key = k)
  <2>1. CASE start_job(w)
    <3>1. active' = [active EXCEPT ![want[w]] = "started"]
      BY <2>1 DEF start_job
    <3> QED
      BY <1>0, <1>5, <3>1
  <2>2. CASE drop_entry(w) \/ poison(w)
    <3>1. Top(w) = stack[w][1]
      BY <1>3, <2>2, TopOf DEF drop_entry, poison, Goto, Ends
    <3>2. stack' = stack /\ pc' = [pc EXCEPT ![w] = "signal"]
          /\ \E a : active' = [active EXCEPT ![stack[w][1].key] = a]
      BY <2>2, <3>1 DEF drop_entry, poison, Goto
    <3> QED
      BY <1>0, <1>5, <3>2
  <2>3. CASE ~start_job(w) /\ ~drop_entry(w) /\ ~poison(w)
    <3>1. active' = active
      BY <2>3 DEF CalmStepOf, find_work, sleep, run_inline, wait_until, finish_task, ask, panic,
         fork, hit_cache, raise_fatal, complete, mapVars
    <3> QED
      BY <1>5, <3>1
  <2> QED
    BY <2>1, <2>2, <2>3
<1>6. \A v \in Workers \ {w} :
         /\ stack'[v] = stack[v] /\ want'[v] = want[v]
         /\ \/ pc'[v] = pc[v]
            \/ pc[v] \notin Waiting \cup {"signal"} /\ pc'[v] \notin Waiting
  BY CalmElsewhere DEF Waiting
<1> QED
  BY <1>1, <1>2, <1>3, <1>4, <1>5, <1>6 DEF Calm, Waiting

-----------------------------------------------------------------------------
\* Steps of w on the latch of k = want[w] that leave the map of jobs and all
\* other threads alone.
Local(w) ==
  /\ UNCHANGED <<cache, active>>
  /\ handler'.pc = handler.pc /\ handler'.waiter = handler.waiter
  /\ pc[w] \in Waiting \cup {"try"} /\ pc[w] # "waiting" /\ pc'[w] # "signal"
  /\ \A v \in Workers \ {w} : pc'[v] = pc[v] /\ want'[v] = want[v] /\ stack'[v] = stack[v]
                              /\ cycle'[v] = cycle[v]

\* A step of a waiting thread on its own latch keeps what is said of the others.
LEMMA LocalKeeps ==
  ASSUME Typed, FrameInv, WaitInv, NEW w \in Workers, Local(w)
  PROVE  /\ \A k \in Keys : (Settled(k)' <=> Settled(k)) /\ (Owed(k) => Owed(k)')
         /\ Resumes' /\ w # handler.waiter
         /\ want[w] \in Keys
<1>1. UNCHANGED <<cache, active>>
  BY DEF Local
<1>2. \A k \in Keys : Settled(k)' <=> Settled(k)
  BY <1>1 DEF Settled
<1>3. \A v \in Workers : pc[v] = "signal" => pc'[v] = "signal" /\ stack'[v] = stack[v]
  BY DEF Local, Waiting
<1>4. \A k \in Keys : Owed(k) => Owed(k)'
  BY <1>1, <1>3 DEF Owed
<1>5. w # handler.waiter
  BY ConstantsAssumption DEF WaitInv, Resumes, Local
<1>6. Resumes'
  BY <1>5 DEF WaitInv, Resumes, Local
<1>7. want[w] \in Keys
  BY DEF FrameInv, Placed, Local, Asking, Waiting
<1> QED
  BY <1>2, <1>4, <1>5, <1>6, <1>7

\* The list and the lock of no latch change.
LEMMA LocalStep ==
  ASSUME Typed, FrameInv, WaitInv, NEW w \in Workers, Local(w),
         UNCHANGED <<latch, waiters, wlock>>, w \notin Listed(want[w]),
         Waits(w)'
  PROVE  WaitInv'
<1>1. \A k \in Keys : Listed(k)' = Listed(k) /\ Listed(k) \subseteq Workers
  BY DEF Listed, ToSet, Typed
<1>2. \A v \in Workers \ {w} : pc'[v] = pc[v] /\ want'[v] = want[v] /\ cycle'[v] = cycle[v]
  BY DEF Local
<1>3. ASSUME NEW k \in Keys PROVE Latched(k)'
  <2>1. Latched(k)
    BY DEF WaitInv
  <2>2. w \notin Listed(k)
    BY <2>1 DEF Latched
  <2> QED
    BY <1>1, <1>2, <2>1, <2>2, LocalKeeps DEF Latched, Local
<1>4. ASSUME NEW v \in Workers, v # w PROVE Waits(v)'
  <2>1. Waits(v) /\ (pc[v] \in Asking => want[v] \in Keys)
    BY DEF WaitInv, FrameInv, Placed
  <2> QED
    BY <1>1, <1>2, <1>4, <2>1, LocalKeeps DEF Waits, Local, Asking
<1> QED
  BY <1>3, <1>4, LocalKeeps DEF WaitInv

\* get_latch opens the latch of a query that is executed.
LEMMA get_latch_waits ==
  ASSUME Typed, FrameInv, WaitInv, NEW w \in Workers, pc[w] = "try", get_latch(w)
  PROVE  WaitInv'
<1> DEFINE k == want[w]
<1>1. /\ active[k] = "started" /\ latch' = [latch EXCEPT ![k] = "open"]
      /\ pc' = [pc EXCEPT ![w] = "wait_on"]
      /\ UNCHANGED <<cache, active, waiters, wlock, cycle, stack, want, handler>>
  BY DEF get_latch, Goto, mapVars
<1>2. pc'[w] = "wait_on" /\ \A v \in Workers \ {w} : pc'[v] = pc[v]
  BY <1>1 DEF Typed
<1>3. Local(w)
  BY <1>1, <1>2 DEF Local, Waiting
<1>4. k \in Keys
  BY <1>3, LocalKeeps
<1> HIDE DEF k
<1>5. latch'[k] = "open" /\ \A j \in Keys \ {k} : latch'[j] = latch[j]
  BY <1>1, <1>4 DEF Typed
<1>6. \A j \in Keys : Listed(j)' = Listed(j) /\ Listed(j) \subseteq Workers
  BY <1>1 DEF Listed, ToSet, Typed
<1>7. ASSUME NEW j \in Keys PROVE Latched(j)'
  <2>1. Latched(j)
    BY DEF WaitInv
  <2>2. w \notin Listed(j)
    BY <2>1 DEF Latched
  <2>3. \A v \in Listed(j) : pc'[v] = pc[v]
    BY <1>2, <1>6, <2>2
  <2>4. CASE j = k
    <3>1. Owed(j)'
      BY <1>1, <2>4 DEF Owed
    <3> QED
      BY <1>1, <1>5, <1>6, <2>1, <2>3, <2>4, <3>1 DEF Latched
  <2>5. CASE j # k
    BY <1>1, <1>3, <1>5, <1>6, <2>1, <2>3, <2>5, LocalKeeps DEF Latched
  <2> QED
    BY <2>4, <2>5
<1>8. ASSUME NEW v \in Workers PROVE Waits(v)'
  <2>1. Waits(v) /\ (pc[v] \in Asking => want[v] \in Keys)
    BY DEF WaitInv, FrameInv, Placed
  <2>2. CASE v = w
    BY <1>1, <1>2, <1>5, <2>2 DEF Waits, k
  <2>3. CASE v # w
    <3>1. pc'[v] = pc[v]
      BY <1>2, <2>3
    <3>2. want[v] \in Keys => latch'[want[v]] = latch[want[v]] \/ latch'[want[v]] = "open"
      BY <1>5
    <3> QED
      BY <1>1, <1>3, <1>6, <2>1, <3>1, <3>2, LocalKeeps DEF Waits, Asking
  <2> QED
    BY <2>2, <2>3
<1> QED
  BY <1>3, <1>7, <1>8, LocalKeeps DEF WaitInv

\* wait_on lists the thread and keeps the list locked, or finds a result.
LEMMA wait_on_waits ==
  ASSUME Typed, FrameInv, WaitInv, NEW w \in Workers, wait_on(w)
  PROVE  WaitInv'
<1>0. PICK k \in Keys : k = want[w]
  BY DEF wait_on, FrameInv, Placed, Asking
<1>1. /\ pc[w] = "wait_on" /\ wlock[k] = None
      /\ UNCHANGED <<cache, active, latch, cycle, stack, want, handler>>
  BY <1>0 DEF wait_on, mapVars
<1>2. Waits(w) /\ want'[w] = k
  BY <1>0, <1>1 DEF WaitInv
<1>3. CASE /\ latch[k] = "complete" /\ pc' = [pc EXCEPT ![w] = "waited"]
           /\ UNCHANGED <<waiters, wlock>>
  <2>1. pc'[w] = "waited" /\ \A v \in Workers \ {w} : pc'[v] = pc[v]
    BY <1>3 DEF Typed
  <2>2. Local(w)
    BY <1>1, <2>1 DEF Local, Waiting
  <2>3. w \notin Listed(k) /\ Settled(k)
    BY <1>1, <1>2, <1>3 DEF WaitInv, Latched
  <2>4. Settled(k)'
    BY <1>2, <2>2, <2>3, LocalKeeps
  <2>5. Waits(w)'
    BY <1>1, <1>2, <2>1, <2>4 DEF Waits
  <2> QED
    BY <1>0, <1>1, <1>3, <2>2, <2>3, <2>5, LocalStep
<1>4. CASE /\ latch[k] # "complete" /\ pc' = [pc EXCEPT ![w] = "mark_blocked"]
           /\ waiters' = [waiters EXCEPT ![k] = Append(waiters[k], w)]
           /\ wlock' = [wlock EXCEPT ![k] = w]
  <2>1. pc'[w] = "mark_blocked" /\ \A v \in Workers \ {w} : pc'[v] = pc[v]
    BY <1>4 DEF Typed
  <2>2. Local(w)
    BY <1>1, <2>1 DEF Local, Waiting
  <2>3. latch[k] = "open"
    BY <1>0, <1>1, <1>2, <1>4 DEF Waits, Typed
  <2>4. /\ Listed(k)' = Listed(k) \cup {w}
        /\ Injective(waiters[k]) /\ w \notin Listed(k) => Injective(waiters'[k])
        /\ \A j \in Keys \ {k} : waiters'[j] = waiters[j] /\ Listed(j)' = Listed(j)
        /\ \A j \in Keys : Listed(j) \subseteq Workers
    <3>1. waiters \in [Keys -> Seq(Workers)]
      BY DEF Typed
    <3>2. waiters'[k] = Append(waiters[k], w) /\ \A j \in Keys \ {k} : waiters'[j] = waiters[j]
      BY <1>2, <1>4, <3>1
    <3>3. waiters[k] \in Seq(Workers)
      BY <1>2, <3>1
    <3>4. /\ ToSet(waiters'[k]) = ToSet(waiters[k]) \cup {w}
          /\ Injective(waiters[k]) /\ w \notin ToSet(waiters[k]) => Injective(waiters'[k])
      BY <3>2, <3>3, AppendList
    <3>5. \A j \in Keys : Listed(j) \subseteq Workers
      BY <3>1 DEF Listed, ToSet
    <3> QED
      BY <3>2, <3>4, <3>5 DEF Listed
  <2>5. wlock'[k] = w /\ \A j \in Keys \ {k} : wlock'[j] = wlock[j]
    BY <1>2, <1>4 DEF Typed
  <2>6. \A j \in Keys : w \notin Listed(j) /\ Latched(j)
    BY <1>1 DEF WaitInv, Latched
  <2>7. ASSUME NEW j \in Keys PROVE Latched(j)'
    <3>1. \A v \in Listed(j) : pc'[v] = pc[v]
      BY <2>1, <2>4, <2>6
    <3>2. CASE j = k
      BY <1>0, <1>1, <2>1, <2>2, <2>3, <2>4, <2>6, <3>1, <3>2, LocalKeeps DEF Latched
    <3>3. CASE j # k
      BY <1>1, <2>2, <2>4, <2>6, <3>1, <3>3, LocalKeeps DEF Latched
    <3> QED
      BY <3>2, <3>3
  <2>8. ASSUME NEW v \in Workers PROVE Waits(v)'
    <3>1. Waits(v) /\ (pc[v] \in Asking => want[v] \in Keys)
      BY DEF WaitInv, FrameInv, Placed
    <3>2. CASE v = w
      BY <1>0, <1>1, <2>1, <2>3, <2>4, <2>5, <3>2 DEF Waits
    <3>3. CASE v # w
      <4>1. pc'[v] = pc[v]
        BY <2>1, <3>3
      <4>2. pc[v] \in {"mark_blocked", "wait"} => want[v] # k
        BY <1>1, <3>1, ConstantsAssumption DEF Waits
      <4>3. \A j \in Keys : v \in Listed(j) => v \in Listed(j)'
        BY <2>4
      <4> QED
        BY <1>1, <2>2, <2>5, <3>1, <4>1, <4>2, <4>3, LocalKeeps DEF Waits, Asking
    <3> QED
      BY <3>2, <3>3
  <2> QED
    BY <2>2, <2>7, <2>8, LocalKeeps DEF WaitInv
<1> QED
  BY <1>0, <1>3, <1>4 DEF wait_on, Goto

\* mark_blocked leaves list and lock as they are.
LEMMA mark_blocked_waits ==
  ASSUME Typed, FrameInv, WaitInv, NEW w \in Workers, mark_blocked(w)
  PROVE  WaitInv'
<1>1. /\ pc[w] = "mark_blocked" /\ pc' = [pc EXCEPT ![w] = "wait"]
      /\ UNCHANGED <<cache, active, latch, waiters, wlock, cycle, stack, want>>
      /\ handler'.pc = handler.pc /\ handler'.waiter = handler.waiter
  BY DeadlockCheckType DEF mark_blocked, Goto, mapVars, latchVars
<1>2. pc'[w] = "wait" /\ \A v \in Workers \ {w} : pc'[v] = pc[v]
  BY <1>1 DEF Typed
<1>3. Local(w)
  BY <1>1, <1>2 DEF Local, Waiting
<1>4. \A k \in Keys : Listed(k)' = Listed(k) /\ Listed(k) \subseteq Workers
  BY <1>1 DEF Listed, ToSet, Typed
<1>5. ASSUME NEW k \in Keys PROVE Latched(k)'
  <2>1. Latched(k)
    BY DEF WaitInv
  <2>2. \A v \in Listed(k) : pc'[v] = pc[v] \/ pc'[v] = "wait"
    BY <1>2, <1>4
  <2> QED
    BY <1>1, <1>3, <1>4, <2>1, <2>2, LocalKeeps DEF Latched
<1>6. ASSUME NEW v \in Workers PROVE Waits(v)'
  <2>1. Waits(v) /\ (pc[v] \in Asking => want[v] \in Keys)
    BY DEF WaitInv, FrameInv, Placed
  <2>2. pc'[v] = pc[v] \/ (pc[v] = "mark_blocked" /\ pc'[v] = "wait")
    BY <1>1, <1>2
  <2> QED
    BY <1>1, <1>3, <1>4, <2>1, <2>2, LocalKeeps DEF Waits, Asking
<1> QED
  BY <1>3, <1>5, <1>6, LocalKeeps DEF WaitInv

\* condvar.wait unlocks the list of a thread that is listed.
LEMMA condvar_wait_waits ==
  ASSUME Typed, FrameInv, WaitInv, NEW w \in Workers, condvar_wait(w)
  PROVE  WaitInv'
<1>1. /\ pc[w] = "wait" /\ pc' = [pc EXCEPT ![w] = "waiting"]
      /\ wlock' = [wlock EXCEPT ![want[w]] = None]
      /\ UNCHANGED <<cache, active, latch, waiters, cycle, stack, want, handler>>
  BY DEF condvar_wait, Goto, mapVars
<1>2. pc'[w] = "waiting" /\ \A v \in Workers \ {w} : pc'[v] = pc[v]
  BY <1>1 DEF Typed
<1>3. Local(w)
  BY <1>1, <1>2 DEF Local, Waiting
<1>4. \A k \in Keys : Listed(k)' = Listed(k) /\ Listed(k) \subseteq Workers
  BY <1>1 DEF Listed, ToSet, Typed
<1>5. ASSUME NEW k \in Keys PROVE Latched(k)'
  <2>1. Latched(k)
    BY DEF WaitInv
  <2>2. \A v \in Listed(k) : pc'[v] = pc[v] \/ pc'[v] = "waiting"
    BY <1>2, <1>4
  <2> QED
    BY <1>1, <1>3, <1>4, <2>1, <2>2, LocalKeeps DEF Latched
<1>6. ASSUME NEW v \in Workers PROVE Waits(v)'
  <2>1. Waits(v) /\ (pc[v] \in Asking => want[v] \in Keys)
    BY DEF WaitInv, FrameInv, Placed
  <2>2. CASE v = w
    BY <1>1, <1>2, <1>3, <1>4, <2>1, <2>2, LocalKeeps DEF Waits, Asking
  <2>3. CASE v # w
    <3>1. pc'[v] = pc[v]
      BY <1>2, <2>3
    <3>2. pc[v] \in {"mark_blocked", "wait"} => want[v] # want[w]
      BY <1>1, <2>1, <2>3 DEF WaitInv, Waits
    <3>3. \A k \in Keys : k # want[w] => wlock'[k] = wlock[k]
      BY <1>1 DEF Typed
    <3> QED
      BY <1>1, <1>3, <1>4, <2>1, <3>1, <3>2, <3>3, LocalKeeps DEF Waits, Asking
  <2> QED
    BY <2>2, <2>3
<1> QED
  BY <1>3, <1>5, <1>6, LocalKeeps DEF WaitInv

\* A notified thread returns with what it was notified of.
LEMMA condvar_return_waits ==
  ASSUME Typed, FrameInv, WaitInv, NEW w \in Workers, condvar_return(w)
  PROVE  WaitInv'
<1>1. /\ pc[w] = "notified" /\ pc' = [pc EXCEPT ![w] = "waited"]
      /\ UNCHANGED <<cache, active, latch, waiters, wlock, cycle, stack, want, handler>>
  BY DEF condvar_return, Goto, mapVars, latchVars
<1>2. pc'[w] = "waited" /\ \A v \in Workers \ {w} : pc'[v] = pc[v]
  BY <1>1 DEF Typed
<1>3. Local(w)
  BY <1>1, <1>2 DEF Local, Waiting
<1>4. want[w] \in Keys /\ Waits(w)
  BY <1>3, LocalKeeps DEF WaitInv
<1>5. w \notin Listed(want[w])
  BY <1>1, <1>4 DEF WaitInv, Latched
<1>6. Waits(w)'
  BY <1>1, <1>2, <1>3, <1>4, LocalKeeps DEF Waits
<1> QED
  BY <1>1, <1>3, <1>5, <1>6, LocalStep

\* wait_for_query forgets the latch and the cycle.
LEMMA wait_for_query_waits ==
  ASSUME Typed, Typed', FrameInv, WaitInv, NEW w \in Workers, wait_for_query(w)
  PROVE  WaitInv'
<1>1. /\ pc[w] = "waited" /\ pc' = [pc EXCEPT ![w] = "run"]
      /\ want' = [want EXCEPT ![w] = None] /\ cycle' = [cycle EXCEPT ![w] = None]
      /\ UNCHANGED <<cache, active, latch, waiters, wlock, handler>>
  BY DEF wait_for_query, Goto, mapVars
<1>2. /\ pc'[w] = "run"
      /\ \A v \in Workers \ {w} : pc'[v] = pc[v] /\ want'[v] = want[v] /\ cycle'[v] = cycle[v]
  BY <1>1 DEF Typed
<1>3. \A v \in Workers \ {w} : stack'[v] = stack[v]
  BY DEF wait_for_query, Unwound, Typed
<1>4. Local(w)
  BY <1>1, <1>2, <1>3 DEF Local, Waiting
<1>5. want[w] \in Keys
  BY <1>4, LocalKeeps
<1>6. w \notin Listed(want[w])
  BY <1>1, <1>5 DEF WaitInv, Latched
<1>7. Waits(w)'
  BY <1>2 DEF Waits
<1> QED
  BY <1>1, <1>4, <1>6, <1>7, LocalStep

\* A job has ended: everybody on its list is notified.
LEMMA set_waits ==
  ASSUME Typed, Typed', FrameInv, WaitInv, NEW w \in Workers, set(w)
  PROVE  WaitInv'
<1>0. Base
  BY DEF Base, FrameInv
<1>1. PICK k \in Keys : k = Top(w).key
  BY <1>0, set_shape
<1>2. /\ pc[w] = "signal" /\ wlock[k] = None
      /\ latch' = [latch EXCEPT ![k] = IF latch[k] = "open" THEN "complete" ELSE latch[k]]
      /\ waiters' = [waiters EXCEPT ![k] = <<>>]
      /\ pc' = [Notified(Listed(k)) EXCEPT ![w] = "run"]
      /\ UNCHANGED <<cache, active, wlock, cycle, want, handler>>
  BY <1>1, SetKeeps DEF Listed, mapVars
<1>3. Settled(k) /\ k = stack[w][1].key
  BY <1>0, <1>1, <1>2, TopOf DEF FrameInv, Live
<1>4. /\ latch'[k] # "open" /\ (latch[k] # "none" => latch'[k] # "none")
      /\ \A j \in Keys \ {k} : latch'[j] = latch[j]
  BY <1>2 DEF Typed
<1>5. /\ Listed(k)' = {} /\ Injective(waiters'[k])
      /\ \A j \in Keys \ {k} : waiters'[j] = waiters[j] /\ Listed(j)' = Listed(j)
      /\ \A j \in Keys : Listed(j) \subseteq Workers
  <2>1. waiters \in [Keys -> Seq(Workers)]
    BY DEF Typed
  <2>2. waiters'[k] = <<>> /\ \A j \in Keys \ {k} : waiters'[j] = waiters[j]
    BY <1>2, <2>1
  <2>3. \A j \in Keys : Listed(j) \subseteq Workers
    BY <2>1 DEF Listed, ToSet
  <2> QED
    BY <2>2, <2>3, EmptyList DEF Listed
<1>6. /\ pc'[w] = "run"
      /\ \A v \in Workers \ {w} :
           pc'[v] = IF v \in Listed(k) /\ pc[v] = "waiting" THEN "notified" ELSE pc[v]
  BY <1>0, <1>2, NotifiedType
<1>7. \A j \in Keys : Latched(j)
  BY DEF WaitInv
<1>8. \A v \in Workers : Waits(v) /\ (pc[v] \in Asking => want[v] \in Keys)
  BY DEF WaitInv, FrameInv, Placed
<1>9. \A v \in Listed(k) : pc[v] = "waiting" /\ want[v] = k /\ v # handler.waiter /\ v \in Workers
  BY <1>2, <1>5, <1>7, <1>8, ConstantsAssumption DEF Latched, Waits
<1>10. \A j \in Keys : Settled(j)' <=> Settled(j)
  BY <1>2 DEF Settled
<1>11. ASSUME NEW j \in Keys, j # k, Owed(j) PROVE Owed(j)'
  <2>1. CASE active[j] = "started"
    BY <1>2, <2>1 DEF Owed
  <2>2. ASSUME NEW v \in Workers, pc[v] = "signal", stack[v][1].key = j PROVE Owed(j)'
    <3>1. v # w /\ pc'[v] = "signal"
      BY <1>3, <1>6, <1>11, <2>2
    <3>2. stack'[v] = stack[v]
      BY <1>0, <3>1, set_shape DEF Elsewhere, Typed
    <3> QED
      BY <2>2, <3>1, <3>2 DEF Owed
  <2> QED
    BY <1>11, <2>1, <2>2 DEF Owed
<1>12. ASSUME NEW j \in Keys PROVE Latched(j)'
  <2>1. CASE j = k
    BY <1>3, <1>4, <1>5, <1>10, <2>1 DEF Latched
  <2>2. CASE j # k
    <3>1. \A v \in Listed(j) : pc'[v] = pc[v] /\ want'[v] = want[v] /\ handler' = handler
      BY <1>2, <1>5, <1>6, <1>7, <1>9, <2>2 DEF Latched
    <3> QED
      BY <1>4, <1>5, <1>7, <1>10, <1>11, <2>2, <3>1 DEF Latched
  <2> QED
    BY <2>1, <2>2
<1>13. ASSUME NEW v \in Workers PROVE Waits(v)'
  <2>1. CASE v = w
    BY <1>6, <2>1 DEF Waits
  <2>2. CASE v \in Listed(k)
    <3>1. pc'[v] = "notified" /\ want'[v] = k
      BY <1>2, <1>6, <1>9, <2>2
    <3> QED
      BY <1>3, <1>10, <3>1 DEF Waits
  <2>3. CASE v # w /\ v \notin Listed(k)
    <3>1. pc'[v] = pc[v] /\ want'[v] = want[v]
      BY <1>2, <1>6, <2>3
    <3>2. want[v] \in Keys =>
            /\ v \in Listed(want[v]) => v \in ToSet(waiters'[want[v]])
            /\ latch[want[v]] # "none" => latch'[want[v]] # "none"
      BY <1>4, <1>5, <2>3 DEF Listed
    <3> QED
      BY <1>2, <1>8, <1>10, <3>1, <3>2 DEF Waits, Asking, Listed
  <2> QED
    BY <2>1, <2>2, <2>3
<1>14. Resumes'
  <2>1. handler.pc # "off" => handler.waiter \in Workers \ {w} /\ handler.waiter \notin Listed(k)
    BY <1>2, <1>9 DEF WaitInv, Resumes
  <2> QED
    BY <1>2, <1>6, <2>1 DEF WaitInv, Resumes
<1> QED
  BY <1>12, <1>13, <1>14 DEF WaitInv

\* The handler takes the waiter it resumes off its list ...
LEMMA find_cycle_waits ==
  ASSUME Typed, FrameInv, WaitInv, NEW k \in Keys, find_and_process_cycle(k)
  PROVE  WaitInv'
<1>1. PICK waitee \in Keys, waiter \in Workers :
        /\ \E i \in DOMAIN waiters[waitee] :
             /\ waiters[waitee][i] = waiter
             /\ waiters' = [waiters EXCEPT ![waitee] = RemoveAt(waiters[waitee], i)]
        /\ cycle' = [cycle EXCEPT ![waiter] = CycleFrom(JobMap, k)]
        /\ handler'.pc = "unblock" /\ handler'.waiter = waiter
  <2>1. PICK waitee \in Started, waiter \in Workers :
          /\ \E i \in DOMAIN waiters[waitee] :
               /\ waiters[waitee][i] = waiter
               /\ waiters' = [waiters EXCEPT ![waitee] = RemoveAt(waiters[waitee], i)]
          /\ cycle' = [cycle EXCEPT ![waiter] = CycleFrom(JobMap, k)]
          /\ handler' = [spawned |-> handler.spawned - 1, pc |-> "unblock", waiter |-> waiter]
    BY DEF find_and_process_cycle
  <2>2. waitee \in Keys /\ handler'.pc = "unblock" /\ handler'.waiter = waiter
    BY <2>1 DEF Started
  <2> QED
    BY <2>1, <2>2
<1>2. /\ handler.pc = "off" /\ \A j \in Keys : wlock[j] = None
      /\ UNCHANGED <<cache, active, latch, wlock, stack, pc, want>>
  BY DEF find_and_process_cycle, mapVars
<1>3. PICK i \in DOMAIN waiters[waitee] :
        /\ waiters[waitee][i] = waiter
        /\ waiters' = [waiters EXCEPT ![waitee] = RemoveAt(waiters[waitee], i)]
  BY <1>1
<1>4. \A j \in Keys : Latched(j) /\ Listed(j) \subseteq Workers
  BY DEF WaitInv, Listed, ToSet, Typed
<1>5. /\ Listed(waitee)' = Listed(waitee) \ {waiter} /\ waiter \in Listed(waitee)
      /\ Injective(waiters'[waitee])
      /\ \A j \in Keys \ {waitee} : waiters'[j] = waiters[j] /\ Listed(j)' = Listed(j)
  <2>1. waiters \in [Keys -> Seq(Workers)] /\ waiters[waitee] \in Seq(Workers)
    BY DEF Typed
  <2>2. /\ waiters'[waitee] = RemoveAt(waiters[waitee], i)
        /\ \A j \in Keys \ {waitee} : waiters'[j] = waiters[j]
    BY <1>3, <2>1
  <2>3. Injective(waiters[waitee])
    BY <1>4 DEF Latched
  <2>4. /\ ToSet(RemoveAt(waiters[waitee], i)) = ToSet(waiters[waitee]) \ {waiter}
        /\ Injective(RemoveAt(waiters[waitee], i))
    BY <1>3, <2>1, <2>3, RemoveList
  <2>5. waiter \in Listed(waitee)
    BY <1>3 DEF Listed, ToSet
  <2> QED
    BY <2>2, <2>4, <2>5 DEF Listed
<1>6. \A v \in Workers : Waits(v) /\ (pc[v] \in Asking => want[v] \in Keys)
  BY DEF WaitInv, FrameInv, Placed
<1>7. pc[waiter] = "waiting" /\ want[waiter] = waitee /\ handler.waiter = None
  BY <1>2, <1>4, <1>5, <1>6, ConstantsAssumption DEF Latched, Waits, WaitInv, Resumes
<1>8. cycle'[waiter] # None /\ \A v \in Workers \ {waiter} : cycle'[v] = cycle[v]
  <2>1. CycleFrom(JobMap, k) # None
    BY CycleType, ConstantsAssumption
  <2>2. cycle \in [Workers -> {None} \cup SUBSET Keys]
    BY DEF Typed
  <2> QED
    BY <1>1, <2>1, <2>2
<1>9. \A j \in Keys : (Settled(j)' <=> Settled(j)) /\ (Owed(j)' <=> Owed(j))
  BY <1>2 DEF Settled, Owed
<1>10. ASSUME NEW j \in Keys PROVE Latched(j)'
  <2>1. \A v \in Listed(j)' : v \in Listed(j) /\ v # waiter
    BY <1>4, <1>5, <1>7 DEF Latched
  <2>2. Injective(waiters'[j])
    BY <1>4, <1>5 DEF Latched
  <2> QED
    BY <1>1, <1>2, <1>4, <1>9, <2>1, <2>2 DEF Latched
<1>11. ASSUME NEW v \in Workers PROVE Waits(v)'
  <2>1. CASE v = waiter
    BY <1>1, <1>2, <1>6, <1>7, <2>1 DEF Waits
  <2>2. CASE v # waiter
    <3>1. want[v] \in Keys /\ v \in Listed(want[v]) => v \in ToSet(waiters'[want[v]])
      BY <1>5, <2>2 DEF Listed
    <3>2. v # handler.waiter
      BY <1>7, ConstantsAssumption
    <3> QED
      BY <1>2, <1>6, <1>8, <1>9, <2>2, <3>1, <3>2 DEF Waits, Asking, Listed
  <2> QED
    BY <2>1, <2>2
<1>12. Resumes'
  BY <1>1, <1>2, <1>7, <1>8 DEF Resumes
<1> QED
  BY <1>10, <1>11, <1>12 DEF WaitInv

\* ... says that it is not blocked any more, and notifies it.
LEMMA resumed_waits ==
  ASSUME Typed, FrameInv, WaitInv, unblock_resumed \/ notify_resumed
  PROVE  WaitInv'
<1>0. Base
  BY DEF Base, FrameInv
<1>1. UNCHANGED <<cache, active, latch, waiters, wlock, cycle, stack, want>>
  BY DEF unblock_resumed, notify_resumed, mapVars, latchVars
<1>2. \A j \in Keys : /\ Listed(j)' = Listed(j) /\ Listed(j) \subseteq Workers
                      /\ Latched(j)
  BY <1>1 DEF Listed, ToSet, Typed, WaitInv
<1>3. \A v \in Workers : Waits(v) /\ (pc[v] \in Asking => want[v] \in Keys)
  BY DEF WaitInv, FrameInv, Placed
<1>4. \A j \in Keys : Settled(j)' <=> Settled(j)
  BY <1>1 DEF Settled
<1>5. handler.waiter \in Workers /\ pc[handler.waiter] = "waiting" /\ cycle[handler.waiter] # None
  BY DEF WaitInv, Resumes, unblock_resumed, notify_resumed
<1>6. CASE unblock_resumed
  <2>1. pc' = pc /\ handler'.waiter = handler.waiter /\ handler'.pc = "notify"
    BY <1>6 DEF unblock_resumed, Typed
  <2>2. \A j \in Keys : Owed(j)' <=> Owed(j)
    BY <1>1, <2>1 DEF Owed
  <2>3. \A j \in Keys : Latched(j)'
    BY <1>1, <1>2, <1>4, <2>1, <2>2 DEF Latched
  <2>4. \A v \in Workers : Waits(v)'
    BY <1>1, <1>2, <1>3, <1>4, <2>1 DEF Waits, Asking
  <2>5. Resumes'
    BY <1>1, <1>5, <2>1 DEF Resumes
  <2> QED
    BY <2>3, <2>4, <2>5 DEF WaitInv
<1>7. CASE notify_resumed
  <2>1. handler'.waiter = None /\ handler'.pc = "off"
    BY <1>7 DEF notify_resumed, Typed
  <2>2. /\ pc'[handler.waiter] = "notified"
        /\ \A v \in Workers \ {handler.waiter} : pc'[v] = pc[v]
    <3>1. pc' = Notified({handler.waiter})
      BY <1>7 DEF notify_resumed
    <3> QED
      BY <1>0, <1>5, <3>1, NotifiedType
  <2>3. \A j \in Keys : Owed(j) => Owed(j)'
    BY <1>1, <1>5, <2>2 DEF Owed
  <2>4. ASSUME NEW j \in Keys PROVE Latched(j)'
    <3>1. \A v \in Listed(j) : pc'[v] = pc[v] /\ v # handler'.waiter
      BY <1>2, <2>1, <2>2, ConstantsAssumption DEF Latched
    <3> QED
      BY <1>1, <1>2, <1>4, <2>3, <3>1 DEF Latched
  <2>5. ASSUME NEW v \in Workers PROVE Waits(v)'
    <3>1. CASE v = handler.waiter
      BY <1>1, <1>5, <2>2, <3>1 DEF Waits
    <3>2. CASE v # handler.waiter
      BY <1>1, <1>2, <1>3, <1>4, <2>2, <3>2 DEF Waits, Asking
    <3> QED
      BY <3>1, <3>2
  <2>6. Resumes'
    BY <2>1 DEF Resumes
  <2> QED
    BY <2>4, <2>5, <2>6 DEF WaitInv
<1> QED
  BY <1>6, <1>7

\* Every step keeps latches and waiting threads together.
LEMMA WaitNext ==
  ASSUME Typed, Typed', FrameInv, WaitInv, Next
  PROVE  WaitInv'
<1>0. Base
  BY DEF Base, FrameInv
<1>1. ASSUME NEW w \in Workers, CalmStepOf(w) PROVE WaitInv'
  BY <1>0, <1>1, CalmSteps, CalmStep
<1>2. ASSUME NEW w \in Workers, Step(w), ~CalmStepOf(w) PROVE WaitInv'
  <2>1. \/ pc[w] = "try" /\ get_latch(w)
        \/ wait_on(w) \/ mark_blocked(w) \/ condvar_wait(w) \/ condvar_return(w)
        \/ wait_for_query(w) \/ set(w)
    BY <1>2 DEF Step, CalmStepOf, try_execute_query
  <2> QED
    BY <2>1, get_latch_waits, wait_on_waits, mark_blocked_waits, condvar_wait_waits,
       condvar_return_waits, wait_for_query_waits, set_waits
<1>3. CASE Handle
  BY <1>3, find_cycle_waits, resumed_waits DEF Handle
<1>4. ASSUME NEW w \in Workers, panic(w) \/ \E left \in SUBSET Keys : fork(w, left)
      PROVE  CalmStepOf(w)
  BY <1>4 DEF CalmStepOf
<1> QED
  BY <1>1, <1>2, <1>3, <1>4 DEF Next

-----------------------------------------------------------------------------
(* Counting. *)

\* The threads that SleepData counts as blocked, and as active.
BlockedSet ==
  {w \in Workers : \/ pc[w] \in {"wait", "waiting"} /\ w # handler.waiter
                   \/ w = handler.waiter /\ handler.pc = "unblock"}
ActiveSet == {w \in Workers : ~Asleep(w)} \ BlockedSet

\* The counters are exact, and the handler is started, once, when nobody is
\* active and somebody blocked; until it has resumed somebody, that stays so.
CountInv ==
  /\ count = [active |-> Cardinality(ActiveSet), blocked |-> Cardinality(BlockedSet)]
  /\ handler.spawned > 0 => /\ handler.spawned = 1 /\ handler.pc = "off"
                            /\ ActiveSet = {} /\ BlockedSet # {}
  /\ handler.pc = "unblock" => ActiveSet = {} /\ handler.spawned = 0

\* A list that names nobody twice is as long as the set of its members.
LEMMA ListLength ==
  ASSUME NEW s \in Seq(Workers), Injective(s)
  PROVE  Cardinality(ToSet(s)) = Len(s)
<1>1. Len(s) \in Nat /\ DOMAIN s = 1 .. Len(s)
  OBVIOUS
<1>2. s \in [1 .. Len(s) -> ToSet(s)]
  <2>1. s = [i \in 1 .. Len(s) |-> s[i]]
    OBVIOUS
  <2>2. \A i \in 1 .. Len(s) : s[i] \in ToSet(s)
    BY <1>1 DEF ToSet
  <2> QED
    BY <2>1, <2>2
<1>3. s \in Bijection(1 .. Len(s), ToSet(s))
  <2>1. IsInjective(s)
    BY <1>1 DEF Injective, IsInjective
  <2>2. \A t \in ToSet(s) : \E i \in 1 .. Len(s) : s[i] = t
    BY <1>1 DEF ToSet
  <2> QED
    BY <1>2, <2>1, <2>2 DEF Bijection, Injection, Surjection
<1>4. ExistsBijection(1 .. Len(s), ToSet(s))
  BY <1>3 DEF ExistsBijection
<1> QED
  BY <1>1, <1>4, FS_CountingElements

\* Sets of workers are finite.
LEMMA WorkerSets ==
  ASSUME NEW S, S \subseteq Workers
  PROVE  IsFiniteSet(S) /\ Cardinality(S) \in Nat /\ (Cardinality(S) = 0 <=> S = {})
BY ConstantsAssumption, FS_Subset, FS_CardinalityType, FS_EmptySet

\* Disjoint sets of workers are counted separately.
LEMMA DisjointSets ==
  ASSUME NEW S, NEW T, S \subseteq Workers, T \subseteq Workers, S \cap T = {}
  PROVE  Cardinality(S \cup T) = Cardinality(S) + Cardinality(T)
<1>1. /\ IsFiniteSet(S) /\ IsFiniteSet(T) /\ Cardinality(S) \in Nat /\ Cardinality(T) \in Nat
      /\ Cardinality(S \cap T) = 0
  BY WorkerSets, FS_EmptySet
<1>2. Cardinality(S \cup T) = Cardinality(S) + Cardinality(T) - Cardinality(S \cap T)
  BY <1>1, FS_Union
<1> QED
  BY <1>1, <1>2

\* Workers are taken out of a set.
LEMMA SubsetRemoved ==
  ASSUME NEW S, NEW T, S \subseteq Workers, T \subseteq S
  PROVE  Cardinality(S \ T) = Cardinality(S) - Cardinality(T)
<1>1. Cardinality((S \ T) \cup T) = Cardinality(S \ T) + Cardinality(T)
  BY DisjointSets
<1>2. (S \ T) \cup T = S
  OBVIOUS
<1>3. Cardinality(S \ T) \in Nat /\ Cardinality(T) \in Nat
  BY WorkerSets
<1>4. Cardinality(S) = Cardinality(S \ T) + Cardinality(T)
  BY <1>1, <1>2, Zenon
<1> QED
  BY <1>3, <1>4

\* Nobody is counted anew.
LEMMA SameCount ==
  ASSUME CountInv, count' = count, handler' = handler,
         \A v \in Workers : /\ v \in BlockedSet' <=> v \in BlockedSet
                            /\ Asleep(v)' <=> Asleep(v)
  PROVE  CountInv'
<1>1. BlockedSet' = BlockedSet
  BY DEF BlockedSet
<1>2. ActiveSet' = ActiveSet
  BY <1>1 DEF ActiveSet
<1> QED
  BY <1>1, <1>2 DEF CountInv

\* A step of an active thread: the handler has not been started and does not
\* resume anybody.
LEMMA ActiveRuns ==
  ASSUME Typed, CountInv, NEW w \in Workers, ~Asleep(w), w \notin BlockedSet
  PROVE  /\ w \in ActiveSet /\ handler.spawned = 0 /\ handler.pc # "unblock"
         /\ handler \in [spawned : Nat, pc : {"off", "unblock", "notify"},
                          waiter : Workers \cup {None}]
<1>1. w \in ActiveSet
  BY DEF ActiveSet
<1>2. handler.spawned \in Nat
  BY DEF Typed
<1>3. ~(handler.spawned > 0) /\ handler.pc # "unblock"
  BY <1>1 DEF CountInv
<1> QED
  BY <1>1, <1>2, <1>3 DEF Typed

\* Sleepers are woken by an active thread.
LEMMA WakeCount ==
  ASSUME Typed, CountInv, NEW w \in Workers, ~Asleep(w), w \notin BlockedSet,
         NEW S, S \subseteq {v \in Workers : Asleep(v)}, S \cap BlockedSet = {}, handler' = handler,
         count' = [count EXCEPT !.active = @ + Cardinality(S)],
         BlockedSet' = BlockedSet,
         \A v \in Workers : Asleep(v)' <=> Asleep(v) /\ v \notin S
  PROVE  CountInv'
<1>1. ActiveSet' = ActiveSet \cup S
  BY DEF ActiveSet
<1>2. ActiveSet \subseteq Workers /\ S \subseteq Workers /\ ActiveSet \cap S = {}
  BY DEF ActiveSet
<1>3. Cardinality(ActiveSet') = Cardinality(ActiveSet) + Cardinality(S)
  BY <1>1, <1>2, DisjointSets
<1>4. handler.spawned = 0 /\ handler.pc # "unblock"
  BY ActiveRuns
<1>5. count = [active |-> Cardinality(ActiveSet), blocked |-> Cardinality(BlockedSet)]
  BY DEF CountInv
<1>6. count' = [active |-> Cardinality(ActiveSet'), blocked |-> Cardinality(BlockedSet')]
  BY <1>3, <1>5
<1> QED
  BY <1>4, <1>6 DEF CountInv

\* Steps that count nobody anew.
SilentStepOf(w) ==
  \/ run_inline(w) \/ wait_until(w) \/ panic(w) \/ \E k \in Keys : ask(w, k)
  \/ pc[w] = "try" /\ (hit_cache(w) \/ start_job(w) \/ get_latch(w) \/ raise_fatal(w))
  \/ wait_on(w) \/ condvar_wait(w) \/ condvar_return(w) \/ wait_for_query(w)
  \/ complete(w) \/ drop_entry(w) \/ poison(w)

\* Steps that count nobody anew keep the counters exact.
LEMMA SilentCount ==
  ASSUME Typed, CountInv, NEW w \in Workers, SilentStepOf(w)
  PROVE  CountInv'
<1>1. count' = count /\ handler' = handler
  BY DEF SilentStepOf, run_inline, wait_until, panic, ask, hit_cache, start_job, get_latch,
     raise_fatal, wait_on, condvar_wait, condvar_return, wait_for_query, complete,
     drop_entry, poison
<1>2. \/ pc' = pc
      \/ /\ pc[w] = "wait" /\ pc' = [pc EXCEPT ![w] = "waiting"]
      \/ /\ pc[w] \notin {"wait", "waiting", "idle_asleep", "join_asleep"}
         /\ \E p \in Locs \ {"wait", "waiting", "idle_asleep", "join_asleep"} :
              pc' = [pc EXCEPT ![w] = p]
  <2>1. CASE \/ run_inline(w) \/ panic(w) \/ condvar_wait(w)
    BY <2>1 DEF run_inline, panic, condvar_wait, Goto
  <2>2. CASE wait_until(w) \/ \E k \in Keys : ask(w, k)
    BY <2>2 DEF wait_until, ask, Goto, Locs
  <2>3. CASE pc[w] = "try" /\ (hit_cache(w) \/ start_job(w) \/ get_latch(w) \/ raise_fatal(w))
    BY <2>3 DEF hit_cache, start_job, get_latch, raise_fatal, Returns, Goto, Locs
  <2>4. CASE wait_on(w) \/ condvar_return(w) \/ wait_for_query(w)
    BY <2>4 DEF wait_on, condvar_return, wait_for_query, Goto, Locs
  <2>5. CASE complete(w) \/ drop_entry(w) \/ poison(w)
    BY <2>5 DEF complete, drop_entry, poison, Ends, Goto, Locs
  <2> QED
    BY <2>1, <2>2, <2>3, <2>4, <2>5 DEF SilentStepOf
<1>3. \A v \in Workers :
        /\ pc'[v] \in {"wait", "waiting"} <=> pc[v] \in {"wait", "waiting"}
        /\ pc'[v] \in {"idle_asleep", "join_asleep"} <=> pc[v] \in {"idle_asleep", "join_asleep"}
  <2>1. pc \in [Workers -> Locs]
    BY DEF Typed
  <2> QED
    BY <1>2, <2>1
<1> QED
  BY <1>1, <1>3, SameCount DEF BlockedSet, Asleep

\* find_work, fork and finish_task wake sleepers.
LEMMA WakeSteps ==
  ASSUME Base, WaitInv, CountInv, NEW w \in Workers,
         find_work(w) \/ finish_task(w) \/ \E left \in SUBSET Keys : fork(w, left)
  PROVE  CountInv'
<1>1. pc[w] \in {"idle", "run"} /\ handler' = handler
  BY DEF find_work, finish_task, fork
<1>2. PICK S : /\ S \subseteq {v \in Workers : Asleep(v)}
               /\ pc' = Woken(S) \/ \E p \in {"idle", "run"} : pc' = [Woken(S) EXCEPT ![w] = p]
               /\ count' = [count EXCEPT !.active = @ + Cardinality(S)]
  <2>1. CASE find_work(w) \/ \E left \in SUBSET Keys : fork(w, left)
    BY <2>1 DEF find_work, fork
  <2>2. CASE finish_task(w)
    <3> DEFINE S == {u \in Workers : pc[u] = "join_asleep" /\ Current(u) = Top(w).key}
    <3>1. S \subseteq {u \in Workers : Asleep(u)}
      BY DEF Asleep
    <3>2. /\ \E p \in {"idle", "run"} : pc' = [Woken(S) EXCEPT ![w] = p]
          /\ count' = [count EXCEPT !.active = @ + Cardinality(S)]
      BY <2>2 DEF finish_task
    <3> HIDE DEF S
    <3> QED
      BY <3>1, <3>2
  <2> QED
    BY <2>1, <2>2
<1>3. /\ \A v \in Workers \ {w} : pc'[v] = IF v \in S THEN Awake(pc[v]) ELSE pc[v]
      /\ pc'[w] \in {"idle", "run"} /\ w \notin S
  <2>1. w \notin S
    BY <1>1, <1>2 DEF Asleep
  <2>2. Woken(S) \in [Workers -> Locs]
    BY WokenType
  <2> QED
    BY <1>1, <1>2, <2>1, <2>2, WokenType
<1>4. \A v \in Workers :
        /\ v \in S => pc[v] \in {"idle_asleep", "join_asleep"} /\ pc'[v] \in {"idle", "joining"}
        /\ v \notin S => pc'[v] = pc[v] \/ (v = w /\ pc'[v] \in {"idle", "run"})
  BY <1>2, <1>3 DEF Asleep, Awake
<1>5. handler.pc = "unblock" => pc[handler.waiter] = "waiting"
  BY DEF WaitInv, Resumes
<1>6. ~Asleep(w) /\ w \notin BlockedSet /\ S \cap BlockedSet = {}
  BY <1>1, <1>4, <1>5 DEF Asleep, BlockedSet
<1>7. BlockedSet' = BlockedSet
  <2>1. \A v \in Workers : pc'[v] \in {"wait", "waiting"} <=> pc[v] \in {"wait", "waiting"}
    BY <1>1, <1>4
  <2> QED
    BY <1>1, <2>1 DEF BlockedSet
<1>8. \A v \in Workers : Asleep(v)' <=> Asleep(v) /\ v \notin S
  BY <1>1, <1>4 DEF Asleep
<1> QED
  BY <1>1, <1>2, <1>6, <1>7, <1>8, WakeCount DEF Base

\* A thread that stops being active looks for a deadlock: the handler is
\* started when it was the last one and somebody is blocked.
LEMMA CheckCount ==
  ASSUME Typed, WaitInv, CountInv, NEW w \in Workers, ~Asleep(w), w \notin BlockedSet,
         w # handler.waiter, NEW B, B \subseteq {w},
         ActiveSet' = ActiveSet \ {w}, BlockedSet' = BlockedSet \cup B,
         handler.pc = "notify" => handler.waiter \in ActiveSet,
         count'.active = count.active - 1, count'.blocked = count.blocked + Cardinality(B),
         count' = [active |-> count'.active, blocked |-> count'.blocked],
         DeadlockCheck(count')
  PROVE  CountInv'
<1>1. /\ w \in ActiveSet /\ handler.spawned = 0 /\ handler.pc # "unblock"
      /\ handler \in [spawned : Nat, pc : {"off", "unblock", "notify"},
                          waiter : Workers \cup {None}]
  BY ActiveRuns
<1>2. ActiveSet \subseteq Workers /\ BlockedSet \subseteq Workers /\ B \subseteq Workers
  BY DEF ActiveSet, BlockedSet
<1>3. Cardinality(ActiveSet \ {w}) = Cardinality(ActiveSet) - 1
  BY <1>1, <1>2, WorkerSets, FS_RemoveElement
<1>4. Cardinality(BlockedSet \cup B) = Cardinality(BlockedSet) + Cardinality(B)
  BY <1>2, DisjointSets
<1>5. count.active = Cardinality(ActiveSet) /\ count.blocked = Cardinality(BlockedSet)
  BY DEF CountInv
<1>6. count'.active = Cardinality(ActiveSet') /\ count'.blocked = Cardinality(BlockedSet')
  BY <1>3, <1>4, <1>5
<1>7. /\ Cardinality(ActiveSet') = 0 <=> ActiveSet' = {}
      /\ Cardinality(BlockedSet') \in Nat /\ (Cardinality(BlockedSet') = 0 <=> BlockedSet' = {})
  BY <1>2, WorkerSets
<1>8. \/ handler' = handler
      \/ /\ handler' = [handler EXCEPT !.spawned = @ + 1]
         /\ count'.active = 0 /\ count'.blocked > 0
  BY DEF DeadlockCheck
<1>9. CASE handler' = handler
  BY <1>1, <1>6, <1>9 DEF CountInv
<1>10. CASE /\ handler' = [handler EXCEPT !.spawned = @ + 1]
            /\ count'.active = 0 /\ count'.blocked > 0
  <2>1. handler'.spawned = 1 /\ handler'.pc = handler.pc
    BY <1>1, <1>10
  <2>2. ActiveSet' = {} /\ BlockedSet' # {}
    BY <1>6, <1>7, <1>10
  <2>3. handler.pc = "off"
    BY <1>1, <2>2
  <2> QED
    BY <1>6, <2>1, <2>2, <2>3 DEF CountInv
<1> QED
  BY <1>8, <1>9, <1>10

\* The thread that the handler resumes is counted active once it is unblocked.
LEMMA ResumedActive ==
  ASSUME WaitInv, handler.pc = "notify"
  PROVE  handler.waiter \in ActiveSet
BY DEF WaitInv, Resumes, ActiveSet, BlockedSet, Asleep

\* sleep counts the worker as inactive and looks for a deadlock.
LEMMA SleepCount ==
  ASSUME Typed, WaitInv, CountInv, NEW w \in Workers, sleep(w)
  PROVE  CountInv'
<1>1. /\ pc[w] \in {"idle", "joining"}
      /\ \E p \in {"idle_asleep", "join_asleep"} : pc' = [pc EXCEPT ![w] = p]
      /\ count' = [count EXCEPT !.active = @ - 1] /\ DeadlockCheck(count')
  BY DEF sleep, Goto
<1>2. pc'[w] \in {"idle_asleep", "join_asleep"} /\ \A v \in Workers \ {w} : pc'[v] = pc[v]
  BY <1>1 DEF Typed
<1>3. handler'.pc = handler.pc /\ handler'.waiter = handler.waiter
  BY <1>1, DeadlockCheckType
<1>4. w # handler.waiter
  BY <1>1, ConstantsAssumption DEF WaitInv, Resumes
<1>5. ~Asleep(w) /\ w \notin BlockedSet
  BY <1>1, <1>4 DEF Asleep, BlockedSet
<1>6. BlockedSet' = BlockedSet
  BY <1>1, <1>2, <1>3, <1>4 DEF BlockedSet
<1>7. ActiveSet' = ActiveSet \ {w}
  BY <1>2, <1>5, <1>6 DEF ActiveSet, Asleep
<1>8. count = [active |-> Cardinality(ActiveSet), blocked |-> Cardinality(BlockedSet)]
  BY DEF CountInv
<1>9. /\ count'.active = count.active - 1 /\ count'.blocked = count.blocked
      /\ count' = [active |-> count'.active, blocked |-> count'.blocked]
  BY <1>1, <1>8
<1>10. Cardinality(BlockedSet) \in Nat /\ Cardinality({}) = 0
  BY WorkerSets, FS_EmptySet DEF BlockedSet
<1>11. count'.blocked = count.blocked + Cardinality({})
  BY <1>8, <1>9, <1>10
<1>12. BlockedSet' = BlockedSet \cup {}
  BY <1>6
<1> QED
  BY <1>1, <1>4, <1>5, <1>7, <1>9, <1>11, <1>12, ResumedActive, CheckCount

\* mark_blocked moves the thread from active to blocked and looks for a deadlock.
LEMMA BlockCount ==
  ASSUME Typed, WaitInv, CountInv, NEW w \in Workers, mark_blocked(w)
  PROVE  CountInv'
<1>1. /\ pc[w] = "mark_blocked" /\ pc' = [pc EXCEPT ![w] = "wait"]
      /\ count' = [active |-> count.active - 1, blocked |-> count.blocked + 1]
      /\ DeadlockCheck(count')
  BY DEF mark_blocked, Goto
<1>2. pc'[w] = "wait" /\ \A v \in Workers \ {w} : pc'[v] = pc[v]
  BY <1>1 DEF Typed
<1>3. handler'.pc = handler.pc /\ handler'.waiter = handler.waiter
  BY <1>1, DeadlockCheckType
<1>4. w # handler.waiter
  BY <1>1, ConstantsAssumption DEF WaitInv, Resumes
<1>5. ~Asleep(w) /\ w \notin BlockedSet
  BY <1>1, <1>4 DEF Asleep, BlockedSet
<1>6. BlockedSet' = BlockedSet \cup {w}
  BY <1>2, <1>3, <1>4 DEF BlockedSet
<1>7. ActiveSet' = ActiveSet \ {w}
  BY <1>1, <1>2, <1>5, <1>6 DEF ActiveSet, Asleep
<1>8. /\ count'.active = count.active - 1 /\ count'.blocked = count.blocked + Cardinality({w})
      /\ count' = [active |-> count'.active, blocked |-> count'.blocked]
  BY <1>1, FS_Singleton
<1> QED
  BY <1>1, <1>4, <1>5, <1>6, <1>7, <1>8, ResumedActive, CheckCount

\* Threads are counted as active again by whoever wakes them.
LEMMA UnblockCount ==
  ASSUME Typed, CountInv, NEW S, S \subseteq BlockedSet,
         ActiveSet' = ActiveSet \cup S, BlockedSet' = BlockedSet \ S,
         count' = [active  |-> count.active + Cardinality(S),
                   blocked |-> count.blocked - Cardinality(S)],
         handler'.spawned = 0, handler'.pc # "unblock"
  PROVE  CountInv'
<1>1. /\ ActiveSet \subseteq Workers /\ BlockedSet \subseteq Workers /\ S \subseteq Workers
      /\ ActiveSet \cap S = {}
  BY DEF ActiveSet, BlockedSet
<1>2. Cardinality(ActiveSet \cup S) = Cardinality(ActiveSet) + Cardinality(S)
  BY <1>1, DisjointSets
<1>3. Cardinality(BlockedSet \ S) = Cardinality(BlockedSet) - Cardinality(S)
  BY <1>1, SubsetRemoved
<1>4. count = [active |-> Cardinality(ActiveSet), blocked |-> Cardinality(BlockedSet)]
  BY DEF CountInv
<1>5. count' = [active |-> Cardinality(ActiveSet'), blocked |-> Cardinality(BlockedSet')]
  BY <1>2, <1>3, <1>4
<1> QED
  BY <1>5 DEF CountInv

\* QueryLatch::set counts everybody on its list as active again.
LEMMA SetCount ==
  ASSUME Base, FrameInv, WaitInv, CountInv, NEW w \in Workers, set(w)
  PROVE  CountInv'
<1>1. PICK k \in Keys : k = Top(w).key
  BY set_shape
<1>2. /\ pc[w] = "signal" /\ wlock[k] = None
      /\ pc' = [Notified(Listed(k)) EXCEPT ![w] = "run"] /\ handler' = handler
      /\ count' = [active  |-> count.active + Len(waiters[k]),
                   blocked |-> count.blocked - Len(waiters[k])]
  BY <1>1, SetKeeps DEF Listed
<1>3. Typed /\ waiters[k] \in Seq(Workers) /\ Listed(k) \subseteq Workers
  BY DEF Base, Typed, Listed, ToSet
<1>4. Latched(k) /\ Injective(waiters[k])
  BY DEF WaitInv, Latched
<1>5. Len(waiters[k]) = Cardinality(Listed(k))
  BY <1>3, <1>4, ListLength DEF Listed
<1>6. \A v \in Listed(k) : pc[v] = "waiting" /\ v # handler.waiter /\ v # w
  BY <1>2, <1>3, <1>4, ConstantsAssumption DEF Latched, WaitInv, Waits
<1>7. /\ pc'[w] = "run"
      /\ \A v \in Listed(k) : pc'[v] = "notified"
      /\ \A v \in Workers \ Listed(k) : v # w => pc'[v] = pc[v]
  BY <1>2, <1>3, <1>6, NotifiedType
<1>8. w # handler.waiter
  BY <1>2, ConstantsAssumption DEF WaitInv, Resumes
<1>9. ~Asleep(w) /\ w \notin BlockedSet /\ Listed(k) \subseteq BlockedSet
  BY <1>2, <1>3, <1>6, <1>8 DEF Asleep, BlockedSet
<1>10. handler.spawned = 0 /\ handler.pc # "unblock"
  BY <1>3, <1>9, ActiveRuns
<1>11. BlockedSet' = BlockedSet \ Listed(k)
  BY <1>2, <1>7, <1>8, <1>10 DEF BlockedSet
<1>12. \A v \in Workers : Asleep(v)' <=> Asleep(v)
  <2>1. \A v \in Workers : v = w \/ v \in Listed(k) \/ pc'[v] = pc[v]
    BY <1>7
  <2> QED
    BY <1>2, <1>6, <1>7, <2>1 DEF Asleep
<1>13. \A v \in Listed(k) : ~Asleep(v)
  BY <1>6 DEF Asleep
<1>14. ActiveSet' = ActiveSet \cup Listed(k)
  BY <1>3, <1>11, <1>12, <1>13 DEF ActiveSet
<1> HIDE DEF Listed
<1> QED
  BY <1>2, <1>3, <1>5, <1>9, <1>10, <1>11, <1>14, UnblockCount

\* The handler counts the thread it resumes as active, once.
LEMMA HandleCount ==
  ASSUME Base, FrameInv, WaitInv, CountInv, Handle
  PROVE  CountInv'
<1>0. Typed /\ handler \in [spawned : Nat, pc : {"off", "unblock", "notify"},
                              waiter : Workers \cup {None}]
  BY DEF Base, Typed
<1>1. ASSUME NEW k \in Keys, find_and_process_cycle(k) PROVE CountInv'
  <2>1. PICK waitee \in Started, waiter \in Workers :
          /\ \E i \in DOMAIN waiters[waitee] : waiters[waitee][i] = waiter
          /\ handler' = [spawned |-> handler.spawned - 1, pc |-> "unblock", waiter |-> waiter]
    BY <1>1 DEF find_and_process_cycle
  <2>2. /\ handler.spawned > 0 /\ handler.pc = "off" /\ wlock[waitee] = None
        /\ pc' = pc /\ count' = count /\ waitee \in Keys
    BY <1>1 DEF find_and_process_cycle, Started
  <2>3. waiter \in Listed(waitee)
    BY <2>1 DEF Listed, ToSet
  <2>4. pc[waiter] = "waiting" /\ handler.waiter = None
    BY <2>2, <2>3, ConstantsAssumption DEF WaitInv, Latched, Waits, Resumes
  <2>5. BlockedSet' = BlockedSet
    BY <2>1, <2>2, <2>4, ConstantsAssumption DEF BlockedSet
  <2>6. ActiveSet' = ActiveSet
    BY <2>2, <2>5 DEF ActiveSet, Asleep
  <2>7. handler'.spawned = 0
    BY <2>1, <2>2 DEF CountInv
  <2> QED
    BY <2>2, <2>5, <2>6, <2>7 DEF CountInv
<1>2. CASE unblock_resumed
  <2>1. PICK w \in Workers : w = handler.waiter /\ pc[w] = "waiting"
    BY <1>2 DEF unblock_resumed, WaitInv, Resumes
  <2>2. /\ handler.pc = "unblock" /\ handler'.pc = "notify" /\ handler'.waiter = handler.waiter
        /\ handler'.spawned = handler.spawned /\ pc' = pc
        /\ count' = [active |-> count.active + 1, blocked |-> count.blocked - 1]
    BY <1>0, <1>2 DEF unblock_resumed
  <2>3. {w} \subseteq BlockedSet
    BY <2>1, <2>2 DEF BlockedSet
  <2>4. BlockedSet' = BlockedSet \ {w}
    BY <2>1, <2>2 DEF BlockedSet
  <2>5. ActiveSet' = ActiveSet \cup {w}
    BY <2>1, <2>2, <2>4 DEF ActiveSet, Asleep
  <2>6. handler'.spawned = 0
    BY <2>2 DEF CountInv
  <2>7. Cardinality({w}) = 1
    BY FS_Singleton
  <2> QED
    BY <1>0, <2>2, <2>3, <2>4, <2>5, <2>6, <2>7, UnblockCount
<1>3. CASE notify_resumed
  <2>1. PICK w \in Workers : w = handler.waiter /\ pc[w] = "waiting"
    BY <1>3 DEF notify_resumed, WaitInv, Resumes
  <2>2. /\ handler.pc = "notify" /\ handler'.pc = "off" /\ handler'.waiter = None
        /\ handler'.spawned = handler.spawned /\ pc' = Notified({w}) /\ count' = count
    BY <1>0, <1>3, <2>1 DEF notify_resumed
  <2>3. pc'[w] = "notified" /\ \A v \in Workers \ {w} : pc'[v] = pc[v]
    BY <2>1, <2>2, NotifiedType
  <2>4. BlockedSet' = BlockedSet
    BY <2>1, <2>2, <2>3, ConstantsAssumption DEF BlockedSet
  <2>5. ActiveSet' = ActiveSet
    BY <2>1, <2>3, <2>4 DEF ActiveSet, Asleep
  <2>6. handler'.spawned = 0
    BY <1>0, <2>2 DEF CountInv
  <2> QED
    BY <2>2, <2>4, <2>5, <2>6 DEF CountInv
<1> QED
  BY <1>1, <1>2, <1>3 DEF Handle

\* Every step keeps the counters exact.
LEMMA CountNext ==
  ASSUME Typed, FrameInv, WaitInv, CountInv, Next
  PROVE  CountInv'
<1>0. Base
  BY DEF Base, FrameInv
<1>1. ASSUME NEW w \in Workers, SilentStepOf(w) PROVE CountInv'
  BY <1>1, SilentCount
<1>2. ASSUME NEW w \in Workers,
             find_work(w) \/ finish_task(w) \/ \E left \in SUBSET Keys : fork(w, left)
      PROVE  CountInv'
  BY <1>0, <1>2, WakeSteps
<1>3. ASSUME NEW w \in Workers, sleep(w) \/ mark_blocked(w) \/ set(w) PROVE CountInv'
  BY <1>0, <1>3, SleepCount, BlockCount, SetCount
<1>4. CASE Handle
  BY <1>0, <1>4, HandleCount
<1>5. ASSUME NEW w \in Workers, Step(w) \/ panic(w)
      PROVE  \/ SilentStepOf(w) \/ find_work(w) \/ finish_task(w)
             \/ sleep(w) \/ mark_blocked(w) \/ set(w)
  BY <1>5 DEF Step, SilentStepOf, try_execute_query
<1> QED
  BY <1>1, <1>2, <1>3, <1>4, <1>5 DEF Next

-----------------------------------------------------------------------------
(* The invariant. *)

Inv == Typed /\ FrameInv /\ WaitInv /\ CountInv

\* The first state has its types.
LEMMA InitTyped ==
  ASSUME Init PROVE Typed
<1>1. <<>> \in Seq(Frame) /\ <<>> \in Seq(Workers)
  OBVIOUS
<1>2. calls \in [Keys -> SUBSET Keys]
  BY ConstantsAssumption DEF Init
<1>3. /\ cache \in SUBSET Keys /\ active \in [Keys -> {"vacant", "started", "poisoned"}]
      /\ parent \in [Keys -> Keys \cup {None}]
      /\ latch \in [Keys -> {"none", "open", "complete"}]
  BY DEF Init
<1>4. waiters \in [Keys -> Seq(Workers)] /\ wlock \in [Keys -> Workers \cup {None}]
  BY <1>1 DEF Init
<1>5. /\ cycle \in [Workers -> {None} \cup SUBSET Keys] /\ stack \in [Workers -> Seq(Frame)]
      /\ want \in [Workers -> Keys \cup {None}]
  BY <1>1 DEF Init
<1>6. pc \in [Workers -> Locs] /\ todo \in SUBSET Roots
  BY DEF Init, Locs
<1>7. task \in [Keys -> TaskState]
  <2>1. NoTask \in TaskState
    BY DEF NoTask, TaskState
  <2> QED
    BY <2>1 DEF Init
<1>8. handler \in [spawned : Nat, pc : {"off", "unblock", "notify"}, waiter : Workers \cup {None}]
  BY DEF Init
<1> QED
  BY <1>2, <1>3, <1>4, <1>5, <1>6, <1>7, <1>8 DEF Typed

\* At first there are no frames.
LEMMA InitFrames ==
  ASSUME Init PROVE FrameInv
<1>1. \A w \in Workers : stack[w] = <<>> /\ Depth(w) = 0 /\ Frames(w) = {} /\ pc[w] = "idle"
  BY DEF Init, Depth, Frames
<1>2. \A w \in Workers : Placed(w) /\ Framed(w) /\ Live(w)
  BY <1>1 DEF Placed, Framed, Live, Joining, Ending, Asking
<1>3. Alone
  BY <1>1 DEF Alone
<1>4. \A k \in Keys : active[k] = "vacant" /\ task[k].st = "none"
  BY DEF Init, NoTask
<1>5. Owned
  BY <1>4 DEF Owned
<1>6. Grounded
  BY <1>4 DEF Grounded, Started
<1> QED
  BY <1>2, <1>3, <1>5, <1>6 DEF FrameInv

\* At first nobody waits.
LEMMA InitWaits ==
  ASSUME Init PROVE WaitInv
<1>1. \A k \in Keys : latch[k] = "none" /\ waiters[k] = <<>>
  BY DEF Init
<1>2. ASSUME NEW k \in Keys PROVE Latched(k)
  <2>1. Listed(k) = {} /\ Injective(waiters[k])
    BY <1>1, EmptyList DEF Listed
  <2> QED
    BY <1>1, <2>1 DEF Latched
<1>3. \A w \in Workers : Waits(w)
  BY DEF Init, Waits
<1>4. Resumes
  BY DEF Init, Resumes
<1> QED
  BY <1>2, <1>3, <1>4 DEF WaitInv

\* At first all workers are active.
LEMMA InitCount ==
  ASSUME Init PROVE CountInv
<1>1. \A w \in Workers : pc[w] = "idle"
  BY DEF Init
<1>2. handler.spawned = 0 /\ handler.pc = "off"
  BY DEF Init
<1>3. BlockedSet = {} /\ ActiveSet = Workers
  BY <1>1, <1>2 DEF BlockedSet, ActiveSet, Asleep
<1>4. Cardinality(BlockedSet) = 0
  BY <1>3, FS_EmptySet
<1>5. count = [active |-> Cardinality(ActiveSet), blocked |-> Cardinality(BlockedSet)]
  BY <1>3, <1>4 DEF Init
<1> QED
  BY <1>2, <1>5 DEF CountInv

\* The invariant holds in the first state.
LEMMA InvInit ==
  ASSUME Init PROVE Inv
BY InitTyped, InitFrames, InitWaits, InitCount DEF Inv

\* A step that changes nothing keeps the invariant.
LEMMA InvStutters ==
  ASSUME Inv, UNCHANGED vars
  PROVE  Inv'
<1>1. /\ UNCHANGED <<calls, cache, active, parent, latch, waiters, wlock, cycle, stack, pc, want>>
      /\ UNCHANGED <<task, todo, count, handler>>
  BY DEF vars, mapVars, latchVars, poolVars
<1>2. Typed'
  BY <1>1 DEF Inv, Typed
<1>3. FrameInv'
  <2>1. \A w \in Workers : Placed(w) /\ Framed(w) /\ Live(w)
    BY DEF Inv, FrameInv
  <2>2. \A w \in Workers : Placed(w)' /\ Framed(w)' /\ Live(w)'
    BY <1>1, <2>1 DEF Placed, Framed, Live, Depth, Frames, Settled
  <2>3. Alone' /\ Owned' /\ Grounded'
    BY <1>1 DEF Inv, FrameInv, Alone, Owned, Grounded, Started, Depth, Frames
  <2> QED
    BY <2>2, <2>3 DEF FrameInv
<1>4. WaitInv'
  <2>1. \A k \in Keys : Latched(k)'
    BY <1>1 DEF Inv, WaitInv, Latched, Settled, Owed, Listed, Injective
  <2>2. \A w \in Workers : Waits(w)'
    BY <1>1 DEF Inv, WaitInv, Waits, Settled, Listed
  <2>3. Resumes'
    BY <1>1 DEF Inv, WaitInv, Resumes
  <2> QED
    BY <2>1, <2>2, <2>3 DEF WaitInv
<1>5. CountInv'
  BY <1>1 DEF Inv, CountInv, ActiveSet, BlockedSet, Asleep
<1> QED
  BY <1>2, <1>3, <1>4, <1>5 DEF Inv

\* Every step keeps the invariant.
LEMMA InvNext ==
  ASSUME Inv, [Next]_vars
  PROVE  Inv'
<1>1. CASE UNCHANGED vars
  BY <1>1, InvStutters
<1>2. CASE Next
  <2>0. Typed /\ FrameInv /\ WaitInv /\ CountInv /\ Base
    BY DEF Inv, FrameInv, Base
  <2>1. Typed'
    <3>1. CASE Handle
      BY <2>0, <3>1, HandleTyped
    <3>2. CASE ~Handle
      <4>1. PICK w \in Workers : \/ Step(w) \/ panic(w)
                                 \/ \E left \in SUBSET Keys : fork(w, left)
        BY <1>2, <3>2 DEF Next
      <4> QED
        BY <2>0, <4>1, TypedStep
    <3> QED
      BY <3>1, <3>2
  <2>2. FrameInv'
    BY <1>2, <2>0, <2>1, FrameNext
  <2>3. WaitInv'
    BY <1>2, <2>0, <2>1, WaitNext
  <2>4. CountInv'
    BY <1>2, <2>0, CountNext
  <2> QED
    BY <2>1, <2>2, <2>3, <2>4 DEF Inv
<1> QED
  BY <1>1, <1>2

\* Query execution keeps its invariant: the frames on the stacks and the
\* active map, the latches and the threads that wait, and the counters of the
\* thread pool agree, in every state the workers and the deadlock handler can
\* reach.
THEOREM QueryInvariant == Spec => []Inv
<1>1. Init => Inv
  BY InvInit
<1>2. Inv /\ [Next]_vars => Inv'
  BY InvNext
<1> QED
  BY <1>1, <1>2, PTL DEF Spec

-----------------------------------------------------------------------------
(* What the invariant says of a run. *)

\* One execution per query: from Live and Alone.
LEMMA InvOneRun ==
  ASSUME Inv PROVE OneRun
<1>1. ASSUME NEW v \in Workers, NEW i \in Running(v)
      PROVE  i \in Frames(v) /\ ~stack[v][i].is_task /\ stack[v][i].key \in Keys
  <2>1. stack[v] \in Seq(Frame)
    BY DEF Inv, Typed
  <2>2. i \in Frames(v) /\ ~stack[v][i].is_task
    BY <2>1 DEF Running, Frames, Depth
  <2> QED
    BY <2>2 DEF Inv, FrameInv, Placed
<1>2. SUFFICES ASSUME NEW v \in Workers, NEW w \in Workers,
                      NEW i \in Running(v), NEW j \in Running(w)
               PROVE  /\ stack[w][j].key = stack[v][i].key => v = w /\ i = j
                      /\ stack[v][i].key \in cache => i = 1 /\ pc[v] \in {"remove", "signal"}
                      /\ active[stack[v][i].key] # "started" => i = 1 /\ pc[v] = "signal"
  BY DEF OneRun
<1>3. /\ i \in Frames(v) /\ ~stack[v][i].is_task /\ stack[v][i].key \in Keys
      /\ j \in Frames(w) /\ ~stack[w][j].is_task
  BY <1>1
<1>4. stack[v][i].key # None /\ Live(v) /\ Alone
  BY <1>3, ConstantsAssumption DEF Inv, FrameInv
<1>5. stack[w][j].key = stack[v][i].key => v = w /\ i = j
  BY <1>3, <1>4 DEF Alone
<1> QED
  BY <1>3, <1>4, <1>5 DEF Live, Ending

\* Active, blocked and sleeping threads are all the workers.
LEMMA InvCounts ==
  ASSUME Inv PROVE CountsExact
<1> DEFINE asleep == {w \in Workers : Asleep(w)}
           B == Cardinality(BlockedSet)
           A == Cardinality(ActiveSet)
           S == Cardinality(asleep)
           N == Cardinality(Workers)
<1>1. BlockedSet \subseteq Workers /\ ActiveSet \subseteq Workers /\ asleep \subseteq Workers
  BY DEF BlockedSet, ActiveSet
<1>2. A \in Nat /\ B \in Nat /\ S \in Nat /\ N \in Nat
  BY <1>1, WorkerSets
<1>3. BlockedSet \cap asleep = {}
  <2>1. Resumes
    BY DEF Inv, WaitInv
  <2> QED
    BY <2>1 DEF BlockedSet, Asleep, Resumes
<1>4. Cardinality(ActiveSet \cup BlockedSet) = A + B
  BY <1>1, DisjointSets DEF ActiveSet
<1>5. /\ ActiveSet \cup BlockedSet \subseteq Workers
      /\ (ActiveSet \cup BlockedSet) \cap asleep = {}
      /\ (ActiveSet \cup BlockedSet) \cup asleep = Workers
  BY <1>1, <1>3 DEF ActiveSet
<1>6. Cardinality((ActiveSet \cup BlockedSet) \cup asleep)
        = Cardinality(ActiveSet \cup BlockedSet) + S
  BY <1>1, <1>5, DisjointSets
<1>7. N = A + B + S
  BY <1>2, <1>4, <1>5, <1>6
<1>8. count = [active |-> A, blocked |-> B]
  BY DEF Inv, CountInv
<1> HIDE DEF A, B, S, N
<1>9. count \in [active : 0 .. N, blocked : 0 .. N] /\ count.blocked = B /\ count.active = A
  BY <1>2, <1>7, <1>8
<1>10. count \in [active : 0 .. Cardinality(Workers), blocked : 0 .. Cardinality(Workers)]
  BY <1>9 DEF N
<1>11. TypeOK
  <2>1. Typed
    BY DEF Inv
  <2> QED
    BY <1>10, <2>1 DEF Typed, TypeOK, TaskState
<1>12. count.active + B + S = N
  BY <1>2, <1>7, <1>9
<1> QED
  BY <1>9, <1>11, <1>12 DEF CountsExact, BlockedSet, A, B, S, N

\* A thread that is listed, or that a list is locked by, waits.
LEMMA InvNotify ==
  ASSUME Inv PROVE NotifyFindsWaiter
<1>0. Typed /\ Base /\ FrameInv /\ WaitInv /\ Resumes
  BY DEF Inv, Base, FrameInv, WaitInv
<1>1. ASSUME NEW w \in Workers, pc[w] \in {"mark_blocked", "wait", "waiting"}, w # handler.waiter
      PROVE  \/ w \in ToSet(waiters[want[w]]) /\ active[want[w]] = "started"
             \/ \E v \in Workers : /\ pc[v] = "signal" /\ Top(v).key = want[w]
                                   /\ w \in ToSet(waiters[want[w]])
  <2>1. PICK k \in Keys : k = want[w]
    BY <1>0, <1>1 DEF FrameInv, Placed, Asking
  <2>2. w \in Listed(k) /\ Latched(k)
    BY <1>0, <1>1, <2>1 DEF WaitInv, Waits
  <2>3. Owed(k)
    BY <2>2 DEF Latched
  <2>4. \A v \in Workers : pc[v] = "signal" => Top(v) = stack[v][1]
    BY <1>0, HasTop DEF Idle
  <2> QED
    BY <2>1, <2>2, <2>3, <2>4 DEF Owed, Listed
<1>2. WaitersListed
  <2>1. \A w \in Workers : w = handler.waiter => handler.pc # "off"
    BY <1>0, ConstantsAssumption DEF Resumes
  <2> QED
    BY <1>1, <2>1 DEF WaitersListed
<1>3. handler.pc = "notify" => pc[handler.waiter] = "waiting"
  BY <1>0 DEF Resumes
<1>4. ASSUME NEW k \in Keys, wlock[k] = None, NEW w \in ToSet(waiters[k])
      PROVE  pc[w] = "waiting" /\ want[w] = k
  <2>1. w \in Workers
    <3>1. waiters[k] \in Seq(Workers)
      BY <1>0 DEF Typed
    <3> QED
      BY <1>4, <3>1 DEF ToSet
  <2>2. want[w] = k /\ pc[w] \in {"mark_blocked", "wait", "waiting"}
    BY <1>0, <1>4 DEF WaitInv, Latched, Listed
  <2>3. wlock[k] # w
    BY <1>4, <2>1, ConstantsAssumption
  <2> QED
    BY <1>0, <2>1, <2>2, <2>3 DEF WaitInv, Waits
<1> QED
  BY <1>2, <1>3, <1>4 DEF NotifyFindsWaiter

\* What a wait that no cycle ended comes back with.
LEMMA InvResult ==
  ASSUME Inv PROVE ResultAfterWait
BY DEF Inv, WaitInv, Waits, Settled, ResultAfterWait

-----------------------------------------------------------------------------
(* What the deadlock handler finds. *)

\* Nobody runs, and the handler has not begun.
Stopped ==
  /\ handler.pc = "off" /\ handler.waiter = None
  /\ \A w \in Workers : Asleep(w) \/ pc[w] \in {"wait", "waiting"}

\* When the handler is started everybody sleeps or waits, and somebody waits.
LEMMA SpawnedStopped ==
  ASSUME Inv, handler.spawned > 0
  PROVE  Stopped /\ handler.spawned = 1 /\ \E w \in Workers : pc[w] \in {"wait", "waiting"}
<1>1. /\ handler.spawned = 1 /\ handler.pc = "off" /\ ActiveSet = {} /\ BlockedSet # {}
  BY DEF Inv, CountInv
<1>2. handler.waiter = None
  BY <1>1 DEF Inv, WaitInv, Resumes
<1>3. ASSUME NEW w \in Workers PROVE w \in BlockedSet <=> pc[w] \in {"wait", "waiting"}
  BY <1>1, <1>2, ConstantsAssumption DEF BlockedSet
<1>4. BlockedSet \subseteq Workers
  BY DEF BlockedSet
<1> QED
  BY <1>1, <1>2, <1>3, <1>4 DEF Stopped, ActiveSet

\* The waiters of a job as collect_active_query_jobs sees them.
LEMMA MapOf ==
  ASSUME Typed, NEW k \in Started
  PROVE  /\ k \in Keys /\ DOMAIN JobMap = Started /\ waiters[k] \in Seq(Workers)
         /\ Len(JobMap[k]) = Len(waiters[k]) + 1 /\ Len(JobMap[k]) \in Nat \ {0}
         /\ DOMAIN JobMap[k] = 1 .. Len(JobMap[k])
         /\ JobMap[k][1] = [parent |-> parent[k], resumable |-> None]
         /\ \A i \in 1 .. Len(waiters[k]) :
              JobMap[k][i + 1] = [parent |-> Current(waiters[k][i]), resumable |-> waiters[k][i]]
<1>1. k \in Keys /\ waiters[k] \in Seq(Workers)
  BY DEF Typed, Started
<1> DEFINE first == [parent |-> parent[k], resumable |-> None]
           other(i) == [parent |-> Current(waiters[k][i]), resumable |-> waiters[k][i]]
           rest == [i \in DOMAIN waiters[k] |-> other(i)]
           Entries == {first} \cup {other(i) : i \in DOMAIN waiters[k]}
<1>2. JobMap[k] = <<first>> \o rest /\ DOMAIN JobMap = Started
  BY DEF JobMap, WaitersOf
<1>3. Len(waiters[k]) \in Nat /\ DOMAIN waiters[k] = 1 .. Len(waiters[k])
  BY <1>1
<1>4. first \in Entries /\ \A i \in 1 .. Len(waiters[k]) : other(i) \in Entries
  BY <1>3
<1>5. rest = [i \in 1 .. Len(waiters[k]) |-> other(i)]
  BY <1>3
<1> HIDE DEF first, other, Entries
<1>6. rest \in Seq(Entries) /\ Len(rest) = Len(waiters[k])
      /\ \A i \in 1 .. Len(waiters[k]) : rest[i] = other(i)
  BY <1>3, <1>4, <1>5
<1> HIDE DEF rest
<1>7. <<first>> \in Seq(Entries) /\ Len(<<first>>) = 1 /\ <<first>>[1] = first
  BY <1>4
<1> DEFINE all == <<first>> \o rest
<1>8. all \in Seq(Entries) /\ Len(all) = Len(waiters[k]) + 1
  BY <1>3, <1>6, <1>7
<1>9. all[1] = first /\ \A i \in 1 .. Len(waiters[k]) : all[i + 1] = rest[i]
  BY <1>3, <1>6, <1>7
<1>10. DOMAIN all = 1 .. Len(all) /\ Len(all) \in Nat \ {0}
  BY <1>3, <1>8
<1> HIDE DEF all
<1>11. JobMap[k] = all
  BY <1>2 DEF all
<1> HIDE DEF JobMap
<1> QED
  BY <1>1, <1>2, <1>6, <1>8, <1>9, <1>10, <1>11 DEF first, other
\* A thread that waits is a waiter of an active job, from its current query.
LEMMA WaiterListed ==
  ASSUME Inv, Stopped, NEW w \in Workers, pc[w] \in {"wait", "waiting"}
  PROVE  \E q \in Started : \E i \in DOMAIN JobMap[q] : JobMap[q][i].parent = stack[w][1].key
<1>0. Typed /\ Base /\ FrameInv /\ WaitInv
  BY DEF Inv, Base, FrameInv
<1>1. PICK q \in Keys : q = want[w]
  BY <1>0 DEF FrameInv, Placed, Asking
<1>2. w \in Listed(q) /\ Latched(q)
  BY <1>0, <1>1, ConstantsAssumption DEF WaitInv, Waits, Stopped
<1>3. q \in Started
  <2>1. Owed(q)
    BY <1>2 DEF Latched
  <2>2. \A v \in Workers : pc[v] # "signal"
    BY DEF Stopped, Asleep
  <2> QED
    BY <2>1, <2>2 DEF Owed, Started
<1>4. PICK i \in DOMAIN waiters[q] : waiters[q][i] = w
  BY <1>2 DEF Listed, ToSet
<1>5. waiters[q] \in Seq(Workers) /\ Len(JobMap[q]) = Len(waiters[q]) + 1
      /\ DOMAIN JobMap[q] = 1 .. Len(JobMap[q])
      /\ \A h \in 1 .. Len(waiters[q]) :
           JobMap[q][h + 1] = [parent |-> Current(waiters[q][h]), resumable |-> waiters[q][h]]
  BY <1>0, <1>3, MapOf
<1> HIDE DEF JobMap
<1>6. i \in 1 .. Len(waiters[q]) /\ i + 1 \in DOMAIN JobMap[q]
  BY <1>4, <1>5
<1>7. JobMap[q][i + 1].parent = Current(w)
  <2>1. JobMap[q][i + 1] = [parent |-> Current(waiters[q][i]), resumable |-> waiters[q][i]]
    BY <1>5, <1>6
  <2>2. JobMap[q][i + 1] = [parent |-> Current(w), resumable |-> w]
    BY <1>4, <2>1, Zenon
  <2> QED
    BY <2>2
<1>8. Current(w) = stack[w][1].key
  BY <1>0, TopOf
<1> QED
  BY <1>3, <1>6, <1>7, <1>8

\* A job's parent is its first waiter.
LEMMA ParentListed ==
  ASSUME Inv, Stopped, NEW v \in Workers, NEW i \in Frames(v), i # 1, ~stack[v][i - 1].is_task
  PROVE  \E q \in Started : \E h \in DOMAIN JobMap[q] : JobMap[q][h].parent = stack[v][i].key
<1>0. Typed /\ FrameInv /\ Placed(v) /\ Framed(v) /\ pc[v] # "signal"
  BY DEF Inv, FrameInv, Stopped, Asleep
<1>1. Depth(v) \in Nat
  BY <1>0 DEF Typed, Depth
<1>2. i - 1 \in Frames(v) /\ (i - 1) + 1 = i
  BY <1>1 DEF Frames
<1>3. PICK h \in Frames(v) : h = i - 1 /\ h + 1 = i
  BY <1>2
<1>4. PICK q \in Keys : q = stack[v][h].key
  BY <1>0, <1>3 DEF Placed
<1>5. parent[q] = stack[v][i].key
  BY <1>0, <1>3, <1>4 DEF Framed
<1>6. q \in Started
  BY <1>0, <1>4, KeysStarted, ConstantsAssumption
<1>7. JobMap[q][1] = [parent |-> parent[q], resumable |-> None] /\ 1 \in DOMAIN JobMap[q]
  BY <1>0, <1>6, MapOf
<1> HIDE DEF JobMap
<1> QED
  BY <1>5, <1>6, <1>7

\* A task that was taken is held up by somebody: its query is waited from.
LEMMA TaskHeldUp ==
  ASSUME Inv, Stopped, NEW v \in Workers, NEW i \in Frames(v), stack[v][i].is_task
  PROVE  \E q \in Started : \E h \in DOMAIN JobMap[q] : JobMap[q][h].parent = stack[v][i].key
<1>0. Typed /\ FrameInv /\ Placed(v) /\ Framed(v)
  BY DEF Inv, FrameInv
<1>1. Depth(v) \in Nat /\ i \in 1 .. Depth(v)
  BY <1>0 DEF Typed, Depth, Frames
<1>2. CASE i = 1
  <2>1. pc[v] \notin Idle \cup Joining
    BY <1>0, <1>1, <1>2 DEF Placed, Idle, Joining
  <2>2. pc[v] \in {"wait", "waiting"}
    BY <2>1 DEF Stopped, Asleep, Idle, Joining
  <2> QED
    BY <1>2, <2>2, WaiterListed
<1>3. CASE i # 1
  <2>1. PICK h \in Frames(v) : h = i - 1 /\ h + 1 = i
    BY <1>1, <1>3 DEF Frames
  <2>2. ~stack[v][h].is_task
    BY <1>0, <2>1 DEF Framed
  <2> QED
    BY <1>3, <2>1, <2>2, ParentListed
<1> QED
  BY <1>2, <1>3

\* When nobody runs, every active job is waited from.
LEMMA JobHeldUp ==
  ASSUME Inv, Stopped, NEW k \in Started
  PROVE  \E q \in Started : \E h \in DOMAIN JobMap[q] : JobMap[q][h].parent = k
<1>0. Typed /\ FrameInv
  BY DEF Inv
<1>1. k \in Keys /\ active[k] = "started" /\ k # None
  BY ConstantsAssumption DEF Started
<1>2. PICK v \in Workers : \E i \in Frames(v) : ~stack[v][i].is_task /\ stack[v][i].key = k
  BY <1>0, <1>1 DEF FrameInv, Owned
<1>3. PICK i \in Frames(v) : ~stack[v][i].is_task /\ stack[v][i].key = k
  BY <1>2
<1>4. Placed(v) /\ Framed(v) /\ Live(v) /\ Depth(v) \in Nat /\ i \in 1 .. Depth(v)
  BY <1>0 DEF FrameInv, Typed, Depth, Frames
<1>5. CASE i # 1
  <2>1. CASE ~stack[v][i - 1].is_task
    BY <1>3, <1>5, <2>1, ParentListed
  <2>2. CASE stack[v][i - 1].is_task
    <3>1. PICK h \in Frames(v) : h = i - 1 /\ h + 1 = i
      BY <1>4, <1>5 DEF Frames
    <3>2. stack[v][h].is_task /\ stack[v][h].key = k
      BY <1>3, <1>4, <2>2, <3>1 DEF Framed
    <3> QED
      BY <3>2, TaskHeldUp
  <2> QED
    BY <2>1, <2>2
<1>6. CASE i = 1 /\ pc[v] \in {"wait", "waiting"}
  BY <1>3, <1>6, WaiterListed
<1>7. CASE i = 1 /\ pc[v] \notin {"wait", "waiting"}
  <2>1. pc[v] = "join_asleep"
    BY <1>4, <1>7 DEF Stopped, Asleep, Placed
  <2>2. task[k].st = "taken"
    BY <1>3, <1>4, <1>7, <2>1 DEF Live
  <2>3. PICK u \in Workers : \E h \in Frames(u) : stack[u][h].is_task /\ stack[u][h].key = k
    BY <1>0, <1>1, <2>2 DEF FrameInv, Owned
  <2> QED
    BY <2>3, TaskHeldUp
<1> QED
  BY <1>5, <1>6, <1>7

\* The map of jobs is a wait graph, and parents lead to the root.
LEMMA MapIsWaitGraph ==
  ASSUME Inv, Stopped
  PROVE  /\ IsWaitGraph(JobMap) /\ Rooted(JobMap) /\ DOMAIN JobMap = Started
         /\ \A k \in Started : \A i \in DOMAIN JobMap[k] :
              JobMap[k][i].resumable \in Workers \cup {None}
<1>0. Typed /\ FrameInv /\ WaitInv /\ Base
  BY DEF Inv, FrameInv, Base
<1>1. Started \subseteq Keys /\ IsFiniteSet(Started) /\ None \notin Started
  BY ConstantsAssumption, FS_Subset DEF Started
<1>2. DOMAIN JobMap = Started
  BY DEF JobMap
<1>3. ASSUME NEW k \in Started
      PROVE  /\ Len(JobMap[k]) \in Nat \ {0} /\ DOMAIN JobMap[k] = 1 .. Len(JobMap[k])
             /\ \A i \in DOMAIN JobMap[k] :
                  /\ JobMap[k][i].parent \in Started \cup {None}
                  /\ IF i = 1 THEN JobMap[k][i].resumable = None
                              ELSE JobMap[k][i].resumable \in Workers
  <2>1. /\ k \in Keys /\ waiters[k] \in Seq(Workers)
        /\ Len(JobMap[k]) = Len(waiters[k]) + 1 /\ Len(JobMap[k]) \in Nat \ {0}
        /\ DOMAIN JobMap[k] = 1 .. Len(JobMap[k])
        /\ JobMap[k][1] = [parent |-> parent[k], resumable |-> None]
        /\ \A i \in 1 .. Len(waiters[k]) :
             JobMap[k][i + 1] = [parent |-> Current(waiters[k][i]), resumable |-> waiters[k][i]]
    BY <1>0, MapOf
  <2> HIDE DEF JobMap
  <2>2. JobMap[k][1].parent \in Started \cup {None} /\ JobMap[k][1].resumable = None
    BY <1>0, <2>1, ParentStarted
  <2>3. ASSUME NEW i \in 1 .. Len(waiters[k])
        PROVE  /\ JobMap[k][i + 1].parent \in Started \cup {None}
               /\ JobMap[k][i + 1].resumable \in Workers
    <3>1. PICK w \in Workers : w = waiters[k][i]
      BY <2>1
    <3>2. w \in Listed(k)
      BY <2>1, <3>1 DEF Listed, ToSet
    <3>3. pc[w] \in {"mark_blocked", "wait", "waiting"}
      BY <1>0, <2>1, <3>2 DEF WaitInv, Latched
    <3>4. 1 \in Frames(w) /\ Current(w) = stack[w][1].key
      BY <1>0, <3>3, HasTop, TopOf DEF Idle
    <3>5. Current(w) \in Started \cup {None}
      BY <1>0, <3>3, <3>4, KeysStarted
    <3>6. JobMap[k][i + 1] = [parent |-> Current(waiters[k][i]), resumable |-> waiters[k][i]]
      BY <2>1
    <3>7. JobMap[k][i + 1] = [parent |-> Current(w), resumable |-> w]
      BY <3>1, <3>6, Zenon
    <3> QED
      BY <3>5, <3>7
  <2>4. ASSUME NEW i \in DOMAIN JobMap[k], i # 1
        PROVE  JobMap[k][i].parent \in Started \cup {None} /\ JobMap[k][i].resumable \in Workers
    <3>1. PICK h \in 1 .. Len(waiters[k]) : i = h + 1
      <4>1. Len(waiters[k]) \in Nat /\ i - 1 \in 1 .. Len(waiters[k]) /\ i = (i - 1) + 1
        BY <2>1, <2>4
      <4> QED
        BY <4>1
    <3> QED
      BY <2>3, <3>1
  <2> QED
    BY <2>1, <2>2, <2>4
<1>4. ASSUME NEW k \in Started PROVE JobMap[k][1].parent = parent[k]
  <2>1. JobMap[k][1] = [parent |-> parent[k], resumable |-> None]
    BY <1>0, MapOf
  <2> HIDE DEF JobMap
  <2> QED
    BY <2>1
<1> HIDE DEF JobMap
<1>5. IsWaitGraph(JobMap)
  BY <1>1, <1>2, <1>3, ConstantsAssumption DEF IsWaitGraph
<1>6. Rooted(JobMap)
  BY <1>0, <1>2, <1>4 DEF FrameInv, Grounded, Rooted
<1> QED
  BY <1>2, <1>3, <1>5, <1>6

\* What the handler meets when it is started.
LEMMA InvHandler ==
  ASSUME Inv PROVE HandlerFindsCycle
<1>1. SUFFICES ASSUME handler.spawned > 0
               PROVE  /\ handler.spawned = 1 /\ handler.pc = "off"
                      /\ \A w \in Workers : Asleep(w) \/ pc[w] \in {"wait", "waiting"}
                      /\ \A k \in Started : \A i \in DOMAIN JobMap[k] :
                           JobMap[k][i].parent \in Started \cup {None}
                      /\ Endless(JobMap) # {}
                      /\ \A k \in Endless(JobMap) :
                           /\ ResumedFrom(JobMap, k) # None
                           /\ EntryPoints(JobMap, CycleFrom(JobMap, k)) # {}
  BY Zenon DEF HandlerFindsCycle
<1>2. Stopped /\ handler.spawned = 1 /\ \E w \in Workers : pc[w] \in {"wait", "waiting"}
  BY <1>1, SpawnedStopped
<1>3. /\ IsWaitGraph(JobMap) /\ Rooted(JobMap) /\ DOMAIN JobMap = Started
      /\ \A k \in Started : \A i \in DOMAIN JobMap[k] :
           JobMap[k][i].resumable \in Workers \cup {None}
  BY <1>2, MapIsWaitGraph
<1>4. Started # {}
  BY <1>2, WaiterListed
<1>5. \A k \in Started : \E q \in Started : \E i \in DOMAIN JobMap[q] : JobMap[q][i].parent = k
  BY <1>2, JobHeldUp
<1> HIDE DEF JobMap
<1>6. ASSUME NEW j \in Started, NEW i \in DOMAIN JobMap[j], JobMap[j][i].resumable # None
      PROVE  [waitee |-> j, waiter |-> JobMap[j][i].resumable] # None
  BY <1>3, <1>6, ConstantsAssumption DEF Started
<1>7. Endless(JobMap) # {}
  BY <1>3, <1>4, <1>5, CycleExists
<1>8. ASSUME NEW k \in Endless(JobMap)
      PROVE  /\ ResumedFrom(JobMap, k) # None
             /\ EntryPoints(JobMap, CycleFrom(JobMap, k)) # {}
  BY <1>3, <1>6, ResumableFound, EntryPointFound
<1> QED
  BY <1>2, <1>3, <1>7, <1>8 DEF Stopped, IsWaitGraph

-----------------------------------------------------------------------------
\* Whatever the call graph, the workers and the panics: a query is executed by
\* one thread at a time, never again once it has a value, and never again
\* once it was poisoned (try_execute_query, ActiveJobGuard).
THEOREM QueryRunsOnce == Spec => []OneRun
BY QueryInvariant, InvOneRun, PTL

\* SleepData's active and blocked threads are the threads they count, through
\* mark_blocked, QueryLatch::set, the deadlock handler's mark_unblocked and
\* sleeping: neither counter wraps.
THEOREM QueryCountsExact == Spec => []CountsExact
BY QueryInvariant, InvCounts, PTL

\* A thread that waits on a latch is listed by a query that is still executed,
\* or about to be notified; every notify_one finds its thread in condvar.wait
\* (QueryLatch::wait_on and set, break_query_cycle).
THEOREM QueryNotifyFindsWaiter == Spec => []NotifyFindsWaiter
BY QueryInvariant, InvNotify, PTL

\* "query result must be in the cache or the query must be poisoned after a
\* wait" (wait_for_query), unless the wait was ended by the deadlock handler.
THEOREM QueryResultAfterWait == Spec => []ResultAfterWait
BY QueryInvariant, InvResult, PTL

\* The deadlock handler is started once, when every worker sleeps or waits; the
\* map of jobs then holds a cycle, find_cycle meets a resumable waiter and
\* process_cycle an entry point from wherever the search starts, so that
\* none of break_query_cycle's panics is reached.
THEOREM QueryHandlerFindsCycle == Spec => []HandlerFindsCycle
BY QueryInvariant, InvHandler, PTL

-----------------------------------------------------------------------------
(***************************************************************************)
(* The searches of QueryCycle.  How much of a search is left: a loop over  *)
(* waiters that goes on has one waiter less ahead of it, and a call visits *)
(* a job that had not been visited.                                        *)
(***************************************************************************)

\* The steps of a search: 0 is the call for the job j, k its k-th waiter.
Steps(graph) == UNION {{j} \X (0 .. Len(graph[j])) : j \in DOMAIN graph}

\* Those ahead of a loop that has come to the i-th waiter of q.
Ahead(graph, q, i, vis) ==
  {x \in Steps(graph) : x[1] \notin vis \/ (x[1] = q /\ x[2] >= i)}

Rank(graph, q, i, vis) == Cardinality(Ahead(graph, q, i, vis))

\* There are finitely many steps.
LEMMA StepsFinite ==
  ASSUME NEW graph, IsWaitGraph(graph)
  PROVE  IsFiniteSet(Steps(graph))
<1> DEFINE part == [j \in DOMAIN graph |-> {j} \X (0 .. Len(graph[j]))]
           Parts == {part[j] : j \in DOMAIN graph}
<1>1. part \in Surjection(DOMAIN graph, Parts)
  BY DEF Surjection
<1>2. IsFiniteSet(Parts)
  BY <1>1, FS_Surjection DEF IsWaitGraph
<1>3. ASSUME NEW j \in DOMAIN graph PROVE IsFiniteSet({j} \X (0 .. Len(graph[j])))
  <2>1. IsFiniteSet({j})
    BY FS_Singleton
  <2>2. Len(graph[j]) \in Int /\ 0 \in Int
    BY DEF IsWaitGraph
  <2>3. IsFiniteSet(0 .. Len(graph[j]))
    BY <2>2, FS_Interval
  <2> QED
    BY <2>1, <2>3, FS_Product
<1>4. \A T \in Parts : IsFiniteSet(T)
  BY <1>3
<1>5. Steps(graph) = UNION Parts
  BY DEF Steps
<1> QED
  BY <1>2, <1>4, <1>5, FS_UNION

\* A set that has lost an element is smaller.
LEMMA Smaller ==
  ASSUME NEW T, IsFiniteSet(T), NEW S \in SUBSET T, NEW x \in T, x \notin S
  PROVE  Cardinality(S) < Cardinality(T)
<1>1. IsFiniteSet(S) /\ Cardinality(S) <= Cardinality(T) /\ Cardinality(S) # Cardinality(T)
  BY FS_Subset
<1>2. Cardinality(S) \in Nat /\ Cardinality(T) \in Nat
  BY <1>1, FS_CardinalityType
<1> QED
  BY <1>1, <1>2

\* A step of a search.
LEMMA StepsAre ==
  ASSUME NEW graph
  PROVE  /\ \A j \in DOMAIN graph : \A k \in 0 .. Len(graph[j]) : <<j, k>> \in Steps(graph)
         /\ \A x \in Steps(graph) :
              x[1] \in DOMAIN graph /\ x[2] \in 0 .. Len(graph[x[1]])
BY DEF Steps

\* A rank is a number, and not more than the number of steps.
LEMMA RankNat ==
  ASSUME NEW graph, IsWaitGraph(graph), NEW q, NEW i, NEW vis
  PROVE  /\ Rank(graph, q, i, vis) \in Nat /\ Cardinality(Steps(graph)) \in Nat
         /\ Rank(graph, q, i, vis) <= Cardinality(Steps(graph))
         /\ IsFiniteSet(Ahead(graph, q, i, vis))
<1>1. Ahead(graph, q, i, vis) \in SUBSET Steps(graph) /\ IsFiniteSet(Steps(graph))
  BY StepsFinite DEF Ahead
<1> QED
  BY <1>1, FS_Subset, FS_CardinalityType DEF Rank

\* The loop goes on to its next waiter.
LEMMA RankNext ==
  ASSUME NEW graph, IsWaitGraph(graph), NEW q \in DOMAIN graph, NEW i \in 1 .. Len(graph[q]),
         NEW vis, NEW now, vis \subseteq now, q \in vis
  PROVE  Rank(graph, q, i + 1, now) < Rank(graph, q, i, vis)
<1> DEFINE A == Ahead(graph, q, i, vis)
           B == Ahead(graph, q, i + 1, now)
<1>0. Len(graph[q]) \in Nat /\ i \in 0 .. Len(graph[q])
  BY DEF IsWaitGraph
<1>1. <<q, i>> \in A /\ <<q, i>> \notin B
  BY <1>0, StepsAre DEF Ahead
<1>2. ASSUME NEW x \in B PROVE x \in A
  <2>1. x \in Steps(graph) /\ x[1] \in DOMAIN graph /\ x[2] \in 0 .. Len(graph[x[1]])
    BY StepsAre DEF Ahead
  <2>2. Len(graph[x[1]]) \in Nat
    BY <2>1 DEF IsWaitGraph
  <2>3. x[1] \notin now \/ (x[1] = q /\ x[2] >= i + 1)
    BY DEF Ahead
  <2>4. x[1] \notin vis \/ (x[1] = q /\ x[2] >= i)
    BY <1>0, <2>1, <2>2, <2>3
  <2> QED
    BY <2>1, <2>4 DEF Ahead
<1>3. IsFiniteSet(A)
  BY RankNat
<1> HIDE DEF A, B
<1>4. B \in SUBSET A
  BY <1>2
<1>5. Cardinality(B) < Cardinality(A)
  BY <1>1, <1>3, <1>4, Smaller
<1> QED
  BY <1>5 DEF Rank, A, B

\* A job that has not been visited is.
LEMMA RankCall ==
  ASSUME NEW graph, IsWaitGraph(graph), NEW q, NEW i, NEW vis,
         NEW p \in DOMAIN graph, p \notin vis
  PROVE  Rank(graph, p, 1, vis \cup {p}) < Rank(graph, q, i, vis)
<1> DEFINE A == Ahead(graph, q, i, vis)
           B == Ahead(graph, p, 1, vis \cup {p})
<1>0. Len(graph[p]) \in Nat /\ 0 \in 0 .. Len(graph[p])
  BY DEF IsWaitGraph
<1>1. <<p, 0>> \in A /\ <<p, 0>> \notin B
  BY <1>0, StepsAre DEF Ahead
<1>2. ASSUME NEW x \in B PROVE x \in A
  BY DEF Ahead
<1>3. IsFiniteSet(A)
  BY RankNat
<1> HIDE DEF A, B
<1>4. B \in SUBSET A
  BY <1>2
<1>5. Cardinality(B) < Cardinality(A)
  BY <1>1, <1>3, <1>4, Smaller
<1> QED
  BY <1>5 DEF Rank, A, B

-----------------------------------------------------------------------------
(* What find_cycle does in one step. *)

\* The loops that the loop c needs: it goes on, or calls for the job p.
Thereafter(c, v) == [c EXCEPT !.i = @ + 1, !.visited = v]
Called(c, p) ==
  [query |-> p, i |-> 1, stack |-> Append(c.stack, p), visited |-> c.visited \cup {p}]

Ranked(graph, c) == Rank(graph, c.query, c.i, c.visited)
LoopsBelow(graph, c) == {d \in Loops(graph) : Ranked(graph, d) < Ranked(graph, c)}

\* What a loop returns; the jobs visited are not forgotten.
Threads(graph) == UNION {{graph[j][i].resumable : i \in DOMAIN graph[j]} : j \in DOMAIN graph}
Flow(graph) ==
  [break : BOOLEAN, resumable : {None} \cup [waitee : DOMAIN graph, waiter : Threads(graph)],
   stack : Seq(DOMAIN graph)]
Outcome(graph) == [flow : Flow(graph), visited : SUBSET DOMAIN graph]
Good(graph, c, r) == r \in Outcome(graph) /\ c.visited \subseteq r.visited

\* A loop by its parts.
LEMMA LoopFields ==
  ASSUME NEW graph, NEW c \in Loops(graph)
  PROVE  /\ c \in [query : DOMAIN graph, i : Nat \ {0}, stack : Seq(DOMAIN graph),
                   visited : SUBSET DOMAIN graph]
         /\ c.query \in DOMAIN graph /\ c.i \in Nat \ {0} /\ c.stack \in Seq(DOMAIN graph)
         /\ c.visited \subseteq DOMAIN graph /\ c.query \in c.visited
BY DEF Loops

\* The next waiter.
LEMMA NextBelow ==
  ASSUME NEW graph, IsWaitGraph(graph), NEW c \in Loops(graph),
         c.i \in 1 .. Len(graph[c.query]), NEW v \in SUBSET DOMAIN graph, c.visited \subseteq v
  PROVE  /\ Thereafter(c, v) \in LoopsBelow(graph, c)
         /\ Thereafter(c, v).query = c.query /\ Thereafter(c, v).i = c.i + 1
         /\ Thereafter(c, v).stack = c.stack /\ Thereafter(c, v).visited = v
<1> DEFINE d == Thereafter(c, v)
<1>1. /\ d \in [query : DOMAIN graph, i : Nat \ {0}, stack : Seq(DOMAIN graph),
                visited : SUBSET DOMAIN graph]
      /\ d.query = c.query /\ d.i = c.i + 1 /\ d.stack = c.stack /\ d.visited = v
  <2>1. /\ c \in [query : DOMAIN graph, i : Nat \ {0}, stack : Seq(DOMAIN graph),
                   visited : SUBSET DOMAIN graph]
        /\ c.i \in Nat \ {0}
    BY LoopFields
  <2>2. c.i + 1 \in Nat \ {0}
    BY <2>1
  <2>3. PICK k \in Nat \ {0} : k = c.i + 1
    BY <2>2
  <2>4. d = [c EXCEPT !.i = k, !.visited = v]
    BY <2>3 DEF Thereafter
  <2> HIDE DEF d
  <2> QED
    BY <2>1, <2>3, <2>4
<1> HIDE DEF d
<1>2. d \in Loops(graph)
  BY <1>1, LoopFields DEF Loops
<1>3. Rank(graph, c.query, c.i + 1, v) < Rank(graph, c.query, c.i, c.visited)
  BY LoopFields, RankNext
<1>4. d \in LoopsBelow(graph, c)
  BY <1>1, <1>2, <1>3 DEF LoopsBelow, Ranked
<1> QED
  BY <1>1, <1>4 DEF d

\* The call.
LEMMA CallBelow ==
  ASSUME NEW graph, IsWaitGraph(graph), NEW c \in Loops(graph),
         NEW p \in DOMAIN graph, p \notin c.visited
  PROVE  Called(c, p) \in LoopsBelow(graph, c)
<1> DEFINE d == Called(c, p)
<1>1. Append(c.stack, p) \in Seq(DOMAIN graph)
  BY LoopFields, AppendProperties
<1>2. c.visited \cup {p} \in SUBSET DOMAIN graph
  BY LoopFields
<1>3. /\ d \in [query : DOMAIN graph, i : Nat \ {0}, stack : Seq(DOMAIN graph),
                visited : SUBSET DOMAIN graph]
      /\ d.query = p /\ d.i = 1 /\ d.visited = c.visited \cup {p}
  BY <1>1, <1>2 DEF Called
<1> HIDE DEF d
<1>4. d \in Loops(graph)
  BY <1>3 DEF Loops
<1>5. Rank(graph, p, 1, c.visited \cup {p}) < Rank(graph, c.query, c.i, c.visited)
  BY RankCall
<1>6. d \in LoopsBelow(graph, c)
  BY <1>3, <1>4, <1>5 DEF LoopsBelow, Ranked
<1> QED
  BY <1>6 DEF d

-----------------------------------------------------------------------------
\* The five things that a loop does with its next waiter.
Pointed(w, c, x) == IF w.resumable = None THEN x ELSE [waitee |-> c.query, waiter |-> w.resumable]
Broken(v, x, s) == [visited |-> v, flow |-> [break |-> TRUE, resumable |-> x, stack |-> s]]

Ended(graph, c, r) ==
  c.i > Len(graph[c.query]) /\ r = [flow |-> Continue, visited |-> c.visited]
Skips(graph, f, c, w, r) ==
  /\ w.parent = None \/ (w.parent \in c.visited /\ w.parent \notin ToSet(c.stack))
  /\ r = f[Thereafter(c, c.visited)]
Closes(graph, c, w, r) ==
  /\ w.parent \in c.visited /\ w.parent \in ToSet(c.stack)
  /\ r = Broken(c.visited, Pointed(w, c, None),
                SubSeq(c.stack, SelectInSeq(c.stack, LAMBDA q : q = w.parent), Len(c.stack)))
Passes(graph, f, c, w, r) ==
  /\ w.parent \in DOMAIN graph /\ w.parent \notin c.visited
  /\ ~f[Called(c, w.parent)].flow.break
  /\ r = f[Thereafter(c, f[Called(c, w.parent)].visited)]
Finds(graph, f, c, w, r) ==
  /\ w.parent \in DOMAIN graph /\ w.parent \notin c.visited
  /\ f[Called(c, w.parent)].flow.break
  /\ r = Broken(f[Called(c, w.parent)].visited,
                Pointed(w, c, f[Called(c, w.parent)].flow.resumable),
                f[Called(c, w.parent)].flow.stack)

LoopStep(graph, f, c, r) ==
  \/ Ended(graph, c, r)
  \/ /\ c.i \in 1 .. Len(graph[c.query])
     /\ LET w == graph[c.query][c.i] IN
        \/ Skips(graph, f, c, w, r) \/ Closes(graph, c, w, r)
        \/ Passes(graph, f, c, w, r) \/ Finds(graph, f, c, w, r)

\* The waiter that a loop has come to.
LEMMA LoopWaiter ==
  ASSUME NEW graph, IsWaitGraph(graph), NEW c \in Loops(graph), c.i \in 1 .. Len(graph[c.query])
  PROVE  LET w == graph[c.query][c.i] IN
         /\ w.parent \in DOMAIN graph \cup {None} /\ None \notin DOMAIN graph
         /\ w.resumable \in Threads(graph)
<1>1. c.query \in DOMAIN graph /\ c.i \in DOMAIN graph[c.query]
  BY LoopFields DEF IsWaitGraph
<1> QED
  BY <1>1 DEF IsWaitGraph, Threads

\* A record whose resumable waiter is replaced.
LEMMA Replaced ==
  ASSUME NEW graph, NEW r \in Outcome(graph), r.flow.break, NEW x
  PROVE  [r EXCEPT !.flow.resumable = x] = Broken(r.visited, x, r.flow.stack)
<1>1. r.flow \in Flow(graph) /\ r = [flow |-> r.flow, visited |-> r.visited]
  BY DEF Outcome
<1>2. PICK fl \in Flow(graph) : fl = r.flow
  BY <1>1
<1>3. PICK v : v = r.visited
  OBVIOUS
<1>4. [fl EXCEPT !.resumable = x] = [break |-> TRUE, resumable |-> x, stack |-> fl.stack]
  <2>1. fl.break = TRUE
    BY <1>2 DEF Flow
  <2>2. PICK b : b = fl.break
    OBVIOUS
  <2>3. [fl EXCEPT !.resumable = x] = [break |-> b, resumable |-> x, stack |-> fl.stack]
    BY <2>2 DEF Flow
  <2> QED
    BY <2>1, <2>2, <2>3, Zenon
<1>5. [r EXCEPT !.flow.resumable = x] = [flow |-> [fl EXCEPT !.resumable = x], visited |-> v]
  BY <1>1, <1>2, <1>3
<1> QED
  BY <1>2, <1>3, <1>4, <1>5 DEF Broken

\* What the body of the loop is.
LEMMA LoopSteps ==
  ASSUME NEW graph, IsWaitGraph(graph), NEW c \in Loops(graph), NEW f,
         \A d \in LoopsBelow(graph, c) : Good(graph, d, f[d])
  PROVE  LoopStep(graph, f, c, visit_waiters(graph, f, c))
<1>a. PICK R : R = visit_waiters(graph, f, c)
  OBVIOUS
<1>b. SUFFICES LoopStep(graph, f, c, R)
  BY <1>a
<1>0. /\ c.query \in DOMAIN graph /\ c.i \in Nat \ {0} /\ c.visited \subseteq DOMAIN graph
      /\ Len(graph[c.query]) \in Nat
  BY LoopFields DEF IsWaitGraph
<1>1. CASE c.i > Len(graph[c.query])
  <2>1. R = [flow |-> Continue, visited |-> c.visited]
    BY <1>1, <1>a DEF visit_waiters
  <2> QED
    BY <1>1, <2>1 DEF LoopStep, Ended
<1>2. CASE ~(c.i > Len(graph[c.query]))
  <2>1. c.i \in 1 .. Len(graph[c.query])
    BY <1>0, <1>2
  <2>2. PICK w : w = graph[c.query][c.i]
    OBVIOUS
  <2>3. w.parent \in DOMAIN graph \cup {None} /\ None \notin DOMAIN graph
    BY <2>1, <2>2, LoopWaiter
  <2> DEFINE r == find_cycle(f, w.parent, c.stack, c.visited)
  <2>4. /\ w.parent = None => R = Onward(f, c, c.visited)
        /\ w.parent # None /\ ~r.flow.break => R = Onward(f, c, r.visited)
        /\ w.parent # None /\ r.flow.break =>
             R = [r EXCEPT !.flow.resumable =
                    IF w.resumable = None THEN @ ELSE [waitee |-> c.query, waiter |-> w.resumable]]
    BY <1>2, <1>a, <2>2 DEF visit_waiters
  <2>5. \A v : Onward(f, c, v) = f[Thereafter(c, v)]
    BY DEF Onward, Thereafter
  <2>6. ASSUME r \in Outcome(graph), r.flow.break, w.parent # None
        PROVE  R = Broken(r.visited, Pointed(w, c, r.flow.resumable), r.flow.stack)
    <3>1. R = [r EXCEPT !.flow.resumable = Pointed(w, c, r.flow.resumable)]
      BY <2>4, <2>6 DEF Pointed
    <3> QED
      BY <2>6, <3>1, Replaced
  <2>7. CASE w.parent = None
    BY <2>1, <2>2, <2>4, <2>5, <2>7 DEF LoopStep, Skips
  <2>8. CASE w.parent \in c.visited /\ w.parent \in ToSet(c.stack)
    <3>0. PICK s : s = SubSeq(c.stack, SelectInSeq(c.stack, LAMBDA q : q = w.parent), Len(c.stack))
      OBVIOUS
    <3>1. r = Broken(c.visited, None, s)
      BY <2>8, <3>0 DEF find_cycle, Broken
    <3> HIDE DEF r
    <3>2. r.flow.break /\ r.visited = c.visited /\ r.flow.resumable = None /\ r.flow.stack = s
      BY <3>1 DEF Broken
    <3>3. w.parent # None
      BY <1>0, <2>3, <2>8
    <3>4. R = Broken(c.visited, Pointed(w, c, None), s)
      <4>1. R = [r EXCEPT !.flow.resumable = Pointed(w, c, None)]
        BY <2>4, <3>2, <3>3 DEF Pointed, r
      <4> QED
        BY <3>1, <4>1 DEF Broken
    <3>5. Closes(graph, c, w, R)
      BY <2>8, <3>0, <3>4 DEF Closes
    <3> QED
      BY <2>1, <2>2, <3>5 DEF LoopStep
  <2>9. CASE w.parent \in c.visited /\ w.parent \notin ToSet(c.stack)
    <3>1. r.visited = c.visited /\ r.flow = Continue /\ ~r.flow.break
      BY <2>9 DEF find_cycle, Continue
    <3>2. w.parent # None
      BY <1>0, <2>3, <2>9
    <3>3. Skips(graph, f, c, w, R)
      BY <2>4, <2>5, <2>9, <3>1, <3>2 DEF Skips
    <3> QED
      BY <2>1, <2>2, <3>3 DEF LoopStep
  <2>10. CASE w.parent # None /\ w.parent \notin c.visited
    <3>1. w.parent \in DOMAIN graph
      BY <2>3, <2>10
    <3>2. r = f[Called(c, w.parent)]
      BY <2>10 DEF find_cycle, Called
    <3>3. r \in Outcome(graph)
      BY <2>10, <3>1, <3>2, CallBelow DEF Good
    <3> HIDE DEF r
    <3>4. CASE r.flow.break
      <4>1. Finds(graph, f, c, w, R)
        BY <2>6, <2>10, <3>1, <3>2, <3>3, <3>4 DEF Finds
      <4> QED
        BY <2>1, <2>2, <4>1 DEF LoopStep
    <3>5. CASE ~r.flow.break
      <4>1. Passes(graph, f, c, w, R)
        BY <2>4, <2>5, <2>10, <3>1, <3>2, <3>5 DEF Passes, r
      <4> QED
        BY <2>1, <2>2, <4>1 DEF LoopStep
    <3> QED
      BY <3>4, <3>5
  <2> QED
    BY <2>7, <2>8, <2>9, <2>10
<1> QED
  BY <1>1, <1>2

\* Where x is in the sequence s.
PositionOf(s, x) == SelectInSeq(s, LAMBDA q : q = x)

\* It is there.
LEMMA Position ==
  ASSUME NEW S, NEW s \in Seq(S), NEW x, x \in ToSet(s)
  PROVE  PositionOf(s, x) \in 1 .. Len(s) /\ s[PositionOf(s, x)] = x
<1> DEFINE I == {i \in 1 .. Len(s) : s[i] = x}
<1>1. Len(s) \in Nat /\ DOMAIN s = 1 .. Len(s)
  BY LenProperties
<1>2. I # {} /\ I \subseteq Nat
  BY <1>1 DEF ToSet
<1>3. PICK m \in I : \A t \in I : m <= t
  BY <1>2, LeastNat
<1>4. Min(I) \in I
  BY <1>3 DEF Min
<1>5. PositionOf(s, x) = Min(I)
  BY <1>2 DEF PositionOf, SelectInSeq
<1> QED
  BY <1>4, <1>5

\* A loop that breaks out.
LEMMA BrokenGood ==
  ASSUME NEW graph, IsWaitGraph(graph), NEW c \in Loops(graph), c.i \in 1 .. Len(graph[c.query]),
         NEW v \in SUBSET DOMAIN graph, c.visited \subseteq v, NEW s \in Seq(DOMAIN graph),
         NEW x \in {None} \cup [waitee : DOMAIN graph, waiter : Threads(graph)]
  PROVE  Good(graph, c, Broken(v, Pointed(graph[c.query][c.i], c, x), s))
<1>1. PICK w : w = graph[c.query][c.i]
  OBVIOUS
<1>2. w.resumable \in Threads(graph) /\ c.query \in DOMAIN graph
  BY <1>1, LoopWaiter, LoopFields
<1>3. PICK y : y = Pointed(w, c, x)
  OBVIOUS
<1>4. y \in {None} \cup [waitee : DOMAIN graph, waiter : Threads(graph)]
  BY <1>2, <1>3 DEF Pointed
<1>5. Broken(v, y, s) \in Outcome(graph) /\ Broken(v, y, s).visited = v
  BY <1>4 DEF Broken, Outcome, Flow
<1> QED
  BY <1>1, <1>3, <1>5 DEF Good

\* What a loop returns is good if what it uses is.
LEMMA StepGood ==
  ASSUME NEW graph, IsWaitGraph(graph), NEW c \in Loops(graph), NEW f, NEW r,
         \A d \in LoopsBelow(graph, c) : Good(graph, d, f[d]), LoopStep(graph, f, c, r)
  PROVE  Good(graph, c, r)
<1>0. /\ c.query \in DOMAIN graph /\ c.visited \subseteq DOMAIN graph /\ c.stack \in Seq(DOMAIN graph)
      /\ Len(c.stack) \in Nat
  BY LoopFields, LenProperties
<1>1. CASE Ended(graph, c, r)
  <2>1. Continue \in Flow(graph)
    BY EmptySeq DEF Continue, Flow
  <2> QED
    BY <1>0, <1>1, <2>1 DEF Ended, Good, Outcome
<1>2. ASSUME c.i \in 1 .. Len(graph[c.query]), NEW v \in SUBSET DOMAIN graph, c.visited \subseteq v
      PROVE  Good(graph, c, f[Thereafter(c, v)])
  BY <1>2, NextBelow DEF Good
<1>3. CASE c.i \in 1 .. Len(graph[c.query])
  <2>1. PICK w : w = graph[c.query][c.i]
    OBVIOUS
  <2>2. CASE Skips(graph, f, c, w, r)
    BY <1>0, <1>2, <1>3, <2>2 DEF Skips
  <2>3. CASE Closes(graph, c, w, r)
    <3>1. PICK m : m = PositionOf(c.stack, w.parent)
      OBVIOUS
    <3>2. m \in 1 .. Len(c.stack)
      BY <1>0, <2>3, <3>1, Position DEF Closes
    <3>3. SubSeq(c.stack, m, Len(c.stack)) \in Seq(DOMAIN graph)
      <4>1. m \in Int /\ Len(c.stack) \in Int
        BY <1>0, <3>2
      <4>2. \A i \in m .. Len(c.stack) : c.stack[i] \in DOMAIN graph
        BY <1>0, <3>2, ElementOfSeq
      <4> QED
        BY <4>1, <4>2, SubSeqProperties
    <3>4. r = Broken(c.visited, Pointed(w, c, None), SubSeq(c.stack, m, Len(c.stack)))
      BY <2>3, <3>1 DEF Closes, PositionOf
    <3> QED
      BY <1>0, <1>3, <2>1, <3>3, <3>4, BrokenGood
  <2>4. CASE Passes(graph, f, c, w, r) \/ Finds(graph, f, c, w, r)
    <3>1. PICK p \in DOMAIN graph : p = w.parent /\ p \notin c.visited
      BY <2>4 DEF Passes, Finds
    <3>2. PICK b : b = f[Called(c, p)]
      OBVIOUS
    <3>3. b \in Outcome(graph) /\ c.visited \subseteq b.visited
      <4>1. Good(graph, Called(c, p), b)
        BY <3>1, <3>2, CallBelow
      <4> QED
        BY <4>1 DEF Good, Called
    <3>4. /\ b.visited \in SUBSET DOMAIN graph /\ b.flow.stack \in Seq(DOMAIN graph)
          /\ b.flow.resumable \in {None} \cup [waitee : DOMAIN graph, waiter : Threads(graph)]
      BY <3>3 DEF Outcome, Flow
    <3>5. CASE Passes(graph, f, c, w, r)
      <4>1. r = f[Thereafter(c, b.visited)]
        BY <3>1, <3>2, <3>5 DEF Passes
      <4> QED
        BY <1>2, <1>3, <3>3, <3>4, <4>1
    <3>6. CASE Finds(graph, f, c, w, r)
      <4>1. r = Broken(b.visited, Pointed(w, c, b.flow.resumable), b.flow.stack)
        BY <3>1, <3>2, <3>6 DEF Finds
      <4> QED
        BY <1>3, <2>1, <3>3, <3>4, <4>1, BrokenGood
    <3> QED
      BY <2>4, <3>5, <3>6
  <2> QED
    BY <1>1, <2>1, <2>2, <2>3, <2>4 DEF LoopStep
<1> QED
  BY <1>1, <1>3 DEF LoopStep

\* A loop depends on those below it only.
LEMMA StepLocal ==
  ASSUME NEW graph, IsWaitGraph(graph), NEW c \in Loops(graph), NEW f, NEW h, NEW r,
         \A d \in LoopsBelow(graph, c) : Good(graph, d, f[d]),
         \A d \in LoopsBelow(graph, c) : h[d] = f[d],
         LoopStep(graph, f, c, r)
  PROVE  LoopStep(graph, h, c, r)
<1>0. c.visited \subseteq DOMAIN graph
  BY LoopFields
<1>1. CASE Ended(graph, c, r)
  BY <1>1 DEF LoopStep
<1>2. ASSUME c.i \in 1 .. Len(graph[c.query]), NEW v \in SUBSET DOMAIN graph, c.visited \subseteq v
      PROVE  h[Thereafter(c, v)] = f[Thereafter(c, v)]
  BY <1>2, NextBelow
<1>3. CASE c.i \in 1 .. Len(graph[c.query])
  <2>1. PICK w : w = graph[c.query][c.i]
    OBVIOUS
  <2>2. CASE Skips(graph, f, c, w, r)
    <3>1. Skips(graph, h, c, w, r)
      BY <1>0, <1>2, <1>3, <2>2 DEF Skips
    <3> QED
      BY <1>3, <2>1, <3>1 DEF LoopStep
  <2>3. CASE Closes(graph, c, w, r)
    BY <1>3, <2>1, <2>3 DEF LoopStep
  <2>4. CASE Passes(graph, f, c, w, r) \/ Finds(graph, f, c, w, r)
    <3>1. PICK p \in DOMAIN graph : p = w.parent /\ p \notin c.visited
      BY <2>4 DEF Passes, Finds
    <3>2. PICK b : b = f[Called(c, p)] /\ b = h[Called(c, p)]
      BY <3>1, CallBelow
    <3>3. b.visited \in SUBSET DOMAIN graph /\ c.visited \subseteq b.visited
      <4>1. Good(graph, Called(c, p), b)
        BY <3>1, <3>2, CallBelow
      <4> QED
        BY <4>1 DEF Good, Called, Outcome
    <3>4. CASE Passes(graph, f, c, w, r)
      <4>1. Passes(graph, h, c, w, r)
        BY <1>2, <1>3, <3>1, <3>2, <3>3, <3>4 DEF Passes
      <4> QED
        BY <1>3, <2>1, <4>1 DEF LoopStep
    <3>5. CASE Finds(graph, f, c, w, r)
      <4>1. Finds(graph, h, c, w, r)
        BY <3>1, <3>2, <3>5 DEF Finds
      <4> QED
        BY <1>3, <2>1, <4>1 DEF LoopStep
    <3> QED
      BY <2>4, <3>4, <3>5
  <2> QED
    BY <1>1, <2>1, <2>2, <2>3, <2>4 DEF LoopStep
<1> QED
  BY <1>1, <1>3 DEF LoopStep

\* A loop returns one thing.
LEMMA StepUnique ==
  ASSUME NEW graph, IsWaitGraph(graph), NEW c \in Loops(graph), NEW f, NEW r, NEW u,
         LoopStep(graph, f, c, r), LoopStep(graph, f, c, u)
  PROVE  r = u
<1>0. c.visited \subseteq DOMAIN graph /\ None \notin DOMAIN graph /\ Len(graph[c.query]) \in Nat
  BY LoopFields DEF IsWaitGraph
<1>1. CASE Ended(graph, c, r)
  <2>1. ~(c.i \in 1 .. Len(graph[c.query]))
    BY <1>0, <1>1 DEF Ended
  <2> QED
    BY <1>1, <2>1 DEF LoopStep, Ended
<1>2. CASE c.i \in 1 .. Len(graph[c.query])
  <2>1. PICK w : w = graph[c.query][c.i]
    OBVIOUS
  <2>2. ~Ended(graph, c, r) /\ ~Ended(graph, c, u)
    BY <1>0, <1>2 DEF Ended
  <2>3. \A x \in {r, u} : \/ Skips(graph, f, c, w, x) \/ Closes(graph, c, w, x)
                          \/ Passes(graph, f, c, w, x) \/ Finds(graph, f, c, w, x)
    BY <1>2, <2>1, <2>2 DEF LoopStep
  <2>4. CASE w.parent = None
    BY <1>0, <2>3, <2>4 DEF Skips, Closes, Passes, Finds
  <2>5. CASE w.parent \in c.visited
    BY <1>0, <2>3, <2>5 DEF Skips, Closes, Passes, Finds
  <2>6. CASE w.parent # None /\ w.parent \notin c.visited
    BY <1>0, <2>3, <2>6 DEF Skips, Closes, Passes, Finds
  <2> QED
    BY <2>4, <2>5, <2>6
<1> QED
  BY <1>1, <1>2 DEF LoopStep

\* The body of the loop does not depend on anything else.
LEMMA BodyLocal ==
  ASSUME NEW graph, IsWaitGraph(graph), NEW c \in Loops(graph), NEW f, NEW h,
         \A d \in LoopsBelow(graph, c) : Good(graph, d, f[d]),
         \A d \in LoopsBelow(graph, c) : h[d] = f[d]
  PROVE  visit_waiters(graph, h, c) = visit_waiters(graph, f, c)
<1>1. LoopStep(graph, f, c, visit_waiters(graph, f, c))
  BY LoopSteps
<1>2. LoopStep(graph, h, c, visit_waiters(graph, f, c))
  BY <1>1, StepLocal
<1>3. \A d \in LoopsBelow(graph, c) : Good(graph, d, h[d])
  OBVIOUS
<1>4. LoopStep(graph, h, c, visit_waiters(graph, h, c))
  BY <1>3, LoopSteps
<1> QED
  BY <1>2, <1>4, StepUnique

-----------------------------------------------------------------------------
(* The search is well defined. *)

\* A search that gives up in loops with the rank n.
Upto(graph, f, n) ==
  /\ f = [c \in Loops(graph) |-> IF Ranked(graph, c) < n THEN visit_waiters(graph, f, c)
                                 ELSE [flow |-> Continue, visited |-> c.visited]]
  /\ \A c \in Loops(graph) : Good(graph, c, f[c])

\* The rank of a loop.
LEMMA RankedNat ==
  ASSUME NEW graph, IsWaitGraph(graph), NEW c
  PROVE  Ranked(graph, c) \in Nat /\ Ranked(graph, c) <= Cardinality(Steps(graph))
         /\ Cardinality(Steps(graph)) \in Nat
BY RankNat DEF Ranked

\* To give up is good.
LEMMA NothingGood ==
  ASSUME NEW graph, NEW c \in Loops(graph)
  PROVE  Good(graph, c, [flow |-> Continue, visited |-> c.visited])
<1>1. Continue \in Flow(graph)
  BY EmptySeq DEF Continue, Flow
<1>2. c.visited \in SUBSET DOMAIN graph
  BY LoopFields
<1> QED
  BY <1>1, <1>2 DEF Good, Outcome

\* One rank more.
LEMMA UptoNext ==
  ASSUME NEW graph, IsWaitGraph(graph), NEW n \in Nat, NEW f, Upto(graph, f, n)
  PROVE  \E h : Upto(graph, h, n + 1)
<1> DEFINE h == [c \in Loops(graph) |-> IF Ranked(graph, c) < n + 1 THEN visit_waiters(graph, f, c)
                                        ELSE [flow |-> Continue, visited |-> c.visited]]
<1>1. \A c \in Loops(graph) :
        /\ Ranked(graph, c) < n + 1 => h[c] = visit_waiters(graph, f, c)
        /\ ~(Ranked(graph, c) < n + 1) => h[c] = [flow |-> Continue, visited |-> c.visited]
  OBVIOUS
<1>2. \A c \in Loops(graph) : Ranked(graph, c) < n => f[c] = visit_waiters(graph, f, c)
  BY DEF Upto
<1>3. \A c \in Loops(graph) : Good(graph, c, f[c])
  BY DEF Upto
<1>4. h = [c \in Loops(graph) |-> h[c]]
  OBVIOUS
<1> HIDE DEF h
<1>5. ASSUME NEW c \in Loops(graph), Ranked(graph, c) < n + 1
      PROVE  h[c] = visit_waiters(graph, h, c) /\ Good(graph, c, h[c])
  <2>1. ASSUME NEW d \in LoopsBelow(graph, c) PROVE h[d] = f[d] /\ Good(graph, d, f[d])
    <3>1. d \in Loops(graph) /\ Ranked(graph, d) < Ranked(graph, c)
      BY DEF LoopsBelow
    <3>2. Ranked(graph, d) < n /\ Ranked(graph, d) < n + 1
      BY <1>5, <3>1, RankedNat
    <3> QED
      BY <1>1, <1>2, <1>3, <3>1, <3>2
  <2>2. visit_waiters(graph, h, c) = visit_waiters(graph, f, c)
    BY <2>1, BodyLocal
  <2>3. LoopStep(graph, f, c, visit_waiters(graph, f, c))
    BY <2>1, LoopSteps
  <2>4. Good(graph, c, visit_waiters(graph, f, c))
    BY <2>1, <2>3, StepGood
  <2> QED
    BY <1>1, <1>5, <2>2, <2>4
<1>6. ASSUME NEW c \in Loops(graph) PROVE Good(graph, c, h[c])
  BY <1>1, <1>5, NothingGood
<1>7. \A c \in Loops(graph) :
        h[c] = IF Ranked(graph, c) < n + 1 THEN visit_waiters(graph, h, c)
               ELSE [flow |-> Continue, visited |-> c.visited]
  BY <1>1, <1>5
<1>8. h = [c \in Loops(graph) |-> IF Ranked(graph, c) < n + 1 THEN visit_waiters(graph, h, c)
                                  ELSE [flow |-> Continue, visited |-> c.visited]]
  BY <1>4, <1>7
<1> QED
  BY <1>6, <1>8 DEF Upto

\* The search for every rank.
LEMMA UptoAny ==
  ASSUME NEW graph, IsWaitGraph(graph), NEW n \in Nat
  PROVE  \E f : Upto(graph, f, n)
<1> DEFINE Bad == {m \in Nat : ~ \E f : Upto(graph, f, m)}
<1>1. SUFFICES ASSUME Bad # {} PROVE FALSE
  OBVIOUS
<1>2. PICK m \in Bad : \A t \in Bad : m <= t
  BY <1>1, LeastNat
<1>3. m \in Nat /\ ~ \E f : Upto(graph, f, m)
  BY <1>2
<1>4. m # 0
  <2> DEFINE f == [c \in Loops(graph) |-> [flow |-> Continue, visited |-> c.visited]]
  <2>1. \A c \in Loops(graph) : ~(Ranked(graph, c) < 0)
    BY RankedNat
  <2>2. f = [c \in Loops(graph) |-> IF Ranked(graph, c) < 0 THEN visit_waiters(graph, f, c)
                                    ELSE [flow |-> Continue, visited |-> c.visited]]
    BY <2>1
  <2>3. \A c \in Loops(graph) : Good(graph, c, f[c])
    BY NothingGood
  <2> HIDE DEF f
  <2>4. Upto(graph, f, 0)
    BY <2>2, <2>3 DEF Upto
  <2> QED
    BY <1>3, <2>4
<1>5. PICK k \in Nat : m = k + 1
  <2>1. m - 1 \in Nat /\ m = (m - 1) + 1
    BY <1>3, <1>4
  <2> QED
    BY <2>1
<1>6. k \notin Bad
  BY <1>2, <1>5
<1>7. PICK f : Upto(graph, f, k)
  BY <1>6
<1> QED
  BY <1>3, <1>5, <1>7, UptoNext

\* find_cycle is the search that never gives up, because every call visits a
\* job more and every loop comes to its end.
LEMMA SearchRuns ==
  ASSUME NEW graph, IsWaitGraph(graph)
  PROVE  \A c \in Loops(graph) :
           /\ Search(graph)[c] = visit_waiters(graph, Search(graph), c)
           /\ Good(graph, c, Search(graph)[c])
<1>1. PICK n \in Nat : \A c : Ranked(graph, c) < n
  <2>1. PICK k \in Nat : k = Cardinality(Steps(graph))
    BY RankedNat
  <2>2. \A c : Ranked(graph, c) < k + 1
    BY <2>1, RankedNat
  <2> QED
    BY <2>2
<1>2. PICK f : Upto(graph, f, n)
  BY UptoAny
<1>3. f = [c \in Loops(graph) |-> visit_waiters(graph, f, c)]
  BY <1>1, <1>2 DEF Upto
<1>4. Search(graph) = CHOOSE loop : loop = [c \in Loops(graph) |-> visit_waiters(graph, loop, c)]
  BY Zenon DEF Search
<1> DEFINE s == Search(graph)
<1>5. s = [c \in Loops(graph) |-> visit_waiters(graph, s, c)]
  BY <1>3, <1>4, Zenon
<1> HIDE DEF s
<1>6. \A c \in Loops(graph) : s[c] = visit_waiters(graph, s, c)
  BY <1>5
<1> DEFINE Odd == {m \in Nat : \E c \in Loops(graph) : Ranked(graph, c) = m /\ ~Good(graph, c, s[c])}
<1>7. Odd = {}
  <2>1. SUFFICES ASSUME Odd # {} PROVE FALSE
    OBVIOUS
  <2>2. PICK m \in Odd : \A t \in Odd : m <= t
    BY <2>1, LeastNat
  <2>3. PICK c \in Loops(graph) : Ranked(graph, c) = m /\ ~Good(graph, c, s[c])
    BY <2>2
  <2>4. ASSUME NEW d \in LoopsBelow(graph, c) PROVE Good(graph, d, s[d])
    <3>1. d \in Loops(graph) /\ Ranked(graph, d) < m /\ Ranked(graph, d) \in Nat
      BY <2>3, RankedNat DEF LoopsBelow
    <3> QED
      BY <2>2, <3>1
  <2>5. LoopStep(graph, s, c, s[c])
    BY <1>6, <2>4, LoopSteps
  <2> QED
    BY <2>3, <2>4, <2>5, StepGood
<1>8. \A c \in Loops(graph) : Good(graph, c, s[c])
  BY <1>7, RankedNat
<1> QED
  BY <1>6, <1>8 DEF s

\* What the search does in a loop.
LEMMA SearchSteps ==
  ASSUME NEW graph, IsWaitGraph(graph), NEW c \in Loops(graph)
  PROVE  LoopStep(graph, Search(graph), c, Search(graph)[c]) /\ Good(graph, c, Search(graph)[c])
<1>1. \A d \in LoopsBelow(graph, c) : Good(graph, d, Search(graph)[d])
  BY SearchRuns DEF LoopsBelow
<1>2. LoopStep(graph, Search(graph), c, visit_waiters(graph, Search(graph), c))
  BY <1>1, LoopSteps
<1> QED
  BY <1>2, SearchRuns

-----------------------------------------------------------------------------
(* What the search finds. *)

\* Before the waiter through which a waits on b there is none that leads to a
\* cycle.
Links(graph, a, b) ==
  \E i \in DOMAIN graph[a] : /\ graph[a][i].parent = b
                             /\ \A h \in 1 .. i - 1 : graph[a][h].parent \notin Endless(graph)

\* The stack of a search.
Trail(graph, s) ==
  /\ s \in Seq(DOMAIN graph)
  /\ \A a, b \in 1 .. Len(s) : s[a] = s[b] => a = b
  /\ \A k \in 1 .. Len(s) - 1 : Links(graph, s[k], s[k + 1])

\* The jobs that a search has left, and the waiters that it has passed, lead to no
\* cycle.
Ready(graph, c) ==
  /\ Trail(graph, c.stack) /\ Len(c.stack) > 0 /\ c.stack[Len(c.stack)] = c.query
  /\ \A k \in 1 .. Len(c.stack) : c.stack[k] \in c.visited
  /\ \A j \in c.visited : j \in Endless(graph) => \E k \in 1 .. Len(c.stack) : c.stack[k] = j
  /\ \A h \in 1 .. c.i - 1 :
       h \in DOMAIN graph[c.query] => graph[c.query][h].parent \notin Endless(graph)

\* The followed waiters lead along s, and from its end back to the m-th job.
Lasso(graph, s, m) ==
  /\ s \in Seq(DOMAIN graph) /\ m \in 1 .. Len(s)
  /\ \A a, b \in 1 .. Len(s) : s[a] = s[b] => a = b
  /\ \A k \in 1 .. Len(s) : s[k] \in Endless(graph)
  /\ \A k \in 1 .. Len(s) - 1 : Followed(graph, s[k]).parent = s[k + 1]
  /\ Followed(graph, s[Len(s)]).parent = s[m]

\* The first resumable waiter of s, from the n-th job on.
FirstResumable(graph, s, n, x) ==
  \/ x = None /\ \A k \in n .. Len(s) : Followed(graph, s[k]).resumable = None
  \/ \E k \in n .. Len(s) :
       /\ Followed(graph, s[k]).resumable # None
       /\ \A h \in n .. k - 1 : Followed(graph, s[h]).resumable = None
       /\ x = [waitee |-> s[k], waiter |-> Followed(graph, s[k]).resumable]

FoundCycle(graph, c, r) ==
  /\ r.flow.break
  /\ \E s, m : /\ Lasso(graph, s, m)
               /\ Len(c.stack) <= Len(s) /\ \A k \in 1 .. Len(c.stack) : s[k] = c.stack[k]
               /\ r.flow.stack = SubSeq(s, m, Len(s))
               /\ FirstResumable(graph, s, Len(c.stack), r.flow.resumable)

FoundNone(graph, c, r) ==
  /\ ~r.flow.break /\ c.query \notin Endless(graph)
  /\ \A j \in r.visited : j \in Endless(graph) => \E k \in 1 .. Len(c.stack) : c.stack[k] = j

Searched(graph, c, r) == FoundCycle(graph, c, r) \/ FoundNone(graph, c, r)

\* Whatever waits on itself through others leads to a cycle.
LEMMA EndlessAll ==
  ASSUME NEW graph, NEW J \in SUBSET DOMAIN graph,
         \A j \in J : \E i \in DOMAIN graph[j] : graph[j][i].parent \in J
  PROVE  J \subseteq Endless(graph)
<1> DEFINE Sets == {K \in SUBSET DOMAIN graph :
                      \A j \in K : \E i \in DOMAIN graph[j] : graph[j][i].parent \in K}
<1>1. Endless(graph) = UNION Sets
  BY Zenon DEF Endless
<1>2. J \in Sets
  OBVIOUS
<1> QED
  BY <1>1, <1>2

\* The followed waiter is the first that leads to a cycle.
LEMMA FollowedIs ==
  ASSUME NEW graph, IsWaitGraph(graph), NEW j \in DOMAIN graph, NEW i \in DOMAIN graph[j],
         graph[j][i].parent \in Endless(graph),
         \A h \in 1 .. i - 1 : graph[j][h].parent \notin Endless(graph)
  PROVE  Followed(graph, j) = graph[j][i]
<1> DEFINE P(k) == /\ graph[j][k].parent \in Endless(graph)
                   /\ \A h \in 1 .. k - 1 : graph[j][h].parent \notin Endless(graph)
<1>1. Followed(graph, j) = graph[j][CHOOSE k \in DOMAIN graph[j] : P(k)]
  BY DEF Followed
<1>2. P(i)
  OBVIOUS
<1>3. ASSUME NEW k \in DOMAIN graph[j], P(k) PROVE k = i
  <2>1. k \in Nat /\ i \in Nat /\ k >= 1 /\ i >= 1
    BY DEF IsWaitGraph
  <2>2. ~(i < k) /\ ~(k < i)
    BY <1>2, <1>3, <2>1
  <2> QED
    BY <2>1, <2>2
<1> HIDE DEF P
<1>4. (CHOOSE k \in DOMAIN graph[j] : P(k)) = i
  BY <1>2, <1>3
<1> QED
  BY <1>1, <1>4

\* The loop goes on to its next waiter.
LEMMA NextReady ==
  ASSUME NEW graph, IsWaitGraph(graph), NEW c \in Loops(graph), c.i \in 1 .. Len(graph[c.query]),
         Ready(graph, c), graph[c.query][c.i].parent \notin Endless(graph),
         NEW v \in SUBSET DOMAIN graph, c.visited \subseteq v,
         \A j \in v : j \in Endless(graph) => \E k \in 1 .. Len(c.stack) : c.stack[k] = j
  PROVE  /\ Ready(graph, Thereafter(c, v))
         /\ \A r : Searched(graph, Thereafter(c, v), r) => Searched(graph, c, r)
<1>1. PICK d : d = Thereafter(c, v)
  OBVIOUS
<1>2. d.query = c.query /\ d.i = c.i + 1 /\ d.stack = c.stack /\ d.visited = v
  BY <1>1, NextBelow
<1>3. \A h \in 1 .. d.i - 1 :
        h \in DOMAIN graph[c.query] => graph[c.query][h].parent \notin Endless(graph)
  <2>1. c.i \in Nat
    BY LoopFields
  <2>2. \A h \in 1 .. d.i - 1 : h \in 1 .. c.i - 1 \/ h = c.i
    BY <1>2, <2>1
  <2> QED
    BY <2>2 DEF Ready
<1>4. Ready(graph, d)
  BY <1>2, <1>3 DEF Ready
<1>5. \A r : Searched(graph, d, r) => Searched(graph, c, r)
  BY <1>2 DEF Searched, FoundCycle, FoundNone
<1> QED
  BY <1>1, <1>4, <1>5

\* A job is called for.
LEMMA CallReady ==
  ASSUME NEW graph, IsWaitGraph(graph), NEW c \in Loops(graph), c.i \in 1 .. Len(graph[c.query]),
         Ready(graph, c), NEW p \in DOMAIN graph, p \notin c.visited,
         p = graph[c.query][c.i].parent
  PROVE  /\ Ready(graph, Called(c, p))
         /\ Called(c, p).query = p /\ Called(c, p).visited = c.visited \cup {p}
         /\ Called(c, p).stack = Append(c.stack, p)
         /\ Len(Called(c, p).stack) = Len(c.stack) + 1 /\ Len(c.stack) \in Nat
         /\ \A k \in 1 .. Len(c.stack) : Called(c, p).stack[k] = c.stack[k]
         /\ Called(c, p).stack[Len(c.stack) + 1] = p
<1>1. PICK d : d = Called(c, p)
  OBVIOUS
<1>2. d.query = p /\ d.i = 1 /\ d.stack = Append(c.stack, p) /\ d.visited = c.visited \cup {p}
  BY <1>1 DEF Called
<1>3. PICK n \in Nat : n = Len(c.stack) /\ n > 0
  BY LoopFields, LenProperties DEF Ready
<1>4. PICK t \in Seq(DOMAIN graph) : t = d.stack
  BY <1>2, LoopFields, AppendProperties
<1>5. Len(t) = n + 1 /\ (\A k \in 1 .. n : t[k] = c.stack[k]) /\ t[n + 1] = p
  BY <1>2, <1>3, <1>4, LoopFields, AppendProperties
<1>6. \A k \in 1 .. n : c.stack[k] \in c.visited
  BY <1>3 DEF Ready
<1>7. ASSUME NEW a \in 1 .. Len(t), NEW b \in 1 .. Len(t), t[a] = t[b] PROVE a = b
  <2>1. \A k \in 1 .. Len(t) : k \in 1 .. n \/ k = n + 1
    BY <1>5
  <2>2. \A k, l \in 1 .. n : c.stack[k] = c.stack[l] => k = l
    BY <1>3 DEF Ready, Trail
  <2> QED
    BY <1>5, <1>6, <1>7, <2>1, <2>2
<1>8. ASSUME NEW k \in 1 .. Len(t) - 1 PROVE Links(graph, t[k], t[k + 1])
  <2>1. CASE k = n
    <3>1. c.i \in DOMAIN graph[c.query]
      BY LoopFields DEF IsWaitGraph
    <3>2. c.stack[n] = c.query
      BY <1>3 DEF Ready
    <3>3. \A h \in 1 .. c.i - 1 : graph[c.query][h].parent \notin Endless(graph)
      <4>1. c.query \in DOMAIN graph
        BY LoopFields
      <4>2. \A h \in 1 .. c.i - 1 : h \in DOMAIN graph[c.query]
        BY <3>1, <4>1 DEF IsWaitGraph
      <4> QED
        BY <4>2 DEF Ready
    <3>4. Links(graph, c.query, p)
      BY <3>1, <3>3 DEF Links
    <3> QED
      BY <1>3, <1>5, <2>1, <3>2, <3>4
  <2>2. CASE k # n
    <3>1. k \in 1 .. n - 1 /\ k \in 1 .. n /\ k + 1 \in 1 .. n
      BY <1>3, <1>5, <2>2
    <3>2. Links(graph, c.stack[k], c.stack[k + 1])
      BY <1>3, <3>1 DEF Ready, Trail
    <3> QED
      BY <1>5, <3>1, <3>2
  <2> QED
    BY <2>1, <2>2
<1>9. Trail(graph, t)
  BY <1>7, <1>8 DEF Trail
<1>10. \A k \in 1 .. Len(t) : t[k] \in d.visited
  <2>1. \A k \in 1 .. Len(t) : k \in 1 .. n \/ k = n + 1
    BY <1>5
  <2> QED
    BY <1>2, <1>5, <1>6, <2>1
<1>11. ASSUME NEW j \in d.visited, j \in Endless(graph) PROVE \E k \in 1 .. Len(t) : t[k] = j
  <2>1. CASE j = p
    <3>1. n + 1 \in 1 .. Len(t)
      BY <1>5
    <3> QED
      BY <1>5, <2>1, <3>1
  <2>2. CASE j # p
    <3>1. PICK k \in 1 .. n : c.stack[k] = j
      BY <1>2, <1>3, <1>11, <2>2 DEF Ready
    <3>2. k \in 1 .. Len(t)
      BY <1>5
    <3> QED
      BY <1>5, <3>1, <3>2
  <2> QED
    BY <2>1, <2>2
<1>12. Ready(graph, d)
  <2>1. Len(t) > 0 /\ t[Len(t)] = d.query
    BY <1>2, <1>3, <1>5
  <2>2. 1 .. d.i - 1 = {}
    BY <1>2
  <2> QED
    BY <1>4, <1>9, <1>10, <1>11, <2>1, <2>2 DEF Ready
<1> QED
  BY <1>1, <1>2, <1>3, <1>4, <1>5, <1>12

\* A loop at its end has found nothing.
LEMMA EndFinds ==
  ASSUME NEW graph, IsWaitGraph(graph), NEW c \in Loops(graph), Ready(graph, c), NEW r,
         Ended(graph, c, r)
  PROVE  Searched(graph, c, r)
<1>1. ~r.flow.break /\ r.visited = c.visited
  BY DEF Ended, Continue
<1>2. \A h \in DOMAIN graph[c.query] : h \in 1 .. c.i - 1
  <2>1. c.query \in DOMAIN graph /\ c.i \in Nat
    BY LoopFields
  <2>2. Len(graph[c.query]) \in Nat /\ DOMAIN graph[c.query] = 1 .. Len(graph[c.query])
    BY <2>1 DEF IsWaitGraph
  <2>3. c.i > Len(graph[c.query])
    BY DEF Ended
  <2> QED
    BY <2>1, <2>2, <2>3
<1>3. \A h \in DOMAIN graph[c.query] : graph[c.query][h].parent \notin Endless(graph)
  BY <1>2 DEF Ready
<1>4. c.query \notin Endless(graph)
  BY <1>3, EndlessClosed
<1>5. FoundNone(graph, c, r)
  BY <1>1, <1>4 DEF FoundNone, Ready
<1> QED
  BY <1>5 DEF Searched

\* The stack of a loop that has come back to its m-th job leads to a cycle.
LEMMA StackEndless ==
  ASSUME NEW graph, IsWaitGraph(graph), NEW c \in Loops(graph), c.i \in 1 .. Len(graph[c.query]),
         Ready(graph, c), NEW m \in 1 .. Len(c.stack), c.stack[m] = graph[c.query][c.i].parent
  PROVE  \A k \in 1 .. Len(c.stack) : c.stack[k] \in Endless(graph)
<1>1. PICK s \in Seq(DOMAIN graph) : s = c.stack
  BY LoopFields
<1>2. PICK n \in Nat : n = Len(s) /\ n > 0
  BY <1>1, LenProperties DEF Ready
<1>3. \A k \in 1 .. n : s[k] \in DOMAIN graph
  BY <1>2, ElementOfSeq
<1> DEFINE J == {s[k] : k \in 1 .. n}
<1>4. ASSUME NEW k \in 1 .. n PROVE \E i \in DOMAIN graph[s[k]] : graph[s[k]][i].parent \in J
  <2>1. CASE k = n
    <3>1. s[k] = c.query
      BY <1>1, <1>2, <2>1 DEF Ready
    <3>2. c.i \in DOMAIN graph[c.query]
      BY LoopFields DEF IsWaitGraph
    <3>3. graph[c.query][c.i].parent \in J
      BY <1>1, <1>2
    <3> QED
      BY <3>1, <3>2, <3>3
  <2>2. CASE k # n
    <3>1. k \in 1 .. n - 1 /\ k + 1 \in 1 .. n
      BY <2>2
    <3>2. Links(graph, s[k], s[k + 1])
      BY <1>1, <1>2, <3>1 DEF Ready, Trail
    <3>3. s[k + 1] \in J
      BY <3>1
    <3> QED
      BY <3>2, <3>3 DEF Links
  <2> QED
    BY <2>1, <2>2
<1>5. J \subseteq Endless(graph)
  <2>1. J \in SUBSET DOMAIN graph
    BY <1>3
  <2>2. \A j \in J : \E i \in DOMAIN graph[j] : graph[j][i].parent \in J
    BY <1>4
  <2> HIDE DEF J
  <2> QED
    BY <2>1, <2>2, EndlessAll
<1> QED
  BY <1>1, <1>2, <1>5

\* A job of the stack waits on the next one through the followed waiter.
LEMMA StackFollowed ==
  ASSUME NEW graph, IsWaitGraph(graph), NEW a \in DOMAIN graph, NEW b \in Endless(graph),
         Links(graph, a, b)
  PROVE  Followed(graph, a).parent = b
<1>1. PICK i \in DOMAIN graph[a] : /\ graph[a][i].parent = b
                                   /\ \A h \in 1 .. i - 1 : graph[a][h].parent \notin Endless(graph)
  BY DEF Links
<1>2. Followed(graph, a) = graph[a][i]
  BY <1>1, FollowedIs
<1> QED
  BY <1>1, <1>2

\* The waiter that a loop has come to is the followed one if it leads to a cycle.
LEMMA ThisFollowed ==
  ASSUME NEW graph, IsWaitGraph(graph), NEW c \in Loops(graph), c.i \in 1 .. Len(graph[c.query]),
         Ready(graph, c), graph[c.query][c.i].parent \in Endless(graph)
  PROVE  Followed(graph, c.query) = graph[c.query][c.i]
<1>1. c.query \in DOMAIN graph /\ c.i \in Nat
  BY LoopFields
<1>2. Len(graph[c.query]) \in Nat /\ DOMAIN graph[c.query] = 1 .. Len(graph[c.query])
  BY <1>1 DEF IsWaitGraph
<1>3. \A h \in 1 .. c.i - 1 : h \in DOMAIN graph[c.query]
  BY <1>1, <1>2
<1>4. \A h \in 1 .. c.i - 1 : graph[c.query][h].parent \notin Endless(graph)
  BY <1>3 DEF Ready
<1> QED
  BY <1>1, <1>2, <1>4, FollowedIs

\* A loop that comes back to a job on the stack has found the cycle.
LEMMA CloseFinds ==
  ASSUME NEW graph, IsWaitGraph(graph), NEW c \in Loops(graph), c.i \in 1 .. Len(graph[c.query]),
         Ready(graph, c), NEW w, w = graph[c.query][c.i], NEW r, Closes(graph, c, w, r)
  PROVE  Searched(graph, c, r)
<1>1. PICK s \in Seq(DOMAIN graph) : s = c.stack
  BY LoopFields
<1>2. PICK n \in Nat : n = Len(s) /\ n > 0
  BY <1>1, LenProperties DEF Ready
<1>3. PICK m : m = PositionOf(c.stack, w.parent)
  OBVIOUS
<1>4. m \in 1 .. n /\ s[m] = w.parent
  BY <1>1, <1>2, <1>3, Position DEF Closes
<1>5. r = Broken(c.visited, Pointed(w, c, None), SubSeq(s, m, n))
  BY <1>1, <1>2, <1>3 DEF Closes, PositionOf
<1>6. r.flow.break /\ r.flow.stack = SubSeq(s, m, n) /\ r.flow.resumable = Pointed(w, c, None)
  BY <1>5 DEF Broken
<1>7. \A k \in 1 .. n : s[k] \in Endless(graph)
  BY <1>1, <1>2, <1>4, StackEndless
<1>8. s[n] = c.query
  BY <1>1, <1>2 DEF Ready
<1>9. Followed(graph, c.query) = w
  BY <1>4, <1>7, ThisFollowed
<1>10. ASSUME NEW k \in 1 .. n - 1 PROVE Followed(graph, s[k]).parent = s[k + 1]
  <2>1. k \in 1 .. n /\ k + 1 \in 1 .. n
    OBVIOUS
  <2>2. Links(graph, s[k], s[k + 1])
    BY <1>1, <1>2 DEF Ready, Trail
  <2>3. s[k] \in DOMAIN graph
    BY <1>2, <2>1, ElementOfSeq
  <2> QED
    BY <1>7, <2>1, <2>2, <2>3, StackFollowed
<1>11. Lasso(graph, s, m)
  <2>1. \A a, b \in 1 .. n : s[a] = s[b] => a = b
    BY <1>1, <1>2 DEF Ready, Trail
  <2> QED
    BY <1>2, <1>4, <1>7, <1>8, <1>9, <1>10, <2>1 DEF Lasso
<1>12. FirstResumable(graph, s, n, r.flow.resumable)
  <2>1. \A k \in n .. n : k = n
    BY <1>2
  <2>2. n \in n .. n /\ n .. n - 1 = {}
    BY <1>2
  <2>3. CASE w.resumable = None
    <3>1. r.flow.resumable = None
      BY <1>6, <2>3 DEF Pointed
    <3> QED
      BY <1>2, <1>8, <1>9, <2>1, <2>3, <3>1 DEF FirstResumable
  <2>4. CASE w.resumable # None
    <3>1. r.flow.resumable = [waitee |-> s[n], waiter |-> Followed(graph, s[n]).resumable]
      BY <1>6, <1>8, <1>9, <2>4 DEF Pointed
    <3> QED
      BY <1>2, <1>8, <1>9, <2>2, <2>4, <3>1 DEF FirstResumable
  <2> QED
    BY <2>3, <2>4
<1>13. FoundCycle(graph, c, r)
  <2>1. Len(c.stack) <= Len(s) /\ (\A k \in 1 .. Len(c.stack) : s[k] = c.stack[k])
        /\ Len(c.stack) = n
    BY <1>1, <1>2
  <2>2. r.flow.stack = SubSeq(s, m, Len(s))
    BY <1>2, <1>6
  <2> QED
    BY <1>6, <1>11, <1>12, <2>1, <2>2 DEF FoundCycle
<1> QED
  BY <1>13 DEF Searched

\* A loop below which the cycle is found.
LEMMA CallFinds ==
  ASSUME NEW graph, IsWaitGraph(graph), NEW c \in Loops(graph), c.i \in 1 .. Len(graph[c.query]),
         Ready(graph, c), NEW w, w = graph[c.query][c.i], NEW f, NEW r,
         Finds(graph, f, c, w, r),
         FoundCycle(graph, Called(c, w.parent), f[Called(c, w.parent)])
  PROVE  Searched(graph, c, r)
<1>1. PICK p \in DOMAIN graph : p = w.parent /\ p \notin c.visited
  BY DEF Finds
<1>2. PICK d : d = Called(c, p)
  OBVIOUS
<1>3. PICK b : b = f[d]
  OBVIOUS
<1>4. r = Broken(b.visited, Pointed(w, c, b.flow.resumable), b.flow.stack)
  BY <1>1, <1>2, <1>3 DEF Finds
<1>5. /\ r.flow.break /\ r.flow.stack = b.flow.stack
      /\ r.flow.resumable = Pointed(w, c, b.flow.resumable)
  BY <1>4 DEF Broken
<1>6. PICK n \in Nat : n = Len(c.stack) /\ n > 0
  BY LoopFields, LenProperties DEF Ready
<1>7. /\ Len(d.stack) = n + 1 /\ d.stack[n + 1] = p
      /\ \A k \in 1 .. n : d.stack[k] = c.stack[k]
  BY <1>1, <1>2, <1>6, CallReady
<1>8. PICK s, m : /\ Lasso(graph, s, m)
                  /\ Len(d.stack) <= Len(s) /\ \A k \in 1 .. Len(d.stack) : s[k] = d.stack[k]
                  /\ b.flow.stack = SubSeq(s, m, Len(s))
                  /\ FirstResumable(graph, s, Len(d.stack), b.flow.resumable)
  BY <1>1, <1>2, <1>3 DEF FoundCycle
<1>9. PICK L \in Nat : L = Len(s) /\ n + 1 <= L
  BY <1>7, <1>8, LenProperties DEF Lasso
<1>10. (\A k \in 1 .. n : s[k] = c.stack[k]) /\ s[n + 1] = p
  <2>1. \A k \in 1 .. n : k \in 1 .. n + 1
    OBVIOUS
  <2>2. n + 1 \in 1 .. n + 1
    OBVIOUS
  <2> QED
    BY <1>7, <1>8, <2>1, <2>2
<1>11. s[n] = c.query
  BY <1>6, <1>10 DEF Ready
<1>12. p \in Endless(graph)
  <2>1. n + 1 \in 1 .. L
    BY <1>9
  <2> QED
    BY <1>8, <1>9, <1>10, <2>1 DEF Lasso
<1>13. Followed(graph, s[n]) = w
  BY <1>1, <1>11, <1>12, ThisFollowed
<1>14. PICK x : x = b.flow.resumable /\ FirstResumable(graph, s, n + 1, x)
  BY <1>7, <1>8
<1>15. FirstResumable(graph, s, n, r.flow.resumable)
  <2>1. CASE w.resumable # None
    <3>1. r.flow.resumable = [waitee |-> s[n], waiter |-> Followed(graph, s[n]).resumable]
      BY <1>5, <1>11, <1>13, <2>1 DEF Pointed
    <3>2. n \in n .. L /\ n .. n - 1 = {}
      BY <1>9
    <3> QED
      BY <1>9, <1>13, <2>1, <3>1, <3>2 DEF FirstResumable
  <2>2. CASE w.resumable = None
    <3>1. r.flow.resumable = x
      BY <1>5, <1>14, <2>2 DEF Pointed
    <3>2. CASE x = None /\ \A k \in n + 1 .. L : Followed(graph, s[k]).resumable = None
      <4>1. \A k \in n .. L : k = n \/ k \in n + 1 .. L
        OBVIOUS
      <4>2. \A k \in n .. L : Followed(graph, s[k]).resumable = None
        BY <1>13, <2>2, <3>2, <4>1
      <4> QED
        BY <1>9, <3>1, <3>2, <4>2 DEF FirstResumable
    <3>3. ASSUME NEW k \in n + 1 .. L, Followed(graph, s[k]).resumable # None,
                 \A h \in n + 1 .. k - 1 : Followed(graph, s[h]).resumable = None,
                 x = [waitee |-> s[k], waiter |-> Followed(graph, s[k]).resumable]
          PROVE  FirstResumable(graph, s, n, x)
      <4>1. \A h \in n .. k - 1 : h = n \/ h \in n + 1 .. k - 1
        OBVIOUS
      <4>2. \A h \in n .. k - 1 : Followed(graph, s[h]).resumable = None
        BY <1>13, <2>2, <3>3, <4>1
      <4>3. k \in n .. L
        OBVIOUS
      <4> QED
        BY <1>9, <3>3, <4>2, <4>3 DEF FirstResumable
    <3> QED
      BY <1>9, <1>14, <3>1, <3>2, <3>3 DEF FirstResumable
  <2> QED
    BY <2>1, <2>2
<1>16. FoundCycle(graph, c, r)
  <2>1. Len(c.stack) <= Len(s) /\ \A k \in 1 .. Len(c.stack) : s[k] = c.stack[k]
    BY <1>6, <1>9, <1>10
  <2>2. r.flow.stack = SubSeq(s, m, Len(s))
    BY <1>5, <1>8
  <2> QED
    BY <1>5, <1>6, <1>8, <1>15, <2>1, <2>2 DEF FoundCycle
<1> QED
  BY <1>16 DEF Searched

\* A loop finds what there is if the loops below it do.
LEMMA StepFinds ==
  ASSUME NEW graph, IsWaitGraph(graph), NEW c \in Loops(graph), Ready(graph, c), NEW f, NEW r,
         \A d \in LoopsBelow(graph, c) : Good(graph, d, f[d]),
         \A d \in LoopsBelow(graph, c) : Ready(graph, d) => Searched(graph, d, f[d]),
         LoopStep(graph, f, c, r)
  PROVE  Searched(graph, c, r)
<1>0. c.visited \in SUBSET DOMAIN graph
  BY LoopFields
<1>1. CASE Ended(graph, c, r)
  BY <1>1, EndFinds
<1>2. ASSUME c.i \in 1 .. Len(graph[c.query]), graph[c.query][c.i].parent \notin Endless(graph),
             NEW v \in SUBSET DOMAIN graph, c.visited \subseteq v, r = f[Thereafter(c, v)],
             \A j \in v : j \in Endless(graph) => \E k \in 1 .. Len(c.stack) : c.stack[k] = j
      PROVE  Searched(graph, c, r)
  <2>1. Ready(graph, Thereafter(c, v)) /\ Thereafter(c, v) \in LoopsBelow(graph, c)
    BY <1>2, NextReady, NextBelow
  <2>2. Searched(graph, Thereafter(c, v), r)
    BY <1>2, <2>1
  <2> QED
    BY <1>2, <2>2, NextReady
<1>3. CASE c.i \in 1 .. Len(graph[c.query])
  <2>1. PICK w : w = graph[c.query][c.i]
    OBVIOUS
  <2>2. w.parent \in DOMAIN graph \cup {None} /\ None \notin DOMAIN graph
    BY <1>3, <2>1, LoopWaiter
  <2>3. CASE Skips(graph, f, c, w, r)
    <3>1. w.parent \notin Endless(graph)
      <4>1. CASE w.parent = None
        BY <2>2, <4>1, EndlessClosed
      <4>2. CASE w.parent \in c.visited /\ w.parent \notin ToSet(c.stack)
        <5>1. DOMAIN c.stack = 1 .. Len(c.stack)
          BY LoopFields, LenProperties
        <5>2. \A k \in 1 .. Len(c.stack) : c.stack[k] # w.parent
          BY <4>2, <5>1 DEF ToSet
        <5> QED
          BY <4>2, <5>2 DEF Ready
      <4> QED
        BY <2>3, <4>1, <4>2 DEF Skips
    <3>2. r = f[Thereafter(c, c.visited)]
      BY <2>3 DEF Skips
    <3>3. \A j \in c.visited : j \in Endless(graph) => \E k \in 1 .. Len(c.stack) : c.stack[k] = j
      BY DEF Ready
    <3> QED
      BY <1>0, <1>2, <1>3, <2>1, <3>1, <3>2, <3>3
  <2>4. CASE Closes(graph, c, w, r)
    BY <1>3, <2>1, <2>4, CloseFinds
  <2>5. CASE Passes(graph, f, c, w, r) \/ Finds(graph, f, c, w, r)
    <3>1. PICK p \in DOMAIN graph : p = w.parent /\ p \notin c.visited
      BY <2>5 DEF Passes, Finds
    <3>2. PICK d : d = Called(c, p)
      OBVIOUS
    <3>3. PICK b : b = f[d]
      OBVIOUS
    <3>4. d \in LoopsBelow(graph, c)
      BY <3>1, <3>2, CallBelow
    <3>5. PICK n \in Nat : n = Len(c.stack) /\ n > 0
      BY LoopFields, LenProperties DEF Ready
    <3>6. /\ Ready(graph, d) /\ d.query = p /\ d.visited = c.visited \cup {p}
          /\ Len(d.stack) = n + 1 /\ d.stack[n + 1] = p
          /\ \A k \in 1 .. n : d.stack[k] = c.stack[k]
      BY <1>3, <2>1, <3>1, <3>2, <3>5, CallReady
    <3>7. Searched(graph, d, b)
      BY <3>3, <3>4, <3>6
    <3>8. b.visited \in SUBSET DOMAIN graph /\ c.visited \subseteq b.visited
      <4>1. Good(graph, d, b)
        BY <3>3, <3>4
      <4> QED
        BY <3>6, <4>1 DEF Good, Outcome
    <3>9. CASE Passes(graph, f, c, w, r)
      <4>1. ~b.flow.break /\ r = f[Thereafter(c, b.visited)]
        BY <3>1, <3>2, <3>3, <3>9 DEF Passes
      <4>2. FoundNone(graph, d, b)
        BY <3>7, <4>1 DEF Searched, FoundCycle
      <4>3. p \notin Endless(graph)
        BY <3>6, <4>2 DEF FoundNone
      <4>4. ASSUME NEW j \in b.visited, j \in Endless(graph)
            PROVE  \E k \in 1 .. Len(c.stack) : c.stack[k] = j
        <5>1. PICK k \in 1 .. n + 1 : d.stack[k] = j
          BY <3>6, <4>2, <4>4 DEF FoundNone
        <5>2. k \in 1 .. n
          BY <3>6, <4>3, <4>4, <5>1
        <5> QED
          BY <3>5, <3>6, <5>1, <5>2
      <4> QED
        BY <1>2, <1>3, <2>1, <3>1, <3>8, <4>1, <4>3, <4>4
    <3>10. CASE Finds(graph, f, c, w, r)
      <4>1. b.flow.break
        BY <3>1, <3>2, <3>3, <3>10 DEF Finds
      <4>2. FoundCycle(graph, d, b)
        BY <3>7, <4>1 DEF Searched, FoundNone
      <4> QED
        BY <1>3, <2>1, <3>1, <3>2, <3>3, <3>10, <4>2, CallFinds
    <3> QED
      BY <2>5, <3>9, <3>10
  <2> QED
    BY <1>1, <2>1, <2>3, <2>4, <2>5 DEF LoopStep
<1> QED
  BY <1>1, <1>3 DEF LoopStep

\* Every loop finds what there is.
LEMMA SearchFinds ==
  ASSUME NEW graph, IsWaitGraph(graph), NEW c \in Loops(graph), Ready(graph, c)
  PROVE  Searched(graph, c, Search(graph)[c])
<1>0. PICK s : s = Search(graph)
  OBVIOUS
<1> DEFINE Odd == {m \in Nat : \E d \in Loops(graph) : /\ Ranked(graph, d) = m /\ Ready(graph, d)
                                                       /\ ~Searched(graph, d, s[d])}
<1>1. Odd = {}
  <2>1. SUFFICES ASSUME Odd # {} PROVE FALSE
    OBVIOUS
  <2>2. PICK m \in Odd : \A t \in Odd : m <= t
    BY <2>1, LeastNat
  <2>3. PICK d \in Loops(graph) : Ranked(graph, d) = m /\ Ready(graph, d) /\ ~Searched(graph, d, s[d])
    BY <2>2
  <2>4. ASSUME NEW e \in LoopsBelow(graph, d) PROVE Good(graph, e, s[e])
    BY <1>0, SearchRuns DEF LoopsBelow
  <2>5. ASSUME NEW e \in LoopsBelow(graph, d), Ready(graph, e) PROVE Searched(graph, e, s[e])
    <3>1. e \in Loops(graph) /\ Ranked(graph, e) < m /\ Ranked(graph, e) \in Nat
      BY <2>3, RankedNat DEF LoopsBelow
    <3> QED
      BY <2>2, <2>5, <3>1
  <2>6. LoopStep(graph, s, d, s[d])
    BY <1>0, SearchSteps
  <2> QED
    BY <2>3, <2>4, <2>5, <2>6, StepFinds
<1>2. Searched(graph, c, s[c])
  BY <1>1, RankedNat
<1> QED
  BY <1>0, <1>2

\* j is one of the jobs of s from the a-th to the b-th.
Along(s, a, b, j) == \E k \in a .. b : s[k] = j

\* Every job of st waits on the next one, and the last on the first.
IsRing(graph, st) ==
  /\ IsInjective(st)
  /\ \A i \in DOMAIN st :
       \E w \in ToSet(graph[st[i]]) : w.parent = st[IF i = Len(st) THEN 1 ELSE i + 1]

\* The followed waiters lead from a job to the later ones, as long as no job on
\* the way stops them.
LEMMA LassoReach ==
  ASSUME NEW graph, IsWaitGraph(graph), NEW s, NEW m, Lasso(graph, s, m), NEW Stop,
         NEW a \in 1 .. Len(s), NEW b \in a .. Len(s), \A h \in a .. b - 1 : s[h] \notin Stop
  PROVE  s[b] \in Met(graph, s[a], Stop)
<1>1. PICK n \in Nat : n = Len(s)
  BY LenProperties DEF Lasso
<1> DEFINE Odd == {k \in Nat : k \in a .. b /\ s[k] \notin Met(graph, s[a], Stop)}
<1>2. SUFFICES ASSUME Odd # {} PROVE FALSE
  <2>1. b \in Nat /\ b \in a .. b
    BY <1>1
  <2> QED
    BY <2>1
<1>3. PICK k \in Odd : \A t \in Odd : k <= t
  BY <1>2, LeastNat
<1>4. k \in a .. b /\ k \in 1 .. n /\ s[k] \notin Met(graph, s[a], Stop)
  BY <1>1, <1>3
<1>5. s[a] \in Endless(graph)
  BY DEF Lasso
<1>6. k # a
  BY <1>4, <1>5, MetClosed
<1>7. PICK l : l = k - 1
  OBVIOUS
<1>8. l \in a .. b - 1 /\ l \in a .. b /\ l \in 1 .. n - 1 /\ l + 1 = k /\ l \in Nat /\ l < k
  BY <1>1, <1>4, <1>6, <1>7
<1>9. s[l] \in Met(graph, s[a], Stop) /\ s[l] \notin Stop
  BY <1>3, <1>8
<1>10. Followed(graph, s[l]).parent \in Met(graph, s[a], Stop)
  BY <1>5, <1>9, MetClosed
<1>11. Followed(graph, s[l]).parent = s[k]
  BY <1>1, <1>8 DEF Lasso
<1> QED
  BY <1>4, <1>10, <1>11

\* They lead nowhere else.
LEMMA LassoStays ==
  ASSUME NEW graph, IsWaitGraph(graph), NEW s, NEW m, Lasso(graph, s, m), NEW Stop,
         NEW a \in 1 .. Len(s), NEW b \in a .. Len(s),
         s[b] \in Stop \/ (b = Len(s) /\ m >= a)
  PROVE  \A j \in Met(graph, s[a], Stop) : Along(s, a, b, j)
<1>1. PICK n \in Nat : n = Len(s)
  BY LenProperties DEF Lasso
<1> DEFINE J == {s[k] : k \in a .. b}
<1>2. J \in SUBSET Endless(graph)
  <2>1. \A k \in a .. b : k \in 1 .. n
    BY <1>1
  <2> QED
    BY <1>1, <2>1 DEF Lasso
<1>3. s[a] \in J
  <2>1. a \in a .. b
    BY <1>1
  <2> QED
    BY <2>1
<1>4. ASSUME NEW k \in a .. b, s[k] \notin Stop PROVE Followed(graph, s[k]).parent \in J
  <2>1. CASE k < b
    <3>1. k \in 1 .. n - 1 /\ k + 1 \in a .. b
      BY <1>1, <2>1
    <3> QED
      BY <1>1, <3>1 DEF Lasso
  <2>2. CASE k = b
    <3>1. b = n /\ m >= a /\ m \in 1 .. n
      BY <1>1, <1>4, <2>2 DEF Lasso
    <3>2. m \in a .. b
      BY <1>1, <3>1
    <3>3. Followed(graph, s[k]).parent = s[m]
      BY <1>1, <2>2, <3>1 DEF Lasso
    <3> QED
      BY <3>2, <3>3
  <2> QED
    BY <1>1, <2>1, <2>2
<1>5. \A i \in J \ Stop : Followed(graph, i).parent \in J
  BY <1>4
<1>6. s[a] \in Endless(graph)
  BY DEF Lasso
<1>7. \A j \in J : Along(s, a, b, j)
  BY DEF Along
<1> HIDE DEF J
<1>8. Met(graph, s[a], Stop) \subseteq J
  BY <1>2, <1>3, <1>5, <1>6, MetClosed
<1> QED
  BY <1>7, <1>8

\* The cycle is what the followed waiters come back to.
LEMMA LassoCycle ==
  ASSUME NEW graph, IsWaitGraph(graph), NEW s, NEW m, Lasso(graph, s, m)
  PROVE  \A j : j \in CycleFrom(graph, s[1]) <=> Along(s, m, Len(s), j)
<1>1. PICK n \in Nat : n = Len(s) /\ m \in 1 .. n
  BY LenProperties DEF Lasso
<1>2. CycleFrom(graph, s[1]) =
        {c \in Met(graph, s[1], {}) : c \in Met(graph, Followed(graph, c).parent, {})}
  BY DEF CycleFrom
<1>3. \A k \in 1 .. n : s[k] \in Endless(graph)
  BY <1>1 DEF Lasso
<1>4. \A k \in 1 .. n - 1 : Followed(graph, s[k]).parent = s[k + 1]
  BY <1>1 DEF Lasso
<1>5. ASSUME NEW k \in m .. n PROVE s[k] \in CycleFrom(graph, s[1])
  <2>1. k \in 1 .. n /\ 1 \in 1 .. n /\ k \in 1 .. n /\ n \in 1 .. n
    BY <1>1
  <2>2. s[k] \in Met(graph, s[1], {})
    BY <1>1, <2>1, LassoReach
  <2>3. s[k] \in Met(graph, s[m], {})
    BY <1>1, LassoReach
  <2>4. CASE k = n
    <3>1. Followed(graph, s[k]).parent = s[m]
      BY <1>1, <2>4 DEF Lasso
    <3> QED
      BY <1>2, <2>2, <2>3, <3>1
  <2>5. CASE k # n
    <3>1. k \in 1 .. n - 1 /\ k + 1 \in 1 .. n /\ n \in k + 1 .. n
      BY <1>1, <2>1, <2>5
    <3>2. PICK M : M = Met(graph, s[k + 1], {})
      OBVIOUS
    <3>3. s[n] \in M
      BY <1>1, <3>1, <3>2, LassoReach
    <3>4. /\ M \in SUBSET Endless(graph)
          /\ \A i \in M \ {} : Followed(graph, i).parent \in M
      BY <1>3, <3>1, <3>2, MetClosed
    <3>5. s[m] \in M
      <4>1. Followed(graph, s[n]).parent = s[m]
        BY <1>1 DEF Lasso
      <4> QED
        BY <3>3, <3>4, <4>1
    <3>6. Met(graph, s[m], {}) \subseteq M
      BY <1>1, <1>3, <3>4, <3>5, MetClosed
    <3> QED
      BY <1>2, <1>4, <2>2, <2>3, <3>1, <3>2, <3>6
  <2> QED
    BY <2>4, <2>5
<1>6. ASSUME NEW c \in CycleFrom(graph, s[1]) PROVE Along(s, m, n, c)
  <2>1. c \in Met(graph, s[1], {}) /\ c \in Met(graph, Followed(graph, c).parent, {})
    BY <1>2
  <2>2. PICK k \in 1 .. n : s[k] = c
    <3>1. 1 \in 1 .. n /\ n \in 1 .. n /\ m >= 1
      BY <1>1
    <3>2. n = Len(s) /\ m >= 1
      BY <1>1
    <3>3. Along(s, 1, n, c)
      BY <1>1, <2>1, <3>1, <3>2, LassoStays
    <3> QED
      BY <3>3 DEF Along
  <2>3. CASE k < m
    <3>1. k \in 1 .. n - 1 /\ k + 1 \in 1 .. n /\ n \in k + 1 .. n /\ m >= k + 1
      BY <1>1, <2>3
    <3>2. c \in Met(graph, s[k + 1], {})
      BY <1>4, <2>1, <2>2, <3>1
    <3>a. Along(s, k + 1, n, c)
      <4>1. k + 1 \in 1 .. Len(s) /\ n \in k + 1 .. Len(s) /\ n = Len(s)
        BY <1>1, <3>1
      <4> QED
        BY <3>1, <3>2, <4>1, LassoStays
    <3>3. PICK l \in k + 1 .. n : s[l] = c
      BY <3>a DEF Along
    <3>4. l \in 1 .. n /\ l # k
      BY <3>1, <3>3
    <3> QED
      BY <1>1, <2>2, <3>3, <3>4 DEF Lasso
  <2>4. CASE ~(k < m)
    <3>1. k \in m .. n
      BY <1>1, <2>2, <2>4
    <3> QED
      BY <2>2, <3>1 DEF Along
  <2> QED
    BY <2>3, <2>4
<1>7. ASSUME NEW c, Along(s, m, n, c) PROVE c \in CycleFrom(graph, s[1])
  BY <1>5, <1>7 DEF Along
<1> QED
  BY <1>1, <1>6, <1>7

\* The waiter that is resumed is the first resumable one.
LEMMA LassoResumed ==
  ASSUME NEW graph, IsWaitGraph(graph), NEW s, NEW m, Lasso(graph, s, m), NEW x,
         FirstResumable(graph, s, 1, x)
  PROVE  x = ResumedFrom(graph, s[1])
<1>1. PICK n \in Nat : n = Len(s) /\ m \in 1 .. n
  BY LenProperties DEF Lasso
<1> DEFINE R == {i \in Endless(graph) : Followed(graph, i).resumable # None}
           first == Met(graph, s[1], R) \cap R
<1>2. /\ first = {} => ResumedFrom(graph, s[1]) = None
      /\ \A j : first = {j} =>
           ResumedFrom(graph, s[1]) = [waitee |-> j, waiter |-> Followed(graph, j).resumable]
  BY DEF ResumedFrom
<1>3. 1 \in 1 .. n /\ n \in 1 .. n /\ m >= 1
  BY <1>1
<1>4. \A j \in R : Followed(graph, j).resumable # None
  OBVIOUS
<1>5. \A k \in 1 .. n : Followed(graph, s[k]).resumable # None => s[k] \in R
  BY <1>1 DEF Lasso
<1> HIDE DEF R
<1>6. CASE x = None /\ \A k \in 1 .. n : Followed(graph, s[k]).resumable = None
  <2>1. ASSUME NEW j \in first PROVE FALSE
    <3>a. Along(s, 1, n, j)
      <4>1. 1 \in 1 .. Len(s) /\ n \in 1 .. Len(s) /\ n = Len(s)
        BY <1>1, <1>3
      <4> QED
        BY <1>3, <4>1, LassoStays
    <3>1. PICK k \in 1 .. n : s[k] = j
      BY <3>a DEF Along
    <3> QED
      BY <1>4, <1>6, <3>1
  <2> QED
    BY <1>2, <1>6, <2>1
<1>7. ASSUME NEW k \in 1 .. n, Followed(graph, s[k]).resumable # None,
             \A h \in 1 .. k - 1 : Followed(graph, s[h]).resumable = None,
             x = [waitee |-> s[k], waiter |-> Followed(graph, s[k]).resumable]
      PROVE  x = ResumedFrom(graph, s[1])
  <2>1. s[k] \in R
    BY <1>5, <1>7
  <2>2. \A h \in 1 .. k - 1 : s[h] \notin R
    BY <1>4, <1>7
  <2>3. s[k] \in Met(graph, s[1], R)
    BY <1>1, <1>3, <2>2, LassoReach
  <2>4. ASSUME NEW j \in first PROVE j = s[k]
    <3>a. Along(s, 1, k, j)
      <4>1. 1 \in 1 .. Len(s) /\ k \in 1 .. Len(s)
        BY <1>1, <1>3
      <4> QED
        BY <2>1, <4>1, LassoStays
    <3>1. PICK h \in 1 .. k : s[h] = j
      BY <3>a DEF Along
    <3>2. h \notin 1 .. k - 1
      BY <2>2, <3>1
    <3>3. h = k
      BY <1>1, <3>1, <3>2
    <3> QED
      BY <3>1, <3>3
  <2>5. first = {s[k]}
    BY <2>1, <2>3, <2>4
  <2> QED
    BY <1>2, <1>7, <2>5
<1> QED
  BY <1>1, <1>6, <1>7 DEF FirstResumable

\* What is left on the stack is the cycle.
LEMMA LassoStack ==
  ASSUME NEW graph, IsWaitGraph(graph), NEW s, NEW m, Lasso(graph, s, m), NEW st,
         st = SubSeq(s, m, Len(s))
  PROVE  IsRing(graph, st) /\ ToSet(st) = CycleFrom(graph, s[1])
<1>1. PICK n \in Nat : n = Len(s) /\ m \in 1 .. n
  BY LenProperties DEF Lasso
<1>2. \A k \in m .. n : s[k] \in Endless(graph)
  <2>1. \A k \in m .. n : k \in 1 .. n
    BY <1>1
  <2> QED
    BY <1>1, <2>1 DEF Lasso
<1>3. PICK l \in Nat : l = n - m + 1 /\ l > 0
  <2>1. n - m + 1 \in Nat /\ n - m + 1 > 0
    BY <1>1
  <2> QED
    BY <2>1
<1>4. /\ st \in Seq(Endless(graph)) /\ Len(st) = l
      /\ \A i \in 1 .. l : st[i] = s[m + i - 1]
  <2>1. m \in Int /\ n \in Int /\ m <= n
    BY <1>1
  <2> QED
    BY <1>1, <1>2, <1>3, <2>1, SubSeqProperties
<1>5. DOMAIN st = 1 .. l
  BY <1>4, LenProperties
<1>6. \A i \in 1 .. l : m + i - 1 \in m .. n /\ m + i - 1 \in 1 .. n
  BY <1>1, <1>3
<1>7. IsInjective(st)
  <2>1. ASSUME NEW a \in 1 .. l, NEW b \in 1 .. l, st[a] = st[b] PROVE a = b
    <3>1. m + a - 1 = m + b - 1
      BY <1>1, <1>4, <1>6, <2>1 DEF Lasso
    <3> QED
      BY <1>1, <3>1
  <2> QED
    BY <1>5, <2>1 DEF IsInjective
<1>8. ASSUME NEW i \in 1 .. l
      PROVE  \E w \in ToSet(graph[st[i]]) : w.parent = st[IF i = l THEN 1 ELSE i + 1]
  <2>1. st[i] \in Endless(graph)
    BY <1>4, <1>6, <1>2
  <2>2. Followed(graph, st[i]) \in ToSet(graph[st[i]])
    <3>1. PICK j : j = st[i] /\ j \in Endless(graph)
      BY <2>1
    <3>2. PICK h \in DOMAIN graph[j] : Followed(graph, j) = graph[j][h]
      BY <3>1, FollowedWaiter
    <3>3. PICK ws : ws = graph[j]
      OBVIOUS
    <3>4. ws[h] \in ToSet(ws)
      BY <3>2, <3>3 DEF ToSet
    <3> QED
      BY <3>1, <3>2, <3>3, <3>4
  <2>3. Followed(graph, st[i]).parent = st[IF i = l THEN 1 ELSE i + 1]
    <3>1. CASE i = l
      <4>1. st[i] = s[n] /\ st[1] = s[m]
        BY <1>1, <1>3, <1>4, <3>1
      <4> QED
        BY <1>1, <3>1, <4>1 DEF Lasso
    <3>2. CASE i # l
      <4>1. i + 1 \in 1 .. l /\ m + i - 1 \in 1 .. n - 1 /\ m + (i + 1) - 1 = (m + i - 1) + 1
        BY <1>1, <1>3, <3>2
      <4>2. st[i] = s[m + i - 1] /\ st[i + 1] = s[(m + i - 1) + 1]
        BY <1>4, <4>1
      <4> QED
        BY <1>1, <3>2, <4>1, <4>2 DEF Lasso
    <3> QED
      BY <3>1, <3>2
  <2> QED
    BY <2>2, <2>3
<1>9. \A j : j \in ToSet(st) <=> Along(s, m, n, j)
  <2>1. ASSUME NEW k \in m .. n PROVE \E i \in 1 .. l : st[i] = s[k]
    <3>1. k - m + 1 \in 1 .. l /\ m + (k - m + 1) - 1 = k
      BY <1>1, <1>3
    <3> QED
      BY <1>4, <3>1
  <2>2. ASSUME NEW i \in 1 .. l PROVE Along(s, m, n, st[i])
    BY <1>4, <1>6 DEF Along
  <2>3. ToSet(st) = {st[i] : i \in 1 .. l}
    BY <1>5, Zenon DEF ToSet
  <2>4. ASSUME NEW j, Along(s, m, n, j) PROVE j \in ToSet(st)
    <3>1. PICK k \in m .. n : s[k] = j
      BY <2>4 DEF Along
    <3> QED
      BY <2>1, <2>3, <3>1
  <2>5. ASSUME NEW j \in ToSet(st) PROVE Along(s, m, n, j)
    BY <2>2, <2>3
  <2> QED
    BY <2>4, <2>5
<1>10. \A j : j \in CycleFrom(graph, s[1]) <=> Along(s, m, n, j)
  BY <1>1, LassoCycle
<1>11. ToSet(st) = CycleFrom(graph, s[1])
  BY <1>9, <1>10
<1> QED
  BY <1>4, <1>5, <1>7, <1>8, <1>11 DEF IsRing

-----------------------------------------------------------------------------
\* A search that begins with the job q.
LEMMA StartReady ==
  ASSUME NEW graph, IsWaitGraph(graph), NEW q \in DOMAIN graph, NEW c,
         c = [query |-> q, i |-> 1, stack |-> Append(<<>>, q), visited |-> {} \cup {q}]
  PROVE  /\ c \in Loops(graph) /\ Ready(graph, c)
         /\ c.query = q /\ Len(c.stack) = 1 /\ c.stack[1] = q
<1>1. PICK t : t = Append(<<>>, q)
  OBVIOUS
<1>2. t \in Seq(DOMAIN graph) /\ Len(t) = 1 /\ t[1] = q
  BY <1>1, EmptySeq, AppendProperties
<1>3. c.query = q /\ c.i = 1 /\ c.stack = t /\ c.visited = {q}
  BY <1>1
<1>4. c \in Loops(graph)
  <2>1. {q} \in SUBSET DOMAIN graph
    OBVIOUS
  <2>2. c \in [query : DOMAIN graph, i : Nat \ {0}, stack : Seq(DOMAIN graph),
               visited : SUBSET DOMAIN graph]
    BY <1>1, <1>2, <2>1
  <2> QED
    BY <1>3, <2>2 DEF Loops
<1>5. \A k \in 1 .. 1 : k = 1
  OBVIOUS
<1>6. 1 .. 1 - 1 = {} /\ 1 \in 1 .. 1
  OBVIOUS
<1>7. Trail(graph, t)
  BY <1>2, <1>5, <1>6 DEF Trail
<1>8. Ready(graph, c)
  BY <1>2, <1>3, <1>5, <1>6, <1>7 DEF Ready
<1> QED
  BY <1>2, <1>3, <1>4, <1>8

\* The stack, the cycle and the waiter that find_cycle returns.
LEMMA CycleSearched ==
  ASSUME NEW graph, IsWaitGraph(graph), NEW q \in DOMAIN graph, NEW fl,
         fl = find_cycle(Search(graph), q, <<>>, {}).flow
  PROVE  /\ fl.break <=> q \in Endless(graph)
         /\ fl.break \in BOOLEAN
         /\ fl.break =>
              /\ IsRing(graph, fl.stack)
              /\ ToSet(fl.stack) = CycleFrom(graph, q)
              /\ fl.resumable = ResumedFrom(graph, q)
<1>1. PICK c : c = [query |-> q, i |-> 1, stack |-> Append(<<>>, q), visited |-> {} \cup {q}]
  OBVIOUS
<1>2. PICK r : r = Search(graph)[c]
  OBVIOUS
<1>3. fl = r.flow
  BY <1>1, <1>2 DEF find_cycle
<1>4. /\ c \in Loops(graph) /\ Ready(graph, c)
      /\ c.query = q /\ Len(c.stack) = 1 /\ c.stack[1] = q
  BY <1>1, StartReady
<1>5. Searched(graph, c, r)
  BY <1>2, <1>4, SearchFinds
<1>6. r \in Outcome(graph)
  BY <1>2, <1>4, SearchSteps DEF Good
<1>7. fl.break \in BOOLEAN
  BY <1>3, <1>6 DEF Outcome, Flow
<1>8. CASE FoundNone(graph, c, r)
  BY <1>3, <1>4, <1>7, <1>8 DEF FoundNone
<1>9. CASE FoundCycle(graph, c, r)
  <2>1. PICK s, m : /\ Lasso(graph, s, m)
                    /\ Len(c.stack) <= Len(s) /\ \A k \in 1 .. Len(c.stack) : s[k] = c.stack[k]
                    /\ r.flow.stack = SubSeq(s, m, Len(s))
                    /\ FirstResumable(graph, s, Len(c.stack), r.flow.resumable)
    BY <1>9 DEF FoundCycle
  <2>2. fl.break
    BY <1>3, <1>9 DEF FoundCycle
  <2>3. s[1] = q
    BY <1>4, <2>1
  <2>4. q \in Endless(graph)
    <3>1. 1 \in 1 .. Len(s)
      BY <1>4, <2>1, LenProperties DEF Lasso
    <3> QED
      BY <2>1, <2>3, <3>1 DEF Lasso
  <2>5. fl.stack = SubSeq(s, m, Len(s)) /\ FirstResumable(graph, s, 1, fl.resumable)
    BY <1>3, <1>4, <2>1
  <2>6. PICK st : st = fl.stack /\ st = SubSeq(s, m, Len(s))
    BY <2>5
  <2>7. IsRing(graph, st) /\ ToSet(st) = CycleFrom(graph, q)
    <3>1. Lasso(graph, s, m)
      BY <2>1
    <3>2. st = SubSeq(s, m, Len(s))
      BY <2>6
    <3>3. IsRing(graph, st) /\ ToSet(st) = CycleFrom(graph, s[1])
      BY <3>1, <3>2, LassoStack, Zenon
    <3> QED
      BY <2>3, <3>3, Zenon
  <2>8. fl.resumable = ResumedFrom(graph, q)
    BY <2>1, <2>3, <2>5, LassoResumed
  <2> QED
    BY <1>7, <2>2, <2>4, <2>6, <2>7, <2>8
<1> QED
  BY <1>5, <1>8, <1>9 DEF Searched

-----------------------------------------------------------------------------
(* What connected_to_root does in one step. *)

\* The loop calls for the job p.
RootCalled(c, p) == [query |-> p, i |-> 1, visited |-> c.visited \cup {p}]

RootBelow(graph, c) == {d \in RootLoops(graph) : Ranked(graph, d) < Ranked(graph, c)}

RootGood(graph, c, r) ==
  r \in [yes : BOOLEAN, visited : SUBSET DOMAIN graph] /\ c.visited \subseteq r.visited

\* At the end of the loop, at the root, at a visited job, and at another one.
RootStep(graph, f, c, r) ==
  \/ c.i > Len(graph[c.query]) /\ r = [yes |-> FALSE, visited |-> c.visited]
  \/ /\ c.i \in 1 .. Len(graph[c.query])
     /\ LET p == graph[c.query][c.i].parent IN
        \/ p = None /\ r = [yes |-> TRUE, visited |-> c.visited]
        \/ p \in c.visited /\ r = f[Thereafter(c, c.visited)]
        \/ /\ p \in DOMAIN graph /\ p \notin c.visited
           /\ f[RootCalled(c, p)].yes /\ r = f[RootCalled(c, p)]
        \/ /\ p \in DOMAIN graph /\ p \notin c.visited
           /\ ~f[RootCalled(c, p)].yes
           /\ r = f[Thereafter(c, f[RootCalled(c, p)].visited)]

\* A loop by its parts.
LEMMA RootFields ==
  ASSUME NEW graph, IsWaitGraph(graph), NEW c \in RootLoops(graph)
  PROVE  /\ c \in [query : DOMAIN graph, i : Nat \ {0}, visited : SUBSET DOMAIN graph]
         /\ c.query \in DOMAIN graph /\ c.i \in Nat \ {0}
         /\ c.visited \in SUBSET DOMAIN graph /\ c.query \in c.visited
         /\ None \notin DOMAIN graph
         /\ Len(graph[c.query]) \in Nat /\ DOMAIN graph[c.query] = 1 .. Len(graph[c.query])
         /\ \A h \in DOMAIN graph[c.query] : graph[c.query][h].parent \in DOMAIN graph \cup {None}
<1>1. /\ c \in [query : DOMAIN graph, i : Nat \ {0}, visited : SUBSET DOMAIN graph]
      /\ c.query \in c.visited
  BY DEF RootLoops
<1> QED
  BY <1>1 DEF IsWaitGraph

\* The next waiter.
LEMMA RootNextBelow ==
  ASSUME NEW graph, IsWaitGraph(graph), NEW c \in RootLoops(graph),
         c.i \in 1 .. Len(graph[c.query]), NEW v \in SUBSET DOMAIN graph, c.visited \subseteq v
  PROVE  /\ Thereafter(c, v) \in RootBelow(graph, c)
         /\ Thereafter(c, v).query = c.query /\ Thereafter(c, v).i = c.i + 1
         /\ Thereafter(c, v).visited = v
<1> DEFINE d == Thereafter(c, v)
<1>1. /\ d \in [query : DOMAIN graph, i : Nat \ {0}, visited : SUBSET DOMAIN graph]
      /\ d.query = c.query /\ d.i = c.i + 1 /\ d.visited = v
  <2>1. /\ c \in [query : DOMAIN graph, i : Nat \ {0}, visited : SUBSET DOMAIN graph]
        /\ c.i \in Nat \ {0}
    BY RootFields
  <2>2. c.i + 1 \in Nat \ {0}
    BY <2>1
  <2>3. PICK k \in Nat \ {0} : k = c.i + 1
    BY <2>2
  <2>4. d = [c EXCEPT !.i = k, !.visited = v]
    BY <2>3 DEF Thereafter
  <2> HIDE DEF d
  <2> QED
    BY <2>1, <2>3, <2>4
<1> HIDE DEF d
<1>2. d \in RootLoops(graph)
  BY <1>1, RootFields DEF RootLoops
<1>3. Rank(graph, c.query, c.i + 1, v) < Rank(graph, c.query, c.i, c.visited)
  BY RootFields, RankNext
<1>4. d \in RootBelow(graph, c)
  BY <1>1, <1>2, <1>3 DEF RootBelow, Ranked
<1> QED
  BY <1>1, <1>4 DEF d

\* The call.
LEMMA RootCallBelow ==
  ASSUME NEW graph, IsWaitGraph(graph), NEW c \in RootLoops(graph),
         NEW p \in DOMAIN graph, p \notin c.visited
  PROVE  /\ RootCalled(c, p) \in RootBelow(graph, c)
         /\ RootCalled(c, p).query = p /\ RootCalled(c, p).i = 1
         /\ RootCalled(c, p).visited = c.visited \cup {p}
<1> DEFINE d == RootCalled(c, p)
<1>1. c.visited \cup {p} \in SUBSET DOMAIN graph
  BY RootFields
<1>2. /\ d \in [query : DOMAIN graph, i : Nat \ {0}, visited : SUBSET DOMAIN graph]
      /\ d.query = p /\ d.i = 1 /\ d.visited = c.visited \cup {p}
  BY <1>1 DEF RootCalled
<1> HIDE DEF d
<1>3. d \in RootLoops(graph)
  BY <1>2 DEF RootLoops
<1>4. Rank(graph, p, 1, c.visited \cup {p}) < Rank(graph, c.query, c.i, c.visited)
  BY RankCall
<1>5. d \in RootBelow(graph, c)
  BY <1>2, <1>3, <1>4 DEF RootBelow, Ranked
<1> QED
  BY <1>2, <1>5 DEF d

\* What the body of the loop is.
LEMMA RootSteps ==
  ASSUME NEW graph, IsWaitGraph(graph), NEW c \in RootLoops(graph), NEW f
  PROVE  RootStep(graph, f, c, any_connected(graph, f, c))
<1>a. PICK R : R = any_connected(graph, f, c)
  OBVIOUS
<1>b. SUFFICES RootStep(graph, f, c, R)
  BY <1>a
<1>0. /\ c.query \in DOMAIN graph /\ c.i \in Nat \ {0} /\ c.visited \in SUBSET DOMAIN graph
      /\ Len(graph[c.query]) \in Nat /\ DOMAIN graph[c.query] = 1 .. Len(graph[c.query])
      /\ None \notin DOMAIN graph
      /\ \A h \in DOMAIN graph[c.query] : graph[c.query][h].parent \in DOMAIN graph \cup {None}
  BY RootFields
<1>1. CASE c.i > Len(graph[c.query])
  <2>1. R = [yes |-> FALSE, visited |-> c.visited]
    BY <1>1, <1>a DEF any_connected
  <2> QED
    BY <1>1, <2>1 DEF RootStep
<1>2. CASE ~(c.i > Len(graph[c.query]))
  <2>1. c.i \in 1 .. Len(graph[c.query])
    BY <1>0, <1>2
  <2>2. PICK p : p = graph[c.query][c.i].parent
    OBVIOUS
  <2>3. p \in DOMAIN graph \cup {None}
    BY <1>0, <2>1, <2>2
  <2> DEFINE r == connected_to_root(f, p, c.visited)
  <2>4. /\ p = None => R = [yes |-> TRUE, visited |-> c.visited]
        /\ p # None /\ r.yes => R = r
        /\ p # None /\ ~r.yes => R = Onward(f, c, r.visited)
    BY <1>2, <1>a, <2>2 DEF any_connected
  <2>5. \A v : Onward(f, c, v) = f[Thereafter(c, v)]
    BY DEF Onward, Thereafter
  <2>6. CASE p = None
    BY <2>1, <2>2, <2>4, <2>6 DEF RootStep
  <2>7. CASE p \in c.visited
    <3>1. ~r.yes /\ r.visited = c.visited
      BY <2>7 DEF connected_to_root
    <3>2. p # None
      BY <1>0, <2>7
    <3>3. R = f[Thereafter(c, c.visited)]
      BY <2>4, <2>5, <3>1, <3>2
    <3> QED
      BY <2>1, <2>2, <2>7, <3>3 DEF RootStep
  <2>8. CASE p # None /\ p \notin c.visited
    <3>1. r = f[RootCalled(c, p)] /\ p \in DOMAIN graph
      BY <2>3, <2>8 DEF connected_to_root, RootCalled
    <3> HIDE DEF r
    <3>2. CASE r.yes
      BY <2>1, <2>2, <2>4, <2>8, <3>1, <3>2 DEF RootStep, r
    <3>3. CASE ~r.yes
      <4>1. R = f[Thereafter(c, r.visited)]
        BY <2>4, <2>5, <2>8, <3>3 DEF r
      <4> QED
        BY <2>1, <2>2, <2>8, <3>1, <3>3, <4>1 DEF RootStep
    <3> QED
      BY <3>2, <3>3
  <2> QED
    BY <2>6, <2>7, <2>8
<1> QED
  BY <1>1, <1>2

\* What a loop returns is good if what it uses is.
LEMMA RootStepGood ==
  ASSUME NEW graph, IsWaitGraph(graph), NEW c \in RootLoops(graph), NEW f, NEW r,
         \A d \in RootBelow(graph, c) : RootGood(graph, d, f[d]), RootStep(graph, f, c, r)
  PROVE  RootGood(graph, c, r)
<1>0. c.visited \in SUBSET DOMAIN graph
  BY RootFields
<1>1. \A b \in BOOLEAN : RootGood(graph, c, [yes |-> b, visited |-> c.visited])
  BY <1>0 DEF RootGood
<1>2. ASSUME c.i \in 1 .. Len(graph[c.query]), NEW v \in SUBSET DOMAIN graph, c.visited \subseteq v
      PROVE  RootGood(graph, c, f[Thereafter(c, v)])
  BY <1>2, RootNextBelow DEF RootGood
<1>3. ASSUME NEW p \in DOMAIN graph, p \notin c.visited
      PROVE  /\ RootGood(graph, c, f[RootCalled(c, p)])
             /\ f[RootCalled(c, p)].visited \in SUBSET DOMAIN graph
             /\ c.visited \subseteq f[RootCalled(c, p)].visited
  <2>1. RootGood(graph, RootCalled(c, p), f[RootCalled(c, p)])
    BY <1>3, RootCallBelow
  <2>2. c.visited \subseteq RootCalled(c, p).visited
    BY <1>3, RootCallBelow
  <2> QED
    BY <2>1, <2>2 DEF RootGood
<1>4. CASE c.i \in 1 .. Len(graph[c.query])
  <2>1. PICK p : p = graph[c.query][c.i].parent
    OBVIOUS
  <2>2. \/ p = None /\ r = [yes |-> TRUE, visited |-> c.visited]
        \/ p \in c.visited /\ r = f[Thereafter(c, c.visited)]
        \/ /\ p \in DOMAIN graph /\ p \notin c.visited
           /\ f[RootCalled(c, p)].yes /\ r = f[RootCalled(c, p)]
        \/ /\ p \in DOMAIN graph /\ p \notin c.visited
           /\ ~f[RootCalled(c, p)].yes
           /\ r = f[Thereafter(c, f[RootCalled(c, p)].visited)]
        \/ r = [yes |-> FALSE, visited |-> c.visited]
    BY <2>1 DEF RootStep
  <2> QED
    BY <1>0, <1>1, <1>2, <1>3, <1>4, <2>2
<1> QED
  BY <1>1, <1>4 DEF RootStep

\* The body of the loop depends on the loops below it only.
LEMMA RootBodyLocal ==
  ASSUME NEW graph, IsWaitGraph(graph), NEW c \in RootLoops(graph), NEW f, NEW h,
         \A d \in RootBelow(graph, c) : RootGood(graph, d, f[d]),
         \A d \in RootBelow(graph, c) : h[d] = f[d]
  PROVE  any_connected(graph, h, c) = any_connected(graph, f, c)
<1>1. PICK R, Q : R = any_connected(graph, f, c) /\ Q = any_connected(graph, h, c)
  OBVIOUS
<1>2. RootStep(graph, f, c, R) /\ RootStep(graph, h, c, Q)
  BY <1>1, RootSteps
<1>3. /\ None \notin DOMAIN graph /\ c.visited \in SUBSET DOMAIN graph
      /\ Len(graph[c.query]) \in Nat /\ c.i \in Nat
  BY RootFields
<1>4. CASE ~(c.i \in 1 .. Len(graph[c.query]))
  BY <1>1, <1>2, <1>4 DEF RootStep
<1>5. CASE c.i \in 1 .. Len(graph[c.query])
  <2>0. ~(c.i > Len(graph[c.query]))
    BY <1>3, <1>5
  <2>1. PICK p : p = graph[c.query][c.i].parent
    OBVIOUS
  <2>2. ASSUME NEW v \in SUBSET DOMAIN graph, c.visited \subseteq v
        PROVE  h[Thereafter(c, v)] = f[Thereafter(c, v)]
    BY <1>5, <2>2, RootNextBelow
  <2>3. CASE p = None
    <3>1. R = [yes |-> TRUE, visited |-> c.visited] /\ Q = [yes |-> TRUE, visited |-> c.visited]
      BY <1>2, <1>3, <2>0, <2>1, <2>3 DEF RootStep
    <3> QED
      BY <1>1, <3>1
  <2>4. CASE p \in c.visited
    <3>1. R = f[Thereafter(c, c.visited)] /\ Q = h[Thereafter(c, c.visited)]
      BY <1>2, <1>3, <2>0, <2>1, <2>4 DEF RootStep
    <3> QED
      BY <1>1, <1>3, <2>2, <3>1
  <2>5. CASE p # None /\ p \notin c.visited
    <3>1. p \in DOMAIN graph
      BY <1>2, <2>0, <2>1, <2>5 DEF RootStep
    <3>2. PICK b : b = f[RootCalled(c, p)] /\ b = h[RootCalled(c, p)]
      BY <2>5, <3>1, RootCallBelow
    <3>3. b.visited \in SUBSET DOMAIN graph /\ c.visited \subseteq b.visited
      <4>1. RootGood(graph, RootCalled(c, p), b)
        BY <2>5, <3>1, <3>2, RootCallBelow
      <4>2. c.visited \subseteq RootCalled(c, p).visited
        BY <2>5, <3>1, RootCallBelow
      <4> QED
        BY <4>1, <4>2 DEF RootGood
    <3>4. CASE b.yes
      <4>1. R = b /\ Q = b
        BY <1>2, <2>0, <2>1, <2>5, <3>2, <3>4 DEF RootStep
      <4> QED
        BY <1>1, <4>1
    <3>5. CASE ~b.yes
      <4>1. R = f[Thereafter(c, b.visited)] /\ Q = h[Thereafter(c, b.visited)]
        BY <1>2, <2>0, <2>1, <2>5, <3>2, <3>5 DEF RootStep
      <4> QED
        BY <1>1, <2>2, <3>3, <4>1
    <3> QED
      BY <3>4, <3>5
  <2> QED
    BY <2>3, <2>4, <2>5
<1> QED
  BY <1>4, <1>5

-----------------------------------------------------------------------------
(* That search is well defined too. *)

\* A search that gives up in loops with the rank n.
RootUpto(graph, f, n) ==
  /\ f = [c \in RootLoops(graph) |-> IF Ranked(graph, c) < n THEN any_connected(graph, f, c)
                                     ELSE [yes |-> FALSE, visited |-> c.visited]]
  /\ \A c \in RootLoops(graph) : RootGood(graph, c, f[c])

\* To give up is good.
LEMMA RootNothingGood ==
  ASSUME NEW graph, IsWaitGraph(graph), NEW c \in RootLoops(graph)
  PROVE  RootGood(graph, c, [yes |-> FALSE, visited |-> c.visited])
<1>1. c.visited \in SUBSET DOMAIN graph
  BY RootFields
<1> QED
  BY <1>1 DEF RootGood

\* One rank more.
LEMMA RootUptoNext ==
  ASSUME NEW graph, IsWaitGraph(graph), NEW n \in Nat, NEW f, RootUpto(graph, f, n)
  PROVE  \E h : RootUpto(graph, h, n + 1)
<1> DEFINE h == [c \in RootLoops(graph) |-> IF Ranked(graph, c) < n + 1
                                            THEN any_connected(graph, f, c)
                                            ELSE [yes |-> FALSE, visited |-> c.visited]]
<1>1. \A c \in RootLoops(graph) :
        /\ Ranked(graph, c) < n + 1 => h[c] = any_connected(graph, f, c)
        /\ ~(Ranked(graph, c) < n + 1) => h[c] = [yes |-> FALSE, visited |-> c.visited]
  OBVIOUS
<1>2. \A c \in RootLoops(graph) : Ranked(graph, c) < n => f[c] = any_connected(graph, f, c)
  BY DEF RootUpto
<1>3. \A c \in RootLoops(graph) : RootGood(graph, c, f[c])
  BY DEF RootUpto
<1>4. h = [c \in RootLoops(graph) |-> h[c]]
  OBVIOUS
<1> HIDE DEF h
<1>5. ASSUME NEW c \in RootLoops(graph), Ranked(graph, c) < n + 1
      PROVE  h[c] = any_connected(graph, h, c) /\ RootGood(graph, c, h[c])
  <2>1. ASSUME NEW d \in RootBelow(graph, c) PROVE h[d] = f[d] /\ RootGood(graph, d, f[d])
    <3>1. d \in RootLoops(graph) /\ Ranked(graph, d) < Ranked(graph, c)
      BY DEF RootBelow
    <3>2. Ranked(graph, d) < n /\ Ranked(graph, d) < n + 1
      BY <1>5, <3>1, RankedNat
    <3> QED
      BY <1>1, <1>2, <1>3, <3>1, <3>2
  <2>2. any_connected(graph, h, c) = any_connected(graph, f, c)
    BY <2>1, RootBodyLocal
  <2>3. RootGood(graph, c, any_connected(graph, f, c))
    BY <2>1, RootSteps, RootStepGood
  <2> QED
    BY <1>1, <1>5, <2>2, <2>3
<1>6. ASSUME NEW c \in RootLoops(graph) PROVE RootGood(graph, c, h[c])
  BY <1>1, <1>5, RootNothingGood
<1>7. \A c \in RootLoops(graph) :
        h[c] = IF Ranked(graph, c) < n + 1 THEN any_connected(graph, h, c)
               ELSE [yes |-> FALSE, visited |-> c.visited]
  BY <1>1, <1>5
<1>8. h = [c \in RootLoops(graph) |-> IF Ranked(graph, c) < n + 1 THEN any_connected(graph, h, c)
                                      ELSE [yes |-> FALSE, visited |-> c.visited]]
  BY <1>4, <1>7
<1> QED
  BY <1>6, <1>8 DEF RootUpto

\* The search for every rank.
LEMMA RootUptoAny ==
  ASSUME NEW graph, IsWaitGraph(graph), NEW n \in Nat
  PROVE  \E f : RootUpto(graph, f, n)
<1> DEFINE Bad == {m \in Nat : ~ \E f : RootUpto(graph, f, m)}
<1>1. SUFFICES ASSUME Bad # {} PROVE FALSE
  OBVIOUS
<1>2. PICK m \in Bad : \A t \in Bad : m <= t
  BY <1>1, LeastNat
<1>3. m \in Nat /\ ~ \E f : RootUpto(graph, f, m)
  BY <1>2
<1>4. m # 0
  <2> DEFINE f == [c \in RootLoops(graph) |-> [yes |-> FALSE, visited |-> c.visited]]
  <2>1. \A c \in RootLoops(graph) : ~(Ranked(graph, c) < 0)
    BY RankedNat
  <2>2. f = [c \in RootLoops(graph) |-> IF Ranked(graph, c) < 0 THEN any_connected(graph, f, c)
                                        ELSE [yes |-> FALSE, visited |-> c.visited]]
    BY <2>1
  <2>3. \A c \in RootLoops(graph) : RootGood(graph, c, f[c])
    BY RootNothingGood
  <2> HIDE DEF f
  <2>4. RootUpto(graph, f, 0)
    BY <2>2, <2>3 DEF RootUpto
  <2> QED
    BY <1>3, <2>4
<1>5. PICK k \in Nat : m = k + 1
  <2>1. m - 1 \in Nat /\ m = (m - 1) + 1
    BY <1>3, <1>4
  <2> QED
    BY <2>1
<1>6. k \notin Bad
  BY <1>2, <1>5
<1>7. PICK f : RootUpto(graph, f, k)
  BY <1>6
<1> QED
  BY <1>3, <1>5, <1>7, RootUptoNext

\* connected_to_root is the search that never gives up.
LEMMA RootSearchRuns ==
  ASSUME NEW graph, IsWaitGraph(graph), NEW c \in RootLoops(graph)
  PROVE  RootStep(graph, RootSearch(graph), c, RootSearch(graph)[c])
<1>1. PICK n \in Nat : \A d : Ranked(graph, d) < n
  <2>1. PICK k \in Nat : k = Cardinality(Steps(graph))
    BY RankedNat
  <2>2. \A d : Ranked(graph, d) < k + 1
    BY <2>1, RankedNat
  <2> QED
    BY <2>2
<1>2. PICK f : RootUpto(graph, f, n)
  BY RootUptoAny
<1>3. f = [d \in RootLoops(graph) |-> any_connected(graph, f, d)]
  BY <1>1, <1>2 DEF RootUpto
<1>4. RootSearch(graph) =
        CHOOSE loop : loop = [d \in RootLoops(graph) |-> any_connected(graph, loop, d)]
  BY Zenon DEF RootSearch
<1> DEFINE s == RootSearch(graph)
<1>5. s = [d \in RootLoops(graph) |-> any_connected(graph, s, d)]
  BY <1>3, <1>4, Zenon
<1> HIDE DEF s
<1>6. s[c] = any_connected(graph, s, c)
  BY <1>5
<1>7. RootStep(graph, s, c, s[c])
  BY <1>6, RootSteps
<1> QED
  BY <1>7 DEF s

-----------------------------------------------------------------------------
(* What connected_to_root finds. *)

\* A waiter of j is the root, or reaches it outside the cycle.
Leads(graph, ring, j) ==
  \E h \in DOMAIN graph[j] : graph[j][h].parent \in {None} \cup RootedOutside(graph, ring)

\* The waiters of j are among the jobs v.
Inside(graph, j, n, v) ==
  \A h \in DOMAIN graph[j] : h >= n => graph[j][h].parent \in v

RootSearched(graph, ring, c, r) ==
  /\ RootGood(graph, c, r)
  /\ r.yes /\ ring \subseteq c.visited => Leads(graph, ring, c.query)
  /\ ~r.yes => /\ \A x \in r.visited \ c.visited : Inside(graph, x, 1, r.visited)
               /\ Inside(graph, c.query, c.i, r.visited)

\* A job outside the cycle that leads to the root.
LEMMA LeadsRooted ==
  ASSUME NEW graph, IsWaitGraph(graph), NEW ring, NEW j \in DOMAIN graph, j \notin ring,
         ring \subseteq DOMAIN graph, Leads(graph, ring, j)
  PROVE  j \in RootedOutside(graph, ring)
<1> DEFINE Outside == DOMAIN graph \ ring
           IsClosed(J) == \A k \in J : \A i \in DOMAIN graph[k] : graph[k][i].parent \in J \cup ring
           Sets == {J \in SUBSET Outside : IsClosed(J)}
<1>1. RootedOutside(graph, ring) = Outside \ UNION Sets
  BY DEF RootedOutside
<1>2. PICK h \in DOMAIN graph[j] : graph[j][h].parent \in {None} \cup (Outside \ UNION Sets)
  BY <1>1 DEF Leads
<1>3. None \notin DOMAIN graph
  BY DEF IsWaitGraph
<1>4. ASSUME NEW J \in Sets, j \in J PROVE FALSE
  <2>1. graph[j][h].parent \in J \cup ring
    BY <1>4
  <2>2. J \subseteq Outside
    OBVIOUS
  <2> QED
    BY <1>2, <1>3, <2>1, <2>2
<1> QED
  BY <1>1, <1>4

\* A set of jobs outside the cycle that does not lead out of it and the cycle.
LEMMA NotRooted ==
  ASSUME NEW graph, NEW ring, NEW J, J \subseteq DOMAIN graph \ ring,
         \A j \in J : \A i \in DOMAIN graph[j] : graph[j][i].parent \in J \cup ring
  PROVE  \A j \in J : j \notin RootedOutside(graph, ring)
<1> DEFINE Outside == DOMAIN graph \ ring
           IsClosed(K) == \A k \in K : \A i \in DOMAIN graph[k] : graph[k][i].parent \in K \cup ring
           Sets == {K \in SUBSET Outside : IsClosed(K)}
<1>1. RootedOutside(graph, ring) = Outside \ UNION Sets
  BY DEF RootedOutside
<1>2. J \in Sets
  OBVIOUS
<1> QED
  BY <1>1, <1>2

\* A loop that goes on to its next waiter.
LEMMA RootNextFinds ==
  ASSUME NEW graph, IsWaitGraph(graph), NEW c \in RootLoops(graph), NEW ring,
         c.i \in 1 .. Len(graph[c.query]), NEW v \in SUBSET DOMAIN graph, c.visited \subseteq v,
         graph[c.query][c.i].parent \in v,
         \A x \in v \ c.visited : Inside(graph, x, 1, v),
         NEW r, RootSearched(graph, ring, Thereafter(c, v), r)
  PROVE  RootSearched(graph, ring, c, r)
<1>1. PICK d : d = Thereafter(c, v)
  OBVIOUS
<1>2. d.query = c.query /\ d.i = c.i + 1 /\ d.visited = v
  BY <1>1, RootNextBelow
<1>3. RootGood(graph, d, r) /\ v \subseteq r.visited
  BY <1>1, <1>2 DEF RootSearched, RootGood
<1>4. RootGood(graph, c, r)
  BY <1>2, <1>3 DEF RootGood
<1>5. r.yes /\ ring \subseteq c.visited => Leads(graph, ring, c.query)
  BY <1>1, <1>2 DEF RootSearched
<1>6. ASSUME ~r.yes PROVE /\ \A x \in r.visited \ c.visited : Inside(graph, x, 1, r.visited)
                          /\ Inside(graph, c.query, c.i, r.visited)
  <2>1. /\ \A x \in r.visited \ v : Inside(graph, x, 1, r.visited)
        /\ Inside(graph, c.query, c.i + 1, r.visited)
    BY <1>1, <1>2, <1>6 DEF RootSearched
  <2>2. \A x \in v \ c.visited : Inside(graph, x, 1, r.visited)
    BY <1>3 DEF Inside
  <2>3. c.i \in Nat /\ DOMAIN graph[c.query] \subseteq Nat
    BY RootFields
  <2>4. Inside(graph, c.query, c.i, r.visited)
    <3> SUFFICES ASSUME NEW h \in DOMAIN graph[c.query], h >= c.i
                 PROVE  graph[c.query][h].parent \in r.visited
      BY DEF Inside
    <3>1. CASE h = c.i
      BY <1>3, <3>1
    <3>2. CASE h # c.i
      <4>1. h >= c.i + 1
        BY <2>3, <3>2
      <4> QED
        BY <2>1, <4>1 DEF Inside
    <3> QED
      BY <3>1, <3>2
  <2> QED
    BY <2>1, <2>2, <2>4
<1> QED
  BY <1>4, <1>5, <1>6 DEF RootSearched

\* A loop finds what there is if the loops below it do.
LEMMA RootStepFinds ==
  ASSUME NEW graph, IsWaitGraph(graph), NEW c \in RootLoops(graph), NEW ring,
         NEW f, NEW r, \A d \in RootBelow(graph, c) : RootSearched(graph, ring, d, f[d]),
         RootStep(graph, f, c, r)
  PROVE  RootSearched(graph, ring, c, r)
<1>0. /\ c.query \in DOMAIN graph /\ c.i \in Nat /\ Len(graph[c.query]) \in Nat
      /\ DOMAIN graph[c.query] = 1 .. Len(graph[c.query])
      /\ None \notin DOMAIN graph /\ c.visited \in SUBSET DOMAIN graph
      /\ c.query \in c.visited
  BY RootFields
<1>1. RootGood(graph, c, r)
  BY RootStepGood DEF RootSearched
<1>2. CASE c.i > Len(graph[c.query]) /\ r = [yes |-> FALSE, visited |-> c.visited]
  <2>1. ~r.yes /\ r.visited = c.visited
    BY <1>2
  <2>2. Inside(graph, c.query, c.i, r.visited)
    BY <1>0, <1>2 DEF Inside
  <2> QED
    BY <1>1, <2>1, <2>2 DEF RootSearched
<1>3. CASE c.i \in 1 .. Len(graph[c.query])
  <2>0. ~(c.i > Len(graph[c.query])) /\ c.i \in DOMAIN graph[c.query]
    BY <1>0, <1>3
  <2>1. PICK p : p = graph[c.query][c.i].parent
    OBVIOUS
  <2>2. CASE p = None /\ r = [yes |-> TRUE, visited |-> c.visited]
    <3>1. Leads(graph, ring, c.query)
      BY <2>0, <2>1, <2>2 DEF Leads
    <3>2. r.yes
      BY <2>2
    <3> QED
      BY <1>1, <3>1, <3>2 DEF RootSearched
  <2>3. CASE p \in c.visited /\ r = f[Thereafter(c, c.visited)]
    <3>1. RootSearched(graph, ring, Thereafter(c, c.visited), r)
      BY <1>0, <1>3, <2>3, RootNextBelow
    <3>2. \A x \in c.visited \ c.visited : Inside(graph, x, 1, c.visited)
      OBVIOUS
    <3> QED
      BY <1>0, <1>3, <2>1, <2>3, <3>1, <3>2, RootNextFinds
  <2>4. CASE p \in DOMAIN graph /\ p \notin c.visited
    <3>1. PICK d : d = RootCalled(c, p)
      OBVIOUS
    <3>2. PICK b : b = f[d]
      OBVIOUS
    <3>3. /\ d \in RootBelow(graph, c) /\ d.query = p /\ d.i = 1
          /\ d.visited = c.visited \cup {p}
      BY <2>4, <3>1, RootCallBelow
    <3>4. RootSearched(graph, ring, d, b)
      BY <3>2, <3>3
    <3>5. /\ b.visited \in SUBSET DOMAIN graph /\ c.visited \subseteq b.visited /\ p \in b.visited
      BY <3>3, <3>4 DEF RootSearched, RootGood
    <3>6. CASE b.yes /\ r = b
      <4>1. ASSUME ring \subseteq c.visited PROVE Leads(graph, ring, c.query)
        <5>1. Leads(graph, ring, p)
          BY <3>3, <3>4, <3>6, <4>1 DEF RootSearched
        <5>2. p \in RootedOutside(graph, ring)
          BY <1>0, <2>4, <4>1, <5>1, LeadsRooted
        <5> QED
          BY <2>0, <2>1, <5>2 DEF Leads
      <4> QED
        BY <1>1, <3>6, <4>1 DEF RootSearched
    <3>7. CASE ~b.yes /\ r = f[Thereafter(c, b.visited)]
      <4>1. ASSUME NEW x \in b.visited \ c.visited PROVE Inside(graph, x, 1, b.visited)
        BY <3>3, <3>4, <3>7 DEF RootSearched
      <4>2. RootSearched(graph, ring, Thereafter(c, b.visited), r)
        BY <1>3, <3>5, <3>7, RootNextBelow
      <4> QED
        BY <1>3, <2>1, <3>5, <4>1, <4>2, RootNextFinds
    <3>8. \/ b.yes /\ r = b
          \/ ~b.yes /\ r = f[Thereafter(c, b.visited)]
      BY <1>0, <2>0, <2>1, <2>4, <3>1, <3>2 DEF RootStep
    <3> QED
      BY <3>6, <3>7, <3>8
  <2> QED
    BY <2>0, <2>1, <2>2, <2>3, <2>4 DEF RootStep
<1> QED
  BY <1>2, <1>3 DEF RootStep

\* Every loop finds what there is.
LEMMA RootSearchFinds ==
  ASSUME NEW graph, IsWaitGraph(graph), NEW ring, NEW c \in RootLoops(graph)
  PROVE  RootSearched(graph, ring, c, RootSearch(graph)[c])
<1>0. PICK s : s = RootSearch(graph)
  OBVIOUS
<1> DEFINE Odd == {m \in Nat : \E d \in RootLoops(graph) :
                     Ranked(graph, d) = m /\ ~RootSearched(graph, ring, d, s[d])}
<1>1. Odd = {}
  <2>1. SUFFICES ASSUME Odd # {} PROVE FALSE
    OBVIOUS
  <2>2. PICK m \in Odd : \A t \in Odd : m <= t
    BY <2>1, LeastNat
  <2>3. PICK d \in RootLoops(graph) : Ranked(graph, d) = m /\ ~RootSearched(graph, ring, d, s[d])
    BY <2>2
  <2>4. ASSUME NEW e \in RootBelow(graph, d) PROVE RootSearched(graph, ring, e, s[e])
    <3>1. e \in RootLoops(graph) /\ Ranked(graph, e) < m /\ Ranked(graph, e) \in Nat
      BY <2>3, RankedNat DEF RootBelow
    <3> QED
      BY <2>2, <3>1
  <2>5. RootStep(graph, s, d, s[d])
    BY <1>0, RootSearchRuns
  <2> QED
    BY <2>3, <2>4, <2>5, RootStepFinds
<1>2. RootSearched(graph, ring, c, s[c])
  BY <1>1, RankedNat
<1> QED
  BY <1>0, <1>2

\* connected_to_root answers whether the root reaches the job outside the cycle.
LEMMA ConnectedIs ==
  ASSUME NEW graph, IsWaitGraph(graph), NEW ring, ring \subseteq DOMAIN graph,
         NEW q \in DOMAIN graph
  PROVE  connected_to_root(RootSearch(graph), q, ring).yes <=> q \in RootedOutside(graph, ring)
<1>1. CASE q \in ring
  <2>1. ~connected_to_root(RootSearch(graph), q, ring).yes
    BY <1>1 DEF connected_to_root
  <2>2. q \notin RootedOutside(graph, ring)
    BY <1>1 DEF RootedOutside
  <2> QED
    BY <2>1, <2>2
<1>2. CASE q \notin ring
  <2>1. PICK c : c = [query |-> q, i |-> 1, visited |-> ring \cup {q}]
    OBVIOUS
  <2>2. PICK r : r = RootSearch(graph)[c]
    OBVIOUS
  <2>3. connected_to_root(RootSearch(graph), q, ring) = r
    BY <1>2, <2>1, <2>2 DEF connected_to_root
  <2>4. c.query = q /\ c.i = 1 /\ c.visited = ring \cup {q}
    BY <2>1
  <2>5. c \in RootLoops(graph)
    <3>1. ring \cup {q} \in SUBSET DOMAIN graph
      OBVIOUS
    <3> QED
      BY <2>1, <2>4, <3>1 DEF RootLoops
  <2>6. RootSearched(graph, ring, c, r)
    BY <2>2, <2>5, RootSearchFinds
  <2>7. ASSUME r.yes PROVE q \in RootedOutside(graph, ring)
    <3>1. Leads(graph, ring, q)
      BY <2>4, <2>6, <2>7 DEF RootSearched
    <3> QED
      BY <1>2, <3>1, LeadsRooted
  <2>8. ASSUME ~r.yes PROVE q \notin RootedOutside(graph, ring)
    <3>1. /\ r.visited \in SUBSET DOMAIN graph /\ ring \cup {q} \subseteq r.visited
          /\ \A x \in r.visited \ (ring \cup {q}) : Inside(graph, x, 1, r.visited)
          /\ Inside(graph, q, 1, r.visited)
      BY <2>4, <2>6, <2>8 DEF RootSearched, RootGood
    <3>2. PICK J : J = r.visited \ ring
      OBVIOUS
    <3>3. J \subseteq DOMAIN graph \ ring /\ q \in J
      BY <1>2, <3>1, <3>2
    <3>4. ASSUME NEW j \in J, NEW i \in DOMAIN graph[j] PROVE graph[j][i].parent \in J \cup ring
      <4>1. Inside(graph, j, 1, r.visited)
        BY <3>1, <3>2
      <4>2. i >= 1
        BY <3>3, <3>4 DEF IsWaitGraph
      <4>3. graph[j][i].parent \in r.visited
        BY <4>1, <4>2 DEF Inside
      <4> QED
        BY <3>2, <4>3
    <3> QED
      BY <3>3, <3>4, NotRooted
  <2> QED
    BY <2>3, <2>7, <2>8
<1> QED
  BY <1>1, <1>2

\* process_cycle collects the entry points.
LEMMA EntriesAre ==
  ASSUME NEW graph, IsWaitGraph(graph), NEW st, ToSet(st) \subseteq DOMAIN graph
  PROVE  {e.query_in_cycle : e \in entry_points(graph, st)} = EntryPoints(graph, ToSet(st))
<1>1. PICK ring : ring = ToSet(st) /\ ring \subseteq DOMAIN graph
  OBVIOUS
<1> DEFINE out(j) == LeadsOut(graph, j, st) # {}
           entry(j) == out(j) \/ \E i \in DOMAIN graph[j] : graph[j][i].parent = None
<1>2. entry_points(graph, st) =
        {[query_in_cycle |-> j, waited_from_outside |-> out(j)] : j \in {k \in ring : entry(k)}}
  BY <1>1 DEF entry_points
<1>3. ASSUME NEW j \in ring PROVE entry(j) <=> Leads(graph, ring, j)
  <2>1. j \in DOMAIN graph
    BY <1>1
  <2>2. ASSUME NEW i \in DOMAIN graph[j], graph[j][i].parent # None
        PROVE  connected_to_root(RootSearch(graph), graph[j][i].parent, ring).yes
                 <=> graph[j][i].parent \in RootedOutside(graph, ring)
    <3>1. graph[j][i].parent \in DOMAIN graph
      BY <2>1, <2>2 DEF IsWaitGraph
    <3> QED
      BY <1>1, <3>1, ConnectedIs
  <2>3. LeadsOut(graph, j, st) =
          {i \in DOMAIN graph[j] :
             /\ graph[j][i].parent # None
             /\ connected_to_root(RootSearch(graph), graph[j][i].parent, ring).yes}
    BY <1>1 DEF LeadsOut
  <2>4. None \notin RootedOutside(graph, ring)
    BY DEF RootedOutside, IsWaitGraph
  <2>5. out(j) <=> \E i \in DOMAIN graph[j] : graph[j][i].parent \in RootedOutside(graph, ring)
    BY <2>2, <2>3, <2>4
  <2> HIDE DEF out
  <2> QED
    BY <2>5 DEF Leads
<1>4. EntryPoints(graph, ring) = {j \in ring : Leads(graph, ring, j)}
  BY DEF EntryPoints, Leads
<1> HIDE DEF entry, out
<1>5. {e.query_in_cycle : e \in entry_points(graph, st)} = {k \in ring : entry(k)}
  <2>1. PICK K : K = {k \in ring : entry(k)}
    OBVIOUS
  <2>2. PICK E : E = entry_points(graph, st)
    OBVIOUS
  <2> DEFINE point(j) == [query_in_cycle |-> j, waited_from_outside |-> out(j)]
  <2>3. \A j : point(j).query_in_cycle = j
    OBVIOUS
  <2>4. E = {point(j) : j \in K}
    BY <1>2, <2>1, <2>2, Zenon
  <2> HIDE DEF point
  <2>5. {e.query_in_cycle : e \in E} = K
    BY <2>3, <2>4
  <2> QED
    BY <2>1, <2>2, <2>5, Zenon
<1> QED
  BY <1>1, <1>3, <1>4, <1>5

-----------------------------------------------------------------------------
\* The result of the last search, which the state machine remembers.
CycleInv ==
  /\ job_map \in Graphs
  /\ \/ found.start = None /\ found.flow = Continue
     \/ /\ found.start \in DOMAIN job_map
        /\ found.flow = find_cycle(Search(job_map), found.start, <<>>, {}).flow

\* It holds in every state.
LEMMA CycleInvariant == CycleSpec => []CycleInv
<1>1. CycleInit => CycleInv
  BY DEF CycleInit, CycleInv
<1>2. CycleInv /\ [CycleNext]_cycleVars => CycleInv'
  <2> SUFFICES ASSUME CycleInv, [CycleNext]_cycleVars PROVE CycleInv'
    OBVIOUS
  <2>1. CASE CycleNext
    <3>1. PICK query \in DOMAIN job_map : break_query_cycle(query)
      BY <2>1 DEF CycleNext
    <3>2. /\ found' = [start |-> query, flow |-> find_cycle(Search(job_map), query, <<>>, {}).flow]
          /\ job_map' = job_map
      BY <3>1 DEF break_query_cycle
    <3>3. PICK fl : fl = find_cycle(Search(job_map), query, <<>>, {}).flow
      OBVIOUS
    <3>4. found'.start = query /\ found'.flow = fl
      BY <3>2, <3>3
    <3>5. fl = find_cycle(Search(job_map'), found'.start, <<>>, {}).flow
      BY <3>2, <3>3, <3>4, Zenon
    <3> QED
      BY <3>2, <3>4, <3>5 DEF CycleInv
  <2>2. CASE UNCHANGED cycleVars
    BY <2>2 DEF CycleInv, cycleVars
  <2> QED
    BY <2>1, <2>2
<1> QED
  BY <1>1, <1>2, PTL DEF CycleSpec

\* What the invariant says of a search that has found something.
LEMMA CycleFacts ==
  ASSUME CycleInv
  PROVE  SearchFindsFollowedCycle /\ CycleCanBeBroken
<1>1. PICK graph \in Graphs : graph = job_map
  BY DEF CycleInv
<1>2. /\ IsWaitGraph(graph) /\ Rooted(graph)
      /\ \A j \in DOMAIN graph : \A i \in DOMAIN graph[j] :
           [waitee |-> j, waiter |-> graph[j][i].resumable] # None
  BY GraphsAssumption
<1>3. CASE found.start = None /\ found.flow = Continue
  <2>1. ~found.flow.break
    BY <1>3 DEF Continue
  <2> QED
    BY <1>3, <2>1 DEF SearchFindsFollowedCycle, CycleCanBeBroken
<1>4. CASE /\ found.start \in DOMAIN job_map
           /\ found.flow = find_cycle(Search(job_map), found.start, <<>>, {}).flow
  <2>1. PICK q \in DOMAIN graph : q = found.start
    BY <1>1, <1>4
  <2>2. PICK fl : fl = found.flow /\ fl = find_cycle(Search(graph), q, <<>>, {}).flow
    BY <1>1, <1>4, <2>1, Zenon
  <2>3. /\ fl.break <=> q \in Endless(graph)
        /\ fl.break \in BOOLEAN
        /\ fl.break => /\ IsRing(graph, fl.stack)
                       /\ ToSet(fl.stack) = CycleFrom(graph, q)
                       /\ fl.resumable = ResumedFrom(graph, q)
    BY <1>2, <2>2, CycleSearched
  <2>4. StackIsCycle
    BY <1>1, <2>2, <2>3 DEF StackIsCycle, IsRing
  <2>5. fl.break = (q \in Endless(graph))
    BY <2>3
  <2>6. SearchFindsFollowedCycle
    BY <1>1, <2>1, <2>2, <2>3, <2>4, <2>5 DEF SearchFindsFollowedCycle
  <2>7. ASSUME fl.break
        PROVE  /\ {e.query_in_cycle : e \in entry_points(graph, fl.stack)}
                    = EntryPoints(graph, ToSet(fl.stack))
               /\ fl.resumable # None
               /\ \E j \in DOMAIN graph : \E i \in DOMAIN graph[j] :
                    /\ graph[j][i].resumable # None
                    /\ fl.resumable = [waitee |-> j, waiter |-> graph[j][i].resumable]
               /\ entry_points(graph, fl.stack) # {}
    <3>1. q \in Endless(graph) /\ ToSet(fl.stack) = CycleFrom(graph, q)
      BY <2>3, <2>7
    <3>2. ToSet(fl.stack) \subseteq DOMAIN graph
      BY <1>2, <3>1, CycleFound
    <3>3. {e.query_in_cycle : e \in entry_points(graph, fl.stack)}
            = EntryPoints(graph, ToSet(fl.stack))
      BY <1>2, <3>2, EntriesAre
    <3>4. EntryPoints(graph, ToSet(fl.stack)) # {}
      BY <1>2, <3>1, EntryPointFound
    <3>5. /\ fl.resumable # None
          /\ \E j \in DOMAIN graph : \E i \in DOMAIN graph[j] :
               /\ graph[j][i].resumable # None
               /\ fl.resumable = [waitee |-> j, waiter |-> graph[j][i].resumable]
      <4>1. PICK r : r = ResumedFrom(graph, q) /\ r = fl.resumable
        BY <2>3, <2>7
      <4>2. /\ r # None
            /\ \E j \in DOMAIN graph : \E i \in DOMAIN graph[j] :
                 /\ r = [waitee |-> j, waiter |-> graph[j][i].resumable]
                 /\ graph[j][i].resumable # None
        BY <1>2, <3>1, <4>1, ResumableFound
      <4> QED
        BY <4>1, <4>2
    <3>6. entry_points(graph, fl.stack) # {}
      <4>1. PICK T : T = entry_points(graph, fl.stack)
        OBVIOUS
      <4> QED
        BY <3>3, <3>4, <4>1
    <3> QED
      BY <3>3, <3>5, <3>6
  <2>8. CycleCanBeBroken
    BY <1>1, <2>2, <2>7 DEF CycleCanBeBroken, EntryPointsAgree, ResumableInLatch
  <2> QED
    BY <2>6, <2>8
<1> QED
  BY <1>3, <1>4 DEF CycleInv

\* find_cycle finds a cycle exactly when one can be reached from the job that the
\* search starts with, and leaves just that cycle on the stack ("`stack` will contain
\* just the cycle on return if detected"); for every wait graph, whatever order
\* find_map tries jobs in.
THEOREM FindCycleFinds == CycleSpec => []SearchFindsFollowedCycle
<1>1. CycleInv => SearchFindsFollowedCycle
  BY CycleFacts
<1> QED
  BY <1>1, CycleInvariant, PTL

\* Every cycle that is found can be reported and broken: `resumable.unwrap()`,
\* `extract_waiter` and `entry_points[0]` do not panic, and process_cycle's entry points are the jobs of
\* the cycle that the root leads to from outside (connected_to_root).
THEOREM CycleBreaks == CycleSpec => []CycleCanBeBroken
<1>1. CycleInv => CycleCanBeBroken
  BY CycleFacts
<1> QED
  BY <1>1, CycleInvariant, PTL

-----------------------------------------------------------------------------
\* What find_and_process_cycle of QueryJobs takes from WaitGraph is what find_cycle
\* and process_cycle compute from the map of jobs that the handler collects.
HandlerSearches ==
  handler.spawned > 0 =>
    \A k \in Started :
      LET flow == find_cycle(Search(JobMap), k, <<>>, {}).flow IN
      /\ flow.break <=> k \in Endless(JobMap)
      /\ flow.break =>
           /\ flow.resumable = ResumedFrom(JobMap, k)
           /\ ToSet(flow.stack) = CycleFrom(JobMap, k)
           /\ entry_points(JobMap, flow.stack) # {}

\* The map of jobs is a wait graph when the handler is started, so the searches find
\* what they find in every wait graph.
LEMMA InvSearches ==
  ASSUME Inv PROVE HandlerSearches
<1>1. SUFFICES ASSUME handler.spawned > 0, NEW k \in Started, NEW fl,
                      fl = find_cycle(Search(JobMap), k, <<>>, {}).flow
               PROVE  /\ fl.break <=> k \in Endless(JobMap)
                      /\ fl.break =>
                           /\ fl.resumable = ResumedFrom(JobMap, k)
                           /\ ToSet(fl.stack) = CycleFrom(JobMap, k)
                           /\ entry_points(JobMap, fl.stack) # {}
  BY Zenon DEF HandlerSearches
<1>2. Stopped
  BY <1>1, SpawnedStopped
<1>3. PICK graph : graph = JobMap
  OBVIOUS
<1>4. IsWaitGraph(graph) /\ Rooted(graph) /\ DOMAIN graph = Started
  BY <1>2, <1>3, MapIsWaitGraph
<1> HIDE DEF JobMap
<1>5. fl = find_cycle(Search(graph), k, <<>>, {}).flow
  BY <1>1, <1>3
<1>6. /\ fl.break <=> k \in Endless(graph)
      /\ fl.break => /\ ToSet(fl.stack) = CycleFrom(graph, k)
                     /\ fl.resumable = ResumedFrom(graph, k)
  BY <1>1, <1>4, <1>5, CycleSearched
<1>7. ASSUME fl.break PROVE entry_points(graph, fl.stack) # {}
  <2>1. k \in Endless(graph) /\ ToSet(fl.stack) = CycleFrom(graph, k)
    BY <1>6, <1>7
  <2>2. ToSet(fl.stack) \subseteq DOMAIN graph
    BY <1>4, <2>1, CycleFound
  <2>3. {e.query_in_cycle : e \in entry_points(graph, fl.stack)}
          = EntryPoints(graph, ToSet(fl.stack))
    BY <1>4, <2>2, EntriesAre
  <2>4. EntryPoints(graph, ToSet(fl.stack)) # {}
    BY <1>4, <2>1, EntryPointFound
  <2>5. PICK T : T = entry_points(graph, fl.stack)
    OBVIOUS
  <2> QED
    BY <2>3, <2>4, <2>5
<1> QED
  BY <1>3, <1>6, <1>7

\* In every behaviour of the query system: whichever job the started handler begins
\* with, find_cycle and process_cycle return what its step in QueryJobs uses, so that
\* the theorems about the queries are about the searches of the code.
THEOREM QueryHandlerSearches == Spec => []HandlerSearches
BY QueryInvariant, InvSearches, PTL
=============================================================================

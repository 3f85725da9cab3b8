----------------------------- MODULE WaitGraph ------------------------------
(***************************************************************************)
(* What the deadlock handler of the query system looks for                 *)
(* (compiler/rustc_query_impl/src/job.rs), stated without the depth first  *)
(* search: QueryCycle holds the search itself and TLC compares the two.    *)
(*                                                                         *)
(* A wait graph is a function from the active query jobs to the sequence   *)
(* of their abstracted waiters.  A waiter is a record: `parent` is the job *)
(* it waits from (None: the compiler root), `resumable` the thread that    *)
(* waits on the job's latch (None: the job's own parent, on the same       *)
(* stack, which cannot be resumed).                                        *)
(***************************************************************************)
EXTENDS Naturals, Sequences, FiniteSets

CONSTANT None

\* The graphs of collect_active_query_jobs and abstracted_waiters_of: the
\* first waiter of a job is its own parent, the others are the threads in its
\* latch, and a parent is an active job or the root.
IsWaitGraph(graph) ==
  /\ IsFiniteSet(DOMAIN graph)
  /\ None \notin DOMAIN graph
  /\ \A j \in DOMAIN graph :
       /\ Len(graph[j]) \in Nat \ {0} /\ DOMAIN graph[j] = 1 .. Len(graph[j])
       /\ \A i \in DOMAIN graph[j] :
            /\ graph[j][i].parent \in DOMAIN graph \cup {None}
            /\ i # 1 => graph[j][i].resumable # None

\* Parents are started before their children, so they form no circle: no
\* nonempty set of jobs contains all its parents.
Rooted(graph) ==
  \A J \in SUBSET DOMAIN graph : J # {} => \E j \in J : graph[j][1].parent \notin J

\* The jobs from which a walk along the waiters never has to stop, i.e. those
\* that lead to a cycle: the largest set each of whose members has a waiter
\* in the set.
Endless(graph) ==
  UNION {J \in SUBSET DOMAIN graph :
           \A j \in J : \E i \in DOMAIN graph[j] : graph[j][i].parent \in J}

\* The waiter of j that a depth first search follows on its way to the first
\* cycle it finds: the first one that leads to a cycle.
Followed(graph, j) ==
  graph[j][CHOOSE i \in DOMAIN graph[j] :
             /\ graph[j][i].parent \in Endless(graph)
             /\ \A h \in 1 .. i - 1 : graph[j][h].parent \notin Endless(graph)]

\* The jobs met when the followed waiters are walked from j, up to the first
\* job of Stop: the smallest set with j that the walk does not leave.
Met(graph, j, Stop) ==
  LET on == [i \in Endless(graph) |-> Followed(graph, i).parent]
  IN  {m \in Endless(graph) :
         \A J \in SUBSET Endless(graph) :
           j \in J /\ (\A i \in J \ Stop : on[i] \in J) => m \in J}

\* The cycle the walk ends in: the jobs it comes back to.
CycleFrom(graph, j) ==
  {c \in Met(graph, j, {}) : c \in Met(graph, Followed(graph, c).parent, {})}

\* The waiter that is resumed: on the way back from the end of the cycle
\* every call of find_cycle replaces the waiter of the call below it by its
\* own, if its own is resumable.  So the first one of the walk wins, and None
\* is the answer if there is none.
ResumedFrom(graph, j) ==
  LET resumable == {i \in Endless(graph) : Followed(graph, i).resumable # None}
      first == Met(graph, j, resumable) \cap resumable
      waitee == CHOOSE i \in first : TRUE
  IN  IF first = {} THEN None
      ELSE [waitee |-> waitee, waiter |-> Followed(graph, waitee).resumable]

\* The jobs of the cycle that process_cycle accepts as entry points: a waiter
\* of theirs is the root, or reaches it without passing through the cycle.
RootedOutside(graph, cycle) ==
  LET Closed(J) == \A j \in J : \A i \in DOMAIN graph[j] :
                     graph[j][i].parent \in J \cup cycle
  IN  (DOMAIN graph \ cycle) \ UNION {J \in SUBSET (DOMAIN graph \ cycle) : Closed(J)}

EntryPoints(graph, cycle) ==
  {j \in cycle : \E i \in DOMAIN graph[j] :
     graph[j][i].parent \in {None} \cup RootedOutside(graph, cycle)}
=============================================================================

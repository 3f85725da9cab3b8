----------------------------- MODULE QueryCycle -----------------------------
(***************************************************************************)
(* The searches of the query system's deadlock handler, as the code makes  *)
(* them (compiler/rustc_query_impl/src/job.rs).  The state machine picks a *)
(* map of jobs in CycleInit and runs break_query_cycle's search from one   *)
(* job after the other, in any order (the order of a hash map).            *)
(*                                                                         *)
(* A recursive search is a function from the arguments of its calls to     *)
(* their results.  Spans and the wording of the cycle error are left out.  *)
(***************************************************************************)
EXTENDS WaitGraph, SequencesExt

CONSTANT Graphs     \* the wait graphs to search

\* The root is no job, and no waiter that can be resumed is None.
ASSUME GraphsAssumption ==
  \A graph \in Graphs :
    /\ IsWaitGraph(graph) /\ Rooted(graph)
    /\ \A j \in DOMAIN graph : \A i \in DOMAIN graph[j] :
         [waitee |-> j, waiter |-> graph[j][i].resumable] # None

VARIABLES
  job_map,  \* the active jobs with their waiters
  tried,    \* jobs that find_map has already searched from
  found     \* the result of the last search, and the job it started from

cycleVars == <<job_map, tried, found>>

Continue == [break |-> FALSE, resumable |-> None, stack |-> <<>>]

-----------------------------------------------------------------------------
\* The loop over abstracted_waiters_of(query) in find_cycle, from the i-th waiter
\* on; the query is on the stack and visited.
Loops(graph) ==
  {c \in [query : DOMAIN graph, i : Nat \ {0}, stack : Seq(DOMAIN graph),
          visited : SUBSET DOMAIN graph] : c.query \in c.visited}

find_cycle_undrained(loop, query, stack, visited) ==
  IF query \in visited
  THEN [visited |-> visited,
        flow    |-> IF query \in ToSet(stack)
                    THEN [break |-> TRUE, resumable |-> None, stack |-> stack]
                    ELSE Continue]
  ELSE loop[[query |-> query, i |-> 1, stack |-> Append(stack, query),
             visited |-> visited \cup {query}]]

\* A call of find_cycle returns the set of visited jobs besides its ControlFlow,
\* which holds the stack that is left on return; `loop` does the loop.
find_cycle(loop, query, stack, visited) ==
  IF query \in visited
  THEN [visited |-> visited,
        flow    |-> IF query \in ToSet(stack)
                    THEN [break     |-> TRUE,
                          resumable |-> None,
                          stack     |-> SubSeq(stack, SelectInSeq(stack, LAMBDA q : q = query),
                                               Len(stack))]
                    ELSE Continue]
  ELSE loop[[query |-> query, i |-> 1, stack |-> Append(stack, query),
             visited |-> visited \cup {query}]]

Onward(loop, c, visited) == loop[[c EXCEPT !.i = @ + 1, !.visited = visited]]

visit_waiters(graph, loop, c) ==
  LET w == graph[c.query][c.i]
      r == find_cycle(loop, w.parent, c.stack, c.visited) IN
  IF c.i > Len(graph[c.query]) THEN [flow |-> Continue, visited |-> c.visited]
  ELSE IF w.parent = None THEN Onward(loop, c, c.visited)
  ELSE IF ~r.flow.break THEN Onward(loop, c, r.visited)
  ELSE [r EXCEPT !.flow.resumable =
          IF w.resumable = None THEN @ ELSE [waitee |-> c.query, waiter |-> w.resumable]]

Search(graph) == LET loop[c \in Loops(graph)] == visit_waiters(graph, loop, c) IN loop

-----------------------------------------------------------------------------
\* The loop in connected_to_root; a call returns the set of visited jobs too.
RootLoops(graph) ==
  {c \in [query : DOMAIN graph, i : Nat \ {0}, visited : SUBSET DOMAIN graph] :
     c.query \in c.visited}

connected_to_root(loop, query, visited) ==
  IF query \in visited
  THEN [yes |-> FALSE, visited |-> visited]
  ELSE loop[[query |-> query, i |-> 1, visited |-> visited \cup {query}]]

any_connected(graph, loop, c) ==
  LET parent == graph[c.query][c.i].parent
      r      == connected_to_root(loop, parent, c.visited) IN
  IF c.i > Len(graph[c.query]) THEN [yes |-> FALSE, visited |-> c.visited]
  ELSE IF parent = None THEN [yes |-> TRUE, visited |-> c.visited]
  ELSE IF r.yes THEN r
  ELSE Onward(loop, c, r.visited)

RootSearch(graph) ==
  LET loop[c \in RootLoops(graph)] == any_connected(graph, loop, c) IN loop

\* The waiters of j, by index, from which the root is reached outside the cycle.
LeadsOut(graph, j, stack) ==
  {i \in DOMAIN graph[j] :
     /\ graph[j][i].parent # None
     /\ connected_to_root(RootSearch(graph), graph[j][i].parent, ToSet(stack)).yes}

entry_points_but_root(graph, stack) ==
  {[query_in_cycle |-> j, waited_from_outside |-> TRUE] :
     j \in {k \in ToSet(stack) : LeadsOut(graph, k, stack) # {}}}

\* process_cycle: the entry points, and whether a waiter outside the cycle leads
\* to the root (otherwise the root itself waits on the job).
entry_points(graph, stack) ==
  LET entry(j) == LeadsOut(graph, j, stack) # {} \/ \E i \in DOMAIN graph[j] : graph[j][i].parent = None
  IN  {[query_in_cycle |-> j, waited_from_outside |-> LeadsOut(graph, j, stack) # {}] :
         j \in {k \in ToSet(stack) : entry(k)}}

-----------------------------------------------------------------------------
CycleInit ==
  /\ job_map \in Graphs
  /\ tried = {}
  /\ found = [start |-> None, flow |-> Continue]

\* One call of find_and_process_cycle by the find_map of break_query_cycle,
\* which ends with the first job from which a cycle is found.
break_query_cycle(query) ==
  /\ ~found.flow.break
  /\ query \notin tried
  /\ tried' = tried \cup {query}
  /\ found' = [start |-> query, flow |-> find_cycle(Search(job_map), query, <<>>, {}).flow]
  /\ UNCHANGED job_map

CycleNext == \E query \in DOMAIN job_map : break_query_cycle(query)

CycleSpec == CycleInit /\ [][CycleNext]_cycleVars

-----------------------------------------------------------------------------
\* The stack that find_cycle leaves is a cycle of the graph without
\* repetitions: every job of it waits, through the next one, on the first.
\* ("`stack` will contain just the cycle on return if detected.")
StackIsCycle ==
  LET stack == found.flow.stack IN
  found.flow.break =>
    /\ IsInjective(stack)
    /\ \A i \in DOMAIN stack :
         \E w \in ToSet(job_map[stack[i]]) :
           w.parent = stack[IF i = Len(stack) THEN 1 ELSE i + 1]

\* find_cycle finds a cycle exactly when one can be reached from the start, and
\* its stack is then that cycle, in order, without the jobs on the way to it.
SearchFindsFollowedCycle ==
  LET start == found.start IN
  start # None =>
    /\ StackIsCycle
    /\ found.flow.break = (start \in Endless(job_map))
    /\ found.flow.break => ToSet(found.flow.stack) = CycleFrom(job_map, start)

\* What the searches of process_cycle collect is what EntryPoints defines.
EntryPointsAgree ==
  found.flow.break =>
    {e.query_in_cycle : e \in entry_points(job_map, found.flow.stack)}
      = EntryPoints(job_map, ToSet(found.flow.stack))

\* The waiter to resume is a thread in the latch of the job it waits on.
ResumableInLatch ==
  \E j \in DOMAIN job_map : \E i \in DOMAIN job_map[j] :
    /\ job_map[j][i].resumable # None
    /\ found.flow.resumable = [waitee |-> j, waiter |-> job_map[j][i].resumable]

\* A cycle can always be reported and broken: there is a waiter to resume
\* (`resumable.unwrap()`) that `extract_waiter` finds in its latch, and an entry
\* point (`entry_points[0]`), one that the root really leads to.
CycleCanBeBroken ==
  found.flow.break =>
    /\ EntryPointsAgree
    /\ found.flow.resumable # None /\ ResumableInLatch
    /\ entry_points(job_map, found.flow.stack) # {}
=============================================================================

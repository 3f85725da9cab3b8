------------------------------ MODULE DepGraph ------------------------------
(***************************************************************************)
(* The dependency graph of incremental compilation under the parallel      *)
(* front end (compiler/rustc_middle/src/dep_graph/graph.rs, serialized.rs; *)
(* compiler/rustc_query_impl/src/execution.rs): several workers ask for    *)
(* queries, mark nodes of the previous graph green, force queries, run     *)
(* providers and write the nodes of the new graph.                         *)
(*                                                                         *)
(* A query is a small program: it reads the result of `first`, then,       *)
(* depending on the value read, that of `second`, and computes its result  *)
(* from the values.  An eval_always query is an input, which has another   *)
(* value in each session.  The previous graph is what a clean build with   *)
(* the previous inputs and roots has written.  The values that providers   *)
(* compute are taken to be their own fingerprints; a no_hash query has the *)
(* fingerprint ZERO.                                                       *)
(*                                                                         *)
(* Waiting for another worker's job, and the deadlock handler, are those   *)
(* of QueryJobs; here a waiter is a worker that cannot go on before the    *)
(* result is cached.  Writing a node takes one step with the color it      *)
(* depends on: an index seen before the node is written is only copied.    *)
(***************************************************************************)
EXTENDS Naturals, Sequences, SequencesExt, FiniteSets

CONSTANTS
  Workers,
  Queries,      \* 1 .. n; a query reads smaller ones
  Values,       \* what queries compute
  EvalAlways,   \* the inputs
  Provider,     \* first, second and result of the other queries
  Roots,        \* the queries that the workers ask for
  Setups,       \* sessions: inputs before and now, previous roots, modifiers
  Red,          \* a color that is no index
  MaxAsks       \* bound on the questions of a worker

VARIABLES
  setup,    \* the session, fixed
  prev,     \* the previous graph, fixed: its nodes, with value and reads
  clean,    \* ghost, fixed: the graph of a clean build now
  color,    \* Unknown, Red, or the index of a green node
  encoded,  \* the nodes of the new graph, by index
  cache,    \* the query caches: value and index, or Vacant
  active,   \* the worker that executes a query
  stack,    \* the calls of each worker
  ret,      \* what the last try_mark_previous_green returned
  asked,    \* the questions of each worker so far
  panicked  \* has an assertion failed?

memory == <<color, encoded, cache, active, panicked>>
DepVars == <<setup, prev, clean, memory, stack, ret, asked>>

Unknown == 0
Nobody  == 0
Failed  == 0
ZERO    == 100
Vacant  == [value |-> 0, index |-> 0]

-----------------------------------------------------------------------------
\* What a provider reads next, 0 for nothing, and what it returns.
Wants(q, vals) ==
  IF q \in EvalAlways THEN 0
  ELSE CASE Len(vals) = 0 -> Provider[q].first
         [] Len(vals) = 1 -> Provider[q].second[vals[1]]
         [] OTHER         -> 0

Result(input, q, vals) ==
  IF q \in EvalAlways THEN input[q] ELSE Provider[q].result[vals]

\* No query is read in a circle, and providers and inputs are total.
ASSUME DepAssumption ==
  /\ IsFiniteSet(Queries) /\ Queries = 1 .. Cardinality(Queries)
  /\ EvalAlways \subseteq Queries /\ Roots \subseteq Queries
  /\ Nobody \notin Workers /\ Red \notin Nat
  /\ \A q \in Queries \ EvalAlways :
       /\ Provider[q].first \in 0 .. q - 1
       /\ \A v \in Values : Provider[q].second[v] \in 0 .. q - 1
       /\ \A n \in 0 .. 2 : \A vals \in [1 .. n -> Values] :
            Wants(q, vals) = 0 => Provider[q].result[vals] \in Values
  /\ \A s \in Setups :
       /\ s.before \in [EvalAlways -> Values] /\ s.now \in [EvalAlways -> Values]
       /\ s.roots \subseteq Queries

\* The reference: what a build without a previous session computes and reads, a
\* query that is read twice being one dependency.
Execution(input, run, q) ==
  LET d1   == Wants(q, <<>>)
      v1   == IF d1 = 0 THEN <<>> ELSE <<run[d1].value>>
      d2   == IF d1 = 0 THEN 0 ELSE Wants(q, v1)
      vals == IF d2 = 0 THEN v1 ELSE Append(v1, run[d2].value)
  IN  [value |-> Result(input, q, vals),
       reads |-> CASE d1 = 0         -> <<>>
                   [] d1 # 0 /\ d2 \in {0, d1}    -> <<d1>>
                   [] d1 # 0 /\ d2 \notin {0, d1} -> <<d1, d2>>]

Clean(input) ==
  LET run[q \in Queries] == Execution(input, run, q) IN run

\* The queries that a build executes: the roots and whatever those need.
Needed(input, roots) ==
  LET run == Clean(input)
      Closed(J) == \A q \in J : ToSet(run[q].reads) \subseteq J
  IN  {q \in Queries : \A J \in SUBSET Queries : roots \subseteq J /\ Closed(J) => q \in J}

fingerprint(q, value) == IF q \in setup.no_hash THEN ZERO ELSE value

-----------------------------------------------------------------------------
DepInit ==
  /\ setup \in Setups
  /\ prev = [nodes |-> Needed(setup.before, setup.roots), run |-> Clean(setup.before)]
  /\ clean = [nodes |-> Needed(setup.now, Roots), run |-> Clean(setup.now)]
  /\ color = [q \in Queries |-> Unknown]
  /\ encoded = <<>>
  /\ cache = [q \in Queries |-> Vacant]
  /\ active = [q \in Queries |-> Nobody]
  /\ stack = [w \in Workers |-> <<>>]
  /\ ret = [w \in Workers |-> Failed]
  /\ asked = [w \in Workers |-> 0]
  /\ panicked = FALSE

Green(q) == color[q] \notin {Unknown, Red}

Frame(w) == Last(stack[w])
Top(w, op) == stack[w] # <<>> /\ Frame(w).op = op /\ ~panicked

Job(q)    == [op |-> "job", query |-> q, pc |-> "start", vals |-> <<>>,
              reads |-> <<>>, value |-> 0, index |-> 0]
Mark(q)   == [op |-> "mark", query |-> q, pc |-> "look", edges |-> <<>>]
Call(q)   == [op |-> "call", query |-> q]
Ensure(q) == [op |-> "ensure", query |-> q, pc |-> "start"]

\* The top frame becomes f, and g is called.
Become(w, f)  == stack' = [stack EXCEPT ![w] = Append(Front(@), f)]
Push(w, f, g) == stack' = [stack EXCEPT ![w] = Append(Append(Front(@), f), g)]
Return(w)     == stack' = [stack EXCEPT ![w] = Front(@)]
Answer(w, r)  == Return(w) /\ ret' = [ret EXCEPT ![w] = r]
Assertion(P)  == panicked' = (panicked \/ ~P)

-----------------------------------------------------------------------------
\* A worker asks for a query, or only that it has succeeded (ensure_ok).
execute_query_incr_inner(w) ==
  /\ stack[w] = <<>> /\ asked[w] < MaxAsks /\ ~panicked
  /\ asked' = [asked EXCEPT ![w] = @ + 1]
  /\ \E q \in Roots : stack' = [stack EXCEPT ![w] = <<Call(q)>>]
                      \/ stack' = [stack EXCEPT ![w] = <<Ensure(q)>>]
  /\ UNCHANGED <<memory, ret>>

\* try_mark_green: the color as it is now, or else try to mark the node.
try_mark_green(w, f, green, red) ==
  \/ f.query \in prev.nodes /\ Green(f.query) /\ green
  \/ f.query \in prev.nodes /\ color[f.query] = Unknown
       /\ Push(w, [f EXCEPT !.pc = "marked"], Mark(f.query)) /\ UNCHANGED panicked
  \/ (f.query \notin prev.nodes \/ color[f.query] = Red) /\ red

\* A query that can be marked green need not be executed; an eval_always one
\* always is.
ensure_can_skip_execution(w) ==
  LET f == Frame(w)
      skip    == Return(w) /\ UNCHANGED panicked
      execute == Become(w, Call(f.query)) /\ UNCHANGED panicked IN
  /\ Top(w, "ensure")
  /\ \/ f.pc = "start" /\ IF f.query \in EvalAlways THEN execute
                           ELSE try_mark_green(w, f, skip, execute)
     \/ f.pc = "marked" /\ ret[w] # Failed /\ skip
     \/ f.pc = "marked" /\ ret[w] = Failed /\ execute
  /\ UNCHANGED <<color, encoded, cache, active, ret, asked>>

\* The result is cached, or nobody computes it yet; otherwise the worker waits.
try_execute_query(w) ==
  LET q == Frame(w).query IN
  /\ Top(w, "call")
  /\ \/ /\ cache[q] # Vacant
        /\ Return(w)
        /\ UNCHANGED memory
     \/ /\ cache[q] = Vacant /\ active[q] = Nobody
        /\ active' = [active EXCEPT ![q] = w]
        /\ Become(w, Job(q))
        /\ UNCHANGED <<color, encoded, cache, panicked>>
  /\ UNCHANGED <<ret, asked>>

\* with_task: the provider is run, unless the node was already run.
with_task(w, f) ==
  /\ Assertion(color[f.query] # Red)
  /\ Become(w, [f EXCEPT !.pc = "run"])

\* load_from_disk_or_invoke_provider_green: the value of the previous session,
\* or, if it was not saved, run the provider again.
load_from_disk(w, f, i) ==
  /\ Become(w, IF f.query \in setup.on_disk
               THEN [f EXCEPT !.pc = "complete", !.value = prev.run[f.query].value, !.index = i]
               ELSE [f EXCEPT !.pc = "rerun", !.index = i])
  /\ UNCHANGED panicked

\* execute_job_incr: an eval_always query is run; another one is first tried
\* to be marked green, and then its value loaded.
execute_job_incr(w) ==
  LET f == Frame(w) IN
  /\ Top(w, "job")
  /\ \/ f.pc = "start" /\ f.query \in EvalAlways /\ with_task(w, f)
     \/ f.pc = "start" /\ f.query \notin EvalAlways
          /\ try_mark_green(w, f, load_from_disk(w, f, color[f.query]), with_task(w, f))
     \/ f.pc = "marked" /\ ret[w] # Failed /\ load_from_disk(w, f, ret[w])
     \/ f.pc = "marked" /\ ret[w] = Failed /\ with_task(w, f)
  /\ UNCHANGED <<color, encoded, cache, active, ret, asked>>

\* read_index: a task's reads, without duplicates, in the order of the first
\* read; they are ignored when a green query is run again.
read_index(f, i) ==
  IF f.pc = "rerun" \/ i \in ToSet(f.reads) THEN f.reads ELSE Append(f.reads, i)

\* A provider reads a query: from its cache, or by executing it.
invoke_provider_fn(w) ==
  LET f == Frame(w)
      d == Wants(f.query, f.vals) IN
  /\ Top(w, "job") /\ f.pc \in {"run", "rerun"} /\ d # 0
  /\ IF cache[d] # Vacant
     THEN Become(w, [f EXCEPT !.vals = Append(@, cache[d].value),
                              !.reads = read_index(f, cache[d].index)])
     ELSE Push(w, f, Call(d))
  /\ UNCHANGED <<memory, ret, asked>>

\* The index of the node that was written last.
bump_index(nodes) == Len(nodes)

set_color(q, green, edges, hash) ==
  /\ encoded' = Append(encoded, [node |-> q, edges |-> edges, hash |-> hash])
  /\ color' = [color EXCEPT ![q] = IF green THEN bump_index(encoded') ELSE Red]

\* Unless another worker has colored the node, it is colored and written.
try_set_color(q, green, edges, hash) ==
  IF color[q] # Unknown THEN UNCHANGED <<color, encoded>>
  ELSE /\ encoded' = Append(encoded, [node |-> q, edges |-> edges, hash |-> hash])
       /\ color' = [color EXCEPT ![q] = IF green THEN bump_index(encoded') ELSE Red]

\* A query that was run again is green if it has the same result, and red if
\* nobody can tell.
is_green(q, hash) == q \notin setup.no_hash /\ hash = fingerprint(q, prev.run[q].value)

\* alloc_and_color_node: the provider has returned.  send_and_color, or send_new
\* for a node that is not in the previous graph; another worker may have marked
\* the node green meanwhile.
alloc_and_color_node(w) ==
  LET f == Frame(w)
      value == Result(setup.now, f.query, f.vals)
      hash == fingerprint(f.query, value) IN
  /\ Top(w, "job") /\ f.pc = "run" /\ Wants(f.query, f.vals) = 0
  /\ IF f.query \in prev.nodes
     THEN /\ try_set_color(f.query, is_green(f.query, hash), f.reads, hash)
          /\ Assertion(color[f.query] # Red)
     ELSE /\ encoded' = Append(encoded, [node |-> f.query, edges |-> f.reads, hash |-> hash])
          /\ UNCHANGED <<color, panicked>>
  /\ Become(w, [f EXCEPT !.pc = "complete", !.value = value,
                         !.index = IF color'[f.query] \in {Unknown, Red}
                                   THEN bump_index(encoded') ELSE color'[f.query]])
  /\ UNCHANGED <<cache, active, ret, asked>>

\* incremental_verify_ich: the result must be the one that was promised.
incremental_verify_ich(w) ==
  LET f == Frame(w)
      value == Result(setup.now, f.query, f.vals) IN
  /\ Top(w, "job") /\ f.pc = "rerun" /\ Wants(f.query, f.vals) = 0
  /\ Assertion(fingerprint(f.query, value) = fingerprint(f.query, prev.run[f.query].value))
  /\ Become(w, [f EXCEPT !.pc = "complete", !.value = value])
  /\ UNCHANGED <<color, encoded, cache, active, ret, asked>>

complete_leaving_job(w) ==
  LET f == Frame(w) IN
  /\ Top(w, "job") /\ f.pc = "complete"
  /\ Return(w)
  /\ UNCHANGED <<memory, ret, asked>>

\* The job is complete: its result is cached.
complete(w) ==
  LET f == Frame(w) IN
  /\ Top(w, "job") /\ f.pc = "complete"
  /\ cache' = [cache EXCEPT ![f.query] = [value |-> f.value, index |-> f.index]]
  /\ active' = [active EXCEPT ![f.query] = Nobody]
  /\ Return(w)
  /\ UNCHANGED <<color, encoded, panicked, ret, asked>>

-----------------------------------------------------------------------------
EdgeFromLast(f) ==
  prev.run[f.query].reads[Len(prev.run[f.query].reads) - Len(f.edges)]

\* try_mark_previous_green visits the edges of the previous graph in order; the
\* next one is the one after those found green.
Edge(f) == prev.run[f.query].reads[Len(f.edges) + 1]
Visiting(f) == Len(f.edges) < Len(prev.run[f.query].reads)

Found(w, f, i) == Become(w, [f EXCEPT !.pc = "look", !.edges = Append(@, i)]) /\ UNCHANGED ret

\* try_force_from_dep_node: if the key can be recovered from the node, its query
\* is executed.
try_force_from_dep_node(w, f) ==
  IF Edge(f) \in setup.no_key THEN Answer(w, Failed)
  ELSE Push(w, [f EXCEPT !.pc = "forced"], Call(Edge(f))) /\ UNCHANGED ret

look_past_red(w) ==
  LET f == Frame(w) IN
  /\ Top(w, "mark") /\ f.pc = "look" /\ Visiting(f)
  /\ \/ color[Edge(f)] # Unknown /\ Found(w, f, color[Edge(f)])
     \/ color[Edge(f)] = Unknown /\ Edge(f) \in EvalAlways /\ try_force_from_dep_node(w, f)
     \/ color[Edge(f)] = Unknown /\ Edge(f) \notin EvalAlways
          /\ Push(w, [f EXCEPT !.pc = "marked"], Mark(Edge(f))) /\ UNCHANGED ret
  /\ UNCHANGED <<memory, asked>>

\* The color of the next dependency; if it has none, try to mark it green.
look(w) ==
  LET f == Frame(w) IN
  /\ Top(w, "mark") /\ f.pc = "look" /\ Visiting(f)
  /\ \/ Green(Edge(f)) /\ Found(w, f, color[Edge(f)])
     \/ color[Edge(f)] = Red /\ Answer(w, Failed)
     \/ color[Edge(f)] = Unknown /\ Edge(f) \in EvalAlways /\ try_force_from_dep_node(w, f)
     \/ color[Edge(f)] = Unknown /\ Edge(f) \notin EvalAlways
          /\ Push(w, [f EXCEPT !.pc = "marked"], Mark(Edge(f))) /\ UNCHANGED ret
  /\ UNCHANGED <<memory, asked>>

\* It was marked, or else is forced.
look_marked(w) ==
  LET f == Frame(w) IN
  /\ Top(w, "mark") /\ f.pc = "marked"
  /\ \/ ret[w] # Failed /\ Found(w, f, ret[w])
     \/ ret[w] = Failed /\ try_force_from_dep_node(w, f)
  /\ UNCHANGED <<memory, asked>>

\* Forcing has given it a color.
look_forced(w) ==
  LET f == Frame(w) IN
  /\ Top(w, "mark") /\ f.pc = "forced"
  /\ IF Green(Edge(f)) THEN Found(w, f, color[Edge(f)]) ELSE Answer(w, Failed)
  /\ Assertion(color[Edge(f)] # Unknown)
  /\ UNCHANGED <<color, encoded, cache, active, asked>>

\* promote_node_and_deps_to_current: all dependencies are green.  A no_hash node
\* may be red already.
promote(w) ==
  LET f == Frame(w) IN
  /\ Top(w, "mark") /\ f.pc = "look" /\ ~Visiting(f)
  /\ try_set_color(f.query, TRUE, f.edges, fingerprint(f.query, prev.run[f.query].value))
  /\ Answer(w, IF color'[f.query] = Red THEN Failed ELSE color'[f.query])
  /\ UNCHANGED <<cache, active, panicked, asked>>

-----------------------------------------------------------------------------
WorkerStep(w) ==
  /\ \/ execute_query_incr_inner(w) \/ ensure_can_skip_execution(w)
     \/ try_execute_query(w) \/ execute_job_incr(w)
     \/ invoke_provider_fn(w) \/ alloc_and_color_node(w)
     \/ incremental_verify_ich(w) \/ complete(w)
     \/ look(w) \/ look_marked(w) \/ look_forced(w) \/ promote(w)
  /\ UNCHANGED <<setup, prev, clean>>

DepNext == \E w \in Workers : WorkerStep(w)

DepSpec == DepInit /\ [][DepNext]_DepVars

-----------------------------------------------------------------------------
Written(i, q) == i \in DOMAIN encoded /\ encoded[i].node = q

\* Typing; a query is executed by the worker that has it on its stack, and every
\* index that is used is one of a written node.
DepTypeOK ==
  /\ color \in [Queries -> 0 .. Len(encoded) \cup {Red}]
  /\ \A q \in Queries : Green(q) => Written(color[q], q)
  /\ \A q \in Queries : cache[q] # Vacant => Written(cache[q].index, q)
  /\ \A q \in Queries, w \in Workers :
       active[q] = w <=> \E i \in DOMAIN stack[w] : stack[w][i].op = "job" /\ stack[w][i].query = q

\* A green node's query would have the same result as in the previous session,
\* whether it was marked by way of its dependencies or run again.
GreenUnchanged ==
  \A q \in Queries : Green(q) => clean.run[q].value = prev.run[q].value

\* Every cached result is the one of a clean build, loaded from disk or not,
\* whatever the workers did concurrently, and what is green is unchanged.
ResultsClean ==
  /\ GreenUnchanged
  /\ \A q \in Queries : cache[q] # Vacant => cache[q].value = clean.run[q].value

\* No query is executed that a clean build would not execute: marking forces
\* only queries that the marked one would read again.
OnlyNeededRun ==
  \A q \in Queries : active[q] # Nobody => q \in clean.nodes

\* The new graph is the one a clean build writes, up to the order of the nodes:
\* no node is written twice, by two workers that mark or run it, and each has
\* the fingerprint of the result and edges to all that the query reads, in
\* order.  The next session relies on it.
GraphExact ==
  /\ DepTypeOK
  /\ \A i, j \in DOMAIN encoded : encoded[i].node = encoded[j].node => i = j
  /\ \A i \in DOMAIN encoded :
       LET e == encoded[i]
           run == clean.run[e.node] IN
       /\ e.hash = fingerprint(e.node, run.value)
       /\ [k \in DOMAIN e.edges |-> encoded[e.edges[k]].node] = run.reads

\* Workers that mark, force and wait for each other's queries do not block each
\* other: while a question is open, some worker is not waiting.  (Each step of a
\* worker brings it closer to an answer.)  And no assertion stops one: no node is
\* run twice, forcing gives a color, and a query that is run although it is green
\* has the promised result.
NobodyStuck ==
  LET waits(w) == Top(w, "call") /\ cache[Frame(w).query] = Vacant
                                 /\ active[Frame(w).query] # Nobody
      open == {w \in Workers : stack[w] # <<>>}
  IN  ~panicked /\ (open # {} => \E w \in open : ~waits(w))
=============================================================================

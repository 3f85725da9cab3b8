--------------------------- MODULE MCQueryGraphs ----------------------------
(***************************************************************************)
(* Two graphs of the query system for TLC: the wait graph that the         *)
(* deadlock handler searches and the dependency graph.  They share no      *)
(* state, so a behaviour is one of either, chosen at the start, while the  *)
(* variables of the other part keep their initial values.                  *)
(***************************************************************************)
EXTENDS QueryCycle, DepGraph, TLC

CONSTANTS Jobs, Threads

VARIABLE part

GraphsInit ==
  /\ part \in {"wait graph", "dep graph"}
  /\ setup \in IF part = "dep graph" THEN Setups ELSE {CHOOSE s \in Setups : TRUE}
  /\ DepInit
  /\ tried = {} /\ found = [start |-> None, flow |-> Continue]
  /\ job_map \in IF part = "wait graph" THEN Graphs ELSE {<<>>}

GraphsNext ==
  \/ part = "wait graph" /\ CycleNext /\ UNCHANGED <<part, DepVars>>
  \/ part = "dep graph" /\ DepNext /\ UNCHANGED <<part, cycleVars>>

GraphsSpec == GraphsInit /\ [][GraphsNext]_<<part, cycleVars, DepVars>>

Symmetry == Permutations(Jobs) \cup Permutations(Workers)

-----------------------------------------------------------------------------
\* All wait graphs over the jobs in which a job has a parent and at most two
\* waiting threads.
Parent(p)    == [parent |-> p, resumable |-> None]
Waiter(p, t) == [parent |-> p, resumable |-> t]

\* A job is started by its parent, so following the parents ends at the root.
ParentsEndAtRoot(g) ==
  \A J \in (SUBSET Jobs) \ {{}} : \E j \in J : g[j][1].parent \notin J

AllGraphs ==
  LET Edges == {<<Parent(p)>> \o ws :
                  p \in Jobs \cup {None},
                  ws \in UNION {[1 .. n -> {Waiter(q, t) : q \in Jobs \cup {None}, t \in Threads}] :
                                 n \in 0 .. 2}}
  IN  {g \in [Jobs -> Edges] : ParentsEndAtRoot(g)}

-----------------------------------------------------------------------------
\* The queries 1 and 2 are inputs.  The query 3 reads 2 only if 1 is not 0, so
\* that it may have the same result although an input has changed; 4 and 5
\* read 3 and then what depends on its result; 6 reads 4 and 3.
SomeProvider ==
  LET Q(first, second(_), result(_)) ==
        [first  |-> first, second |-> [v \in 0 .. 1 |-> second(v)],
         result |-> [vals \in UNION {[1 .. n -> 0 .. 1] : n \in 1 .. 2} |-> result(vals)]]
  IN  [q \in 3 .. 6 |->
        CASE q = 3 -> Q(1, LAMBDA v : IF v = 1 THEN 2 ELSE 0, LAMBDA vals : Last(vals))
          [] q = 4 -> Q(3, LAMBDA v : IF v = 1 THEN 2 ELSE 0, LAMBDA vals : Last(vals))
          [] q = 5 -> Q(3, LAMBDA v : IF v = 0 THEN 4 ELSE 1, LAMBDA vals : Last(vals))
          [] q = 6 -> Q(4, LAMBDA v : 3, LAMBDA vals : IF vals[1] = vals[2] THEN 1 ELSE 0)]

Inputs == [{1, 2} -> 0 .. 1]

\* Both roots were asked for before, with all modifiers, or one with none.
SomeSetups ==
  [before : Inputs, now : Inputs, roots : {{5, 6}},
   no_hash : {{}, {4}}, no_key : {{}, {3}}, on_disk : {{3, 4}}]
  \cup
  [before : Inputs, now : Inputs, roots : {{5}},
   no_hash : {{}}, no_key : {{}}, on_disk : {{3, 4}}]
=============================================================================

---------------------------- MODULE DepGraphProofs --------------------------
(***************************************************************************)
(* The dependency graph reuses results of the previous session without     *)
(* running their providers.  Proved here, for any queries that read        *)
(* smaller ones, any providers and inputs and any number of workers: what  *)
(* is cached and what is written to the new graph are what a build from    *)
(* nothing computes, nothing runs that such a build does not run, and the  *)
(* workers never all wait for each other.                                  *)
(*                                                                         *)
(* The argument rests on one fact about providers (SamePrefix): as long as *)
(* the dependencies that the previous run has read have their old values,  *)
(* the provider reads the same ones in the same order.  Marking visits     *)
(* them in that order, so the next one it forces is one that a build from  *)
(* nothing runs too, and when all of them are green so is the result.      *)
(*                                                                         *)
(* The invariant DInv says what the memory holds (MemoryInv, NodesExact),  *)
(* what each frame of each worker's stack has established so far (Sound),  *)
(* what a frame waits for (Calls, Answered), that whoever is asked for is  *)
(* smaller (Ordered), and that the jobs on the stacks are the active ones  *)
(* (JobsActive).                                                           *)
(***************************************************************************)
EXTENDS DepGraph, FiniteSetTheorems, SequenceTheorems, WellFoundedInduction,
        NaturalsInduction, TLAPS

-----------------------------------------------------------------------------
(* The reference build. *)

\* Queries are natural numbers, and what a query reads is smaller.
LEMMA QueryNumbers ==
  /\ Cardinality(Queries) \in Nat /\ Queries = 1 .. Cardinality(Queries)
  /\ \A q \in Queries : q \in Nat /\ q > 0 /\ \A d \in 1 .. q : d \in Queries
<1>1. IsFiniteSet(Queries) /\ Queries = 1 .. Cardinality(Queries)
  BY DepAssumption
<1>2. Cardinality(Queries) \in Nat
  BY <1>1, FS_CardinalityType
<1> DEFINE n == Cardinality(Queries)
<1>3. n \in Nat /\ Queries = 1 .. n
  BY <1>1, <1>2
<1> HIDE DEF n
<1>4. \A q \in Queries : q \in Nat /\ q > 0 /\ \A d \in 1 .. q : d \in Queries
  BY <1>3
<1> QED
  BY <1>1, <1>2, <1>4

\* What a provider asks for and returns, by how much it has read.
LEMMA ProviderTypes ==
  ASSUME NEW q \in Queries \ EvalAlways
  PROVE  /\ Provider[q].first \in 0 .. q - 1
         /\ Wants(q, <<>>) = Provider[q].first
         /\ Provider[q].first = 0 => Provider[q].result[<<>>] \in Values
         /\ \A v \in Values :
              /\ Provider[q].second[v] \in 0 .. q - 1
              /\ Wants(q, <<v>>) = Provider[q].second[v]
              /\ Provider[q].second[v] = 0 => Provider[q].result[<<v>>] \in Values
         /\ \A v, u \in Values :
              Wants(q, <<v, u>>) = 0 /\ Provider[q].result[<<v, u>>] \in Values
<1>1. /\ Provider[q].first \in 0 .. q - 1
      /\ \A v \in Values : Provider[q].second[v] \in 0 .. q - 1
      /\ \A n \in 0 .. 2 : \A vals \in [1 .. n -> Values] :
           Wants(q, vals) = 0 => Provider[q].result[vals] \in Values
  BY DepAssumption
<1>2. Len(<<>>) = 0 /\ \A v : Len(<<v>>) = 1 /\ <<v>>[1] = v /\ \A u : Len(<<v, u>>) = 2
  OBVIOUS
<1>3. /\ Wants(q, <<>>) = Provider[q].first
      /\ \A v \in Values : Wants(q, <<v>>) = Provider[q].second[v]
      /\ \A v, u \in Values : Wants(q, <<v, u>>) = 0
  BY <1>2 DEF Wants
<1>4. /\ <<>> \in [1 .. 0 -> Values]
      /\ \A v \in Values : <<v>> \in [1 .. 1 -> Values]
      /\ \A v, u \in Values : <<v, u>> \in [1 .. 2 -> Values]
  OBVIOUS
<1>5. Provider[q].first = 0 => Provider[q].result[<<>>] \in Values
  <2>1. \A vals \in [1 .. 0 -> Values] : Wants(q, vals) = 0 => Provider[q].result[vals] \in Values
    <3>1. 0 \in 0 .. 2
      OBVIOUS
    <3> QED
      BY <1>1, <3>1, Zenon
  <2>2. Wants(q, <<>>) = 0 => Provider[q].result[<<>>] \in Values
    BY <1>4, <2>1, Zenon
  <2> QED
    BY <1>3, <2>2
<1>6. ASSUME NEW v \in Values, Provider[q].second[v] = 0
      PROVE  Provider[q].result[<<v>>] \in Values
  <2>1. \A vals \in [1 .. 1 -> Values] : Wants(q, vals) = 0 => Provider[q].result[vals] \in Values
    BY <1>1
  <2>2. Wants(q, <<v>>) = 0 => Provider[q].result[<<v>>] \in Values
    BY <1>4, <2>1, Zenon
  <2> QED
    BY <1>3, <1>6, <2>2
<1>7. ASSUME NEW v \in Values, NEW u \in Values
      PROVE  Provider[q].result[<<v, u>>] \in Values
  <2>1. \A vals \in [1 .. 2 -> Values] : Wants(q, vals) = 0 => Provider[q].result[vals] \in Values
    BY <1>1
  <2>2. Wants(q, <<v, u>>) = 0 => Provider[q].result[<<v, u>>] \in Values
    BY <1>4, <2>1, Zenon
  <2> QED
    BY <1>3, <2>2
<1> QED
  BY <1>1, <1>3, <1>5, <1>6, <1>7

\* A second element.
LEMMA AppendSecond ==
  ASSUME NEW a, NEW b
  PROVE  Append(<<a>>, b) = <<a, b>>
<1> DEFINE S == {a, b}
<1>1. <<a>> \in Seq(S) /\ Len(<<a>>) = 1 /\ b \in S /\ <<a, b>> \in Seq(S) /\ Len(<<a, b>>) = 2
  OBVIOUS
<1>2. Append(<<a>>, b) \in Seq(S) /\ Len(Append(<<a>>, b)) = 2
  BY <1>1
<1>3. \A i \in 1 .. 2 : Append(<<a>>, b)[i] = <<a, b>>[i]
  BY <1>1
<1> HIDE DEF S
<1> QED
  BY <1>1, <1>2, <1>3, SeqEqual

\* What the execution of one query computes and reads, given what the smaller
\* ones compute: nothing is read, one query or two.
ReadsNone(input, q, e) ==
  /\ q \in EvalAlways \/ Provider[q].first = 0
  /\ e.value = IF q \in EvalAlways THEN input[q] ELSE Provider[q].result[<<>>]
  /\ e.reads = <<>>

ReadsOne(q, e, d1, v1) ==
  /\ q \notin EvalAlways /\ d1 = Provider[q].first /\ d1 # 0
  /\ Provider[q].second[v1] = 0
  /\ e.value = Provider[q].result[<<v1>>]
  /\ e.reads = <<d1>>

ReadsTwo(q, e, d1, v1, d2, v2) ==
  /\ q \notin EvalAlways /\ d1 = Provider[q].first /\ d1 # 0
  /\ d2 = Provider[q].second[v1] /\ d2 # 0
  /\ e.value = Provider[q].result[<<v1, v2>>]
  /\ e.reads = IF d1 = d2 THEN <<d1>> ELSE <<d1, d2>>

Executed(input, run, q, e) ==
  \/ ReadsNone(input, q, e)
  \/ \E d1 \in 1 .. q - 1 : ReadsOne(q, e, d1, run[d1].value)
  \/ \E d1, d2 \in 1 .. q - 1 : ReadsTwo(q, e, d1, run[d1].value, d2, run[d2].value)

\* The values of smaller queries are values.
Fed(run, q) == \A d \in 1 .. q - 1 : run[d].value \in Values

\* An execution reads none, one or two smaller queries.
LEMMA ExecutionCases ==
  ASSUME NEW input, NEW run, NEW q \in Queries, Fed(run, q)
  PROVE  LET e == Execution(input, run, q) IN
         Executed(input, run, q, e) /\ e = [value |-> e.value, reads |-> e.reads]
<1> DEFINE e == Execution(input, run, q)
<1>0. e = [value |-> e.value, reads |-> e.reads]
  BY DEF Execution
<1>1. CASE q \in EvalAlways
  <2>1. ReadsNone(input, q, e)
    BY <1>1 DEF ReadsNone, Execution, Wants, Result
  <2> QED
    BY <1>0, <2>1 DEF Executed
<1>2. CASE q \notin EvalAlways
  <2> DEFINE d1 == Provider[q].first
             v1 == run[d1].value
             d2 == Provider[q].second[v1]
             v2 == run[d2].value
  <2>1. d1 \in 0 .. q - 1 /\ Wants(q, <<>>) = d1 /\ q \in Nat
    BY <1>2, ProviderTypes, QueryNumbers
  <2>2. CASE d1 = 0
    <3>1. ReadsNone(input, q, e)
      BY <1>2, <2>1, <2>2 DEF ReadsNone, Execution, Result
    <3> QED
      BY <1>0, <3>1 DEF Executed
  <2>3. CASE d1 # 0
    <3>1. v1 \in Values /\ d1 \in 1 .. q - 1
      BY <2>1, <2>3 DEF Fed
    <3>2. Wants(q, <<v1>>) = d2 /\ d2 \in 0 .. q - 1
      BY <1>2, <3>1, ProviderTypes
    <3>3. Append(<<v1>>, v2) = <<v1, v2>>
      BY AppendSecond
    <3>d. d1 = Provider[q].first /\ v1 = run[d1].value /\ d2 = Provider[q].second[v1] /\ v2 = run[d2].value
      OBVIOUS
    <3> HIDE DEF d1, v1, d2, v2
    <3>4. CASE d2 = 0
      <4>1. e = [value |-> Provider[q].result[<<v1>>], reads |-> <<d1>>]
        BY <1>2, <2>1, <2>3, <3>2, <3>4 DEF Execution, Result, v1
      <4> HIDE DEF e
      <4>2. ReadsOne(q, e, d1, v1)
        BY <1>2, <2>3, <3>4, <3>d, <4>1 DEF ReadsOne
      <4>3. ReadsOne(q, e, d1, run[d1].value)
        BY <4>2, <3>d
      <4> QED
        BY <1>0, <3>1, <4>3 DEF Executed, e
    <3>5. CASE d2 # 0
      <4>1. e = [value |-> Provider[q].result[<<v1, v2>>],
                 reads |-> IF d1 = d2 THEN <<d1>> ELSE <<d1, d2>>]
        BY <1>2, <2>1, <2>3, <3>2, <3>3, <3>5 DEF Execution, Result, v1, v2
      <4> HIDE DEF e
      <4>2. ReadsTwo(q, e, d1, v1, d2, v2)
        BY <1>2, <2>3, <3>5, <3>d, <4>1 DEF ReadsTwo
      <4>3. ReadsTwo(q, e, d1, run[d1].value, d2, run[d2].value)
        BY <4>2, <3>d
      <4>4. d2 \in 1 .. q - 1
        BY <2>1, <3>2, <3>5
      <4> QED
        BY <1>0, <3>1, <4>3, <4>4 DEF Executed, e
    <3> QED
      BY <3>4, <3>5
  <2> QED
    BY <2>2, <2>3
<1> QED
  BY <1>1, <1>2

\* A query computes a value.
LEMMA ExecutionValue ==
  ASSUME NEW input \in [EvalAlways -> Values], NEW run, NEW q \in Queries, Fed(run, q)
  PROVE  Execution(input, run, q).value \in Values
<1>0. PICK e : e = Execution(input, run, q)
  OBVIOUS
<1>1. Executed(input, run, q, e)
  BY <1>0, ExecutionCases
<1> SUFFICES e.value \in Values
  BY <1>0
<1>2. CASE ReadsNone(input, q, e)
  BY <1>2, ProviderTypes DEF ReadsNone
<1>3. ASSUME NEW d1 \in 1 .. q - 1, ReadsOne(q, e, d1, run[d1].value)
      PROVE  e.value \in Values
  <2>1. PICK v1 \in Values : v1 = run[d1].value
    BY DEF Fed
  <2> QED
    BY <1>3, <2>1, ProviderTypes DEF ReadsOne
<1>4. ASSUME NEW d1 \in 1 .. q - 1, NEW d2 \in 1 .. q - 1,
             ReadsTwo(q, e, d1, run[d1].value, d2, run[d2].value)
      PROVE  e.value \in Values
  <2>1. PICK v1 \in Values : v1 = run[d1].value
    BY DEF Fed
  <2>2. PICK v2 \in Values : v2 = run[d2].value
    BY DEF Fed
  <2> QED
    BY <1>4, <2>1, <2>2, ProviderTypes DEF ReadsTwo
<1> QED
  BY <1>1, <1>2, <1>3, <1>4 DEF Executed

\* What a query computes and reads depends on smaller queries only, and is
\* determined by their values.
LEMMA ExecutedOnce ==
  ASSUME NEW input, NEW f, NEW g, NEW q \in Queries, NEW a, NEW b,
         \A d \in 1 .. q - 1 : f[d].value = g[d].value,
         Executed(input, f, q, a), Executed(input, g, q, b)
  PROVE  a.value = b.value /\ a.reads = b.reads
<1>1. CASE ReadsNone(input, q, a) \/ ReadsNone(input, q, b)
  BY <1>1 DEF Executed, ReadsNone, ReadsOne, ReadsTwo
<1>2. CASE ~ReadsNone(input, q, a) /\ ~ReadsNone(input, q, b)
  <2>1. PICK d1 \in 1 .. q - 1 : d1 = Provider[q].first
    BY <1>2 DEF Executed, ReadsOne, ReadsTwo
  <2>2. PICK v1 : v1 = f[d1].value /\ v1 = g[d1].value
    OBVIOUS
  <2>3. /\ ReadsOne(q, a, d1, v1) \/ \E d2 \in 1 .. q - 1 : ReadsTwo(q, a, d1, v1, d2, f[d2].value)
        /\ ReadsOne(q, b, d1, v1) \/ \E d2 \in 1 .. q - 1 : ReadsTwo(q, b, d1, v1, d2, g[d2].value)
    <3>1. \A e, c, v : ReadsOne(q, e, c, v) => c = d1
      BY <2>1 DEF ReadsOne
    <3>2. \A e, c, v, d, u : ReadsTwo(q, e, c, v, d, u) => c = d1
      BY <2>1 DEF ReadsTwo
    <3> QED
      BY <1>2, <2>2, <3>1, <3>2 DEF Executed
  <2>4. CASE ReadsOne(q, a, d1, v1)
    BY <2>3, <2>4 DEF ReadsOne, ReadsTwo
  <2>5. ASSUME NEW d2 \in 1 .. q - 1, ReadsTwo(q, a, d1, v1, d2, f[d2].value)
        PROVE  a.value = b.value /\ a.reads = b.reads
    <3>1. ReadsTwo(q, b, d1, v1, d2, f[d2].value)
      <4>1. ~ReadsOne(q, b, d1, v1)
        BY <2>5 DEF ReadsOne, ReadsTwo
      <4>2. PICK d \in 1 .. q - 1 : ReadsTwo(q, b, d1, v1, d, g[d].value)
        BY <2>3, <4>1
      <4>3. d = d2
        BY <2>5, <4>2 DEF ReadsTwo
      <4> QED
        BY <4>2, <4>3
    <3> QED
      BY <2>5, <3>1 DEF ReadsTwo
  <2> QED
    BY <2>3, <2>4, <2>5
<1> QED
  BY <1>1, <1>2

\* Runs that agree on the smaller queries agree on what a query does.
LEMMA ExecutionLocal ==
  ASSUME NEW input, NEW f, NEW g, NEW q \in Queries, Fed(f, q),
         \A d \in 1 .. q - 1 : f[d] = g[d]
  PROVE  Execution(input, f, q) = Execution(input, g, q)
<1>1. Fed(g, q)
  BY DEF Fed
<1>a. PICK a : a = Execution(input, f, q)
  OBVIOUS
<1>b. PICK b : b = Execution(input, g, q)
  OBVIOUS
<1>2. Executed(input, f, q, a) /\ a = [value |-> a.value, reads |-> a.reads]
  BY <1>a, ExecutionCases
<1>3. Executed(input, g, q, b) /\ b = [value |-> b.value, reads |-> b.reads]
  BY <1>1, <1>b, ExecutionCases
<1>4. a.value = b.value /\ a.reads = b.reads
  BY <1>2, <1>3, ExecutedOnce
<1> QED
  BY <1>a, <1>b, <1>2, <1>3, <1>4

\* A set of natural numbers has a least element.
LEMMA LeastNat ==
  ASSUME NEW S, S \subseteq Nat, S # {}
  PROVE  \E m \in S : \A t \in S : m <= t
<1> DEFINE R == {ss \in Nat \X Nat : ss[1] < ss[2]}
<1>1. IsWellFoundedOn(R, Nat)
  BY NatLessThanWellFounded DEF OpToRel
<1>2. \A a, b \in Nat : a < b => <<a, b>> \in R
  OBVIOUS
<1> HIDE DEF R
<1>3. PICK m \in S : \A y \in S : ~(<<y, m>> \in R)
  BY <1>1, WFMin
<1>4. ASSUME NEW t \in S PROVE m <= t
  <2>1. t \in Nat /\ m \in Nat /\ ~(t < m)
    BY <1>2, <1>3
  <2> QED
    BY <2>1
<1> QED
  BY <1>3, <1>4

\* The clean build is well defined: its recursion ends because queries read
\* smaller ones.
LEMMA CleanRuns ==
  ASSUME NEW input \in [EvalAlways -> Values]
  PROVE  /\ Clean(input) = [q \in Queries |-> Execution(input, Clean(input), q)]
         /\ \A q \in Queries : /\ Clean(input)[q] = Execution(input, Clean(input), q)
                               /\ Clean(input)[q].value \in Values
<1> DEFINE N == Cardinality(Queries)
           Upto(n, f) == /\ f = [q \in 1 .. n |-> Execution(input, f, q)]
                         /\ \A q \in 1 .. n : f[q].value \in Values
           Bad == {n \in 0 .. N : ~ \E f : Upto(n, f)}
<1>0. N \in Nat /\ Queries = 1 .. N
  BY QueryNumbers
<1> HIDE DEF N
<1>1. Bad = {}
  <2>1. SUFFICES ASSUME Bad # {} PROVE FALSE
    OBVIOUS
  <2>2. Bad \subseteq Nat
    BY <1>0
  <2>3. PICK m \in Bad : \A t \in Bad : m <= t
    BY <2>1, <2>2, LeastNat
  <2>4. m \in 0 .. N /\ ~ \E f : Upto(m, f)
    BY <2>3
  <2>5. m # 0
    <3>1. Upto(0, [q \in 1 .. 0 |-> Execution(input, <<>>, q)])
      OBVIOUS
    <3> HIDE DEF Upto
    <3> QED
      BY <2>4, <3>1
  <2>6. m - 1 \in 0 .. N /\ m - 1 \notin Bad /\ m \in Queries
    BY <1>0, <2>3, <2>4, <2>5
  <2>7. PICK f : Upto(m - 1, f)
    BY <2>6
  <2> DEFINE g == [q \in 1 .. m |-> IF q = m THEN Execution(input, f, q) ELSE f[q]]
  <2>8. \A q \in 1 .. m - 1 : g[q] = f[q] /\ f[q] = Execution(input, f, q) /\ f[q].value \in Values
    BY <2>4, <2>7
  <2>9. ASSUME NEW q \in 1 .. m
        PROVE  g[q] = Execution(input, g, q) /\ g[q].value \in Values
    <3>0. q \in Queries /\ q \in Nat /\ m \in Nat /\ 1 .. q - 1 \subseteq 1 .. m - 1
      BY <1>0, <2>4
    <3>1. Fed(f, q) /\ \A d \in 1 .. q - 1 : f[d] = g[d]
      BY <2>8, <3>0 DEF Fed
    <3>2. Execution(input, f, q) = Execution(input, g, q)
      BY <3>0, <3>1, ExecutionLocal
    <3>3. g[q] = Execution(input, f, q)
      <4>1. CASE q = m
        BY <4>1
      <4>2. CASE q # m
        <5>1. q \in 1 .. m - 1
          BY <3>0, <4>2
        <5> HIDE DEF g
        <5> QED
          BY <2>8, <5>1
      <4> QED
        BY <4>1, <4>2
    <3>4. Execution(input, f, q).value \in Values
      BY <3>0, <3>1, ExecutionValue
    <3> QED
      BY <3>2, <3>3, <3>4
  <2>10. g = [q \in 1 .. m |-> g[q]]
    OBVIOUS
  <2> HIDE DEF g
  <2>11. Upto(m, g)
    BY <2>9, <2>10
  <2> HIDE DEF Upto
  <2> QED
    BY <2>4, <2>11
<1>2. PICK f : Upto(N, f)
  BY <1>0, <1>1
<1>3. f = [q \in Queries |-> Execution(input, f, q)]
  BY <1>0, <1>2
<1> HIDE DEF Upto, Bad
<1>4. Clean(input) = CHOOSE run : run = [q \in Queries |-> Execution(input, run, q)]
  BY Zenon DEF Clean
<1> DEFINE c == Clean(input)
<1>5. c = [q \in Queries |-> Execution(input, c, q)]
  BY <1>3, <1>4, Zenon
<1> HIDE DEF c
<1>6. \A q \in Queries : c[q] = Execution(input, c, q)
  BY <1>5
<1> DEFINE Odd == {q \in Queries : c[q].value \notin Values}
<1>7. Odd = {}
  <2>1. SUFFICES ASSUME Odd # {} PROVE FALSE
    OBVIOUS
  <2>2. Odd \subseteq Nat
    BY <1>0
  <2>3. PICK m \in Odd : \A t \in Odd : m <= t
    BY <2>1, <2>2, LeastNat
  <2>4. Fed(c, m)
    BY <1>0, <2>3 DEF Fed
  <2> QED
    BY <1>6, <2>3, <2>4, ExecutionValue
<1> QED
  BY <1>5, <1>6, <1>7 DEF c

\* What a query reads are smaller queries, at most two.
LEMMA ReadsTyped ==
  ASSUME NEW input, NEW run, NEW q \in Queries, NEW e, Executed(input, run, q, e)
  PROVE  e.reads \in Seq(1 .. q - 1) /\ Len(e.reads) \in 0 .. 2
<1>1. CASE ReadsNone(input, q, e)
  BY <1>1 DEF ReadsNone
<1>2. ASSUME NEW d1 \in 1 .. q - 1, NEW v1, ReadsOne(q, e, d1, v1)
      PROVE  e.reads \in Seq(1 .. q - 1) /\ Len(e.reads) \in 0 .. 2
  BY <1>2 DEF ReadsOne
<1>3. ASSUME NEW d1 \in 1 .. q - 1, NEW d2 \in 1 .. q - 1, NEW v1, NEW v2,
             ReadsTwo(q, e, d1, v1, d2, v2)
      PROVE  e.reads \in Seq(1 .. q - 1) /\ Len(e.reads) \in 0 .. 2
  <2>1. <<d1>> \in Seq(1 .. q - 1) /\ Len(<<d1>>) = 1
    OBVIOUS
  <2>2. <<d1, d2>> \in Seq(1 .. q - 1) /\ Len(<<d1, d2>>) = 2
    OBVIOUS
  <2>3. e.reads \in {<<d1>>, <<d1, d2>>}
    BY <1>3 DEF ReadsTwo
  <2>4. CASE e.reads = <<d1>>
    BY <2>1, <2>4
  <2>5. CASE e.reads = <<d1, d2>>
    BY <2>2, <2>5
  <2> QED
    BY <2>3, <2>4, <2>5
<1> QED
  BY <1>1, <1>2, <1>3 DEF Executed

\* What each query of a clean build does.
LEMMA CleanExecuted ==
  ASSUME NEW input \in [EvalAlways -> Values]
  PROVE  \A q \in Queries :
           /\ Clean(input)[q].value \in Values
           /\ Fed(Clean(input), q)
           /\ Executed(input, Clean(input), q, Clean(input)[q])
<1> DEFINE run == Clean(input)
<1>1. \A q \in Queries : run[q] = Execution(input, run, q) /\ run[q].value \in Values
  BY CleanRuns
<1> HIDE DEF run
<1>2. ASSUME NEW q \in Queries
      PROVE  Fed(run, q) /\ Executed(input, run, q, run[q])
  <2>1. Fed(run, q)
    BY <1>1, QueryNumbers DEF Fed
  <2>2. PICK e : e = Execution(input, run, q)
    OBVIOUS
  <2>3. Executed(input, run, q, e)
    BY <2>1, <2>2, ExecutionCases
  <2> QED
    BY <1>1, <2>1, <2>2, <2>3
<1> QED
  BY <1>1, <1>2 DEF run

\* What a build needs is what its roots need, and whatever that reads.
LEMMA NeededClosed ==
  ASSUME NEW input \in [EvalAlways -> Values], NEW roots \in SUBSET Queries
  PROVE  /\ Needed(input, roots) \subseteq Queries /\ roots \subseteq Needed(input, roots)
         /\ \A q \in Needed(input, roots) : \A i \in 1 .. Len(Clean(input)[q].reads) :
              Clean(input)[q].reads[i] \in Needed(input, roots)
<1> DEFINE run == Clean(input)
           Closed(J) == \A q \in J : ToSet(run[q].reads) \subseteq J
           N == Needed(input, roots)
<1>1. N = {q \in Queries : \A J \in SUBSET Queries : roots \subseteq J /\ Closed(J) => q \in J}
  BY Zenon DEF Needed
<1>2. \A q \in Queries : run[q].reads \in Seq(1 .. q - 1)
  BY CleanExecuted, ReadsTyped
<1> HIDE DEF run, N
<1>3. ASSUME NEW q \in N, NEW i \in 1 .. Len(run[q].reads)
      PROVE  run[q].reads[i] \in N
  <2>1. q \in Queries /\ run[q].reads \in Seq(1 .. q - 1)
    BY <1>1, <1>2
  <2>2. i \in DOMAIN run[q].reads /\ run[q].reads[i] \in 1 .. q - 1
    BY <2>1, LenProperties, ElementOfSeq, Zenon
  <2>3. run[q].reads[i] \in ToSet(run[q].reads)
    BY <2>2 DEF ToSet
  <2>4. run[q].reads[i] \in Queries
    BY <2>1, <2>2, QueryNumbers
  <2>5. ASSUME NEW J \in SUBSET Queries, roots \subseteq J, Closed(J)
        PROVE  run[q].reads[i] \in J
    <3>1. q \in J
      BY <1>1, <2>5
    <3> QED
      BY <2>3, <2>5, <3>1
  <2> QED
    BY <1>1, <2>4, <2>5
<1>4. N \subseteq Queries /\ roots \subseteq N
  BY <1>1
<1> QED
  BY <1>3, <1>4 DEF run, N

\* The first k of the queries deps have the same values in two runs.
Agree(run1, run2, deps, k) == \A i \in 1 .. k : run1[deps[i]].value = run2[deps[i]].value

\* Two executions read the same after k reads, and compute the same.
Alike(a, b, k) ==
  /\ k < Len(a.reads) => k < Len(b.reads) /\ b.reads[k + 1] = a.reads[k + 1]
  /\ k = Len(a.reads) => a.value = b.value /\ a.reads = b.reads

\* As long as the dependencies of the previous run have the same values, the
\* query reads the same ones again, and if all have, it has the same result.
LEMMA SamePrefix ==
  ASSUME NEW inp1, NEW inp2, NEW run1, NEW run2, NEW q \in Queries \ EvalAlways, NEW a, NEW b,
         Executed(inp1, run1, q, a), Executed(inp2, run2, q, b),
         NEW k \in 0 .. Len(a.reads), Agree(run1, run2, a.reads, k)
  PROVE  Alike(a, b, k)
<1> USE DEF Alike
<1>1. CASE ReadsNone(inp1, q, a)
  <2>1. ReadsNone(inp2, q, b)
    BY <1>1 DEF Executed, ReadsNone, ReadsOne, ReadsTwo
  <2> QED
    BY <1>1, <2>1 DEF ReadsNone
<1>2. ASSUME NEW d1 \in 1 .. q - 1, d1 = Provider[q].first
      PROVE  /\ ~ReadsNone(inp2, q, b)
             /\ \A w : ReadsOne(q, b, d1, w) => b.reads = <<d1>>
             /\ \/ ReadsOne(q, b, d1, run2[d1].value)
                \/ \E d2 \in 1 .. q - 1 : ReadsTwo(q, b, d1, run2[d1].value, d2, run2[d2].value)
             /\ b.reads \in Seq(1 .. q - 1) /\ Len(b.reads) > 0 /\ b.reads[1] = d1
  <2>1. ~ReadsNone(inp2, q, b)
    BY <1>2 DEF ReadsNone
  <2>2. \/ ReadsOne(q, b, d1, run2[d1].value)
        \/ \E d2 \in 1 .. q - 1 : ReadsTwo(q, b, d1, run2[d1].value, d2, run2[d2].value)
    BY <1>2, <2>1 DEF Executed, ReadsOne, ReadsTwo
  <2>3. b.reads = <<d1>> \/ \E d2 : b.reads = <<d1, d2>>
    BY <2>2 DEF ReadsOne, ReadsTwo
  <2>4. Len(b.reads) > 0 /\ b.reads[1] = d1
    <3>1. CASE b.reads = <<d1>>
      BY <3>1
    <3>2. ASSUME NEW d2, b.reads = <<d1, d2>>
          PROVE  Len(b.reads) > 0 /\ b.reads[1] = d1
      BY <3>2
    <3> QED
      BY <2>3, <3>1, <3>2
  <2> QED
    BY <2>1, <2>2, <2>4, ReadsTyped DEF ReadsOne
<1>3. ASSUME NEW d1 \in 1 .. q - 1, ReadsOne(q, a, d1, run1[d1].value)
      PROVE  Alike(a, b, k)
  <2>1. a.reads = <<d1>> /\ d1 = Provider[q].first
    BY <1>3 DEF ReadsOne
  <2>2. CASE k = 0
    BY <1>2, <2>1, <2>2
  <2>3. CASE k = 1
    <3>1. run1[d1].value = run2[d1].value
      BY <2>1, <2>3 DEF Agree
    <3>2. ReadsOne(q, b, d1, run2[d1].value)
      <4>1. \/ ReadsOne(q, b, d1, run2[d1].value)
            \/ \E d2 \in 1 .. q - 1 : ReadsTwo(q, b, d1, run2[d1].value, d2, run2[d2].value)
        BY <1>2, <2>1
      <4>2. Provider[q].second[run2[d1].value] = 0
        BY <1>3, <3>1 DEF ReadsOne
      <4> QED
        BY <4>1, <4>2 DEF ReadsTwo
    <3> QED
      BY <1>3, <2>1, <2>3, <3>1, <3>2 DEF ReadsOne
  <2> QED
    BY <2>1, <2>2, <2>3
<1>4. ASSUME NEW d1 \in 1 .. q - 1, NEW d2 \in 1 .. q - 1,
             ReadsTwo(q, a, d1, run1[d1].value, d2, run1[d2].value)
      PROVE  Alike(a, b, k)
  <2>1. d1 = Provider[q].first /\ a.reads = IF d1 = d2 THEN <<d1>> ELSE <<d1, d2>>
    BY <1>4 DEF ReadsTwo
  <2>l. Len(a.reads) = (IF d1 = d2 THEN 1 ELSE 2) /\ a.reads[1] = d1 /\ (d1 # d2 => a.reads[2] = d2)
    BY <2>1
  <2>2. CASE k = 0
    BY <1>2, <2>1, <2>l, <2>2
  <2>3. CASE k # 0
    <3>1. run1[d1].value = run2[d1].value /\ k \in 1 .. 2
      BY <2>l, <2>3 DEF Agree
    <3>2. PICK d \in 1 .. q - 1 : ReadsTwo(q, b, d1, run2[d1].value, d, run2[d].value)
      <4>1. \/ ReadsOne(q, b, d1, run2[d1].value)
            \/ \E c \in 1 .. q - 1 : ReadsTwo(q, b, d1, run2[d1].value, c, run2[c].value)
        BY <1>2, <2>1
      <4>2. Provider[q].second[run2[d1].value] # 0
        BY <1>4, <3>1 DEF ReadsTwo
      <4> QED
        BY <4>1, <4>2 DEF ReadsOne
    <3>3. d = d2
      BY <1>4, <3>1, <3>2 DEF ReadsTwo
    <3>4. a.reads = b.reads
      BY <1>4, <3>2, <3>3 DEF ReadsTwo
    <3>5. CASE k < Len(a.reads)
      BY <3>4, <3>5
    <3>6. CASE k = Len(a.reads)
      <4>1. run1[d2].value = run2[d2].value
        BY <2>l, <3>1, <3>6 DEF Agree
      <4>2. a.value = b.value
        BY <1>4, <3>1, <3>2, <3>3, <4>1 DEF ReadsTwo
      <4> QED
        BY <3>4, <3>6, <4>2
    <3> QED
      BY <2>l, <3>1, <3>5, <3>6
  <2> QED
    BY <2>2, <2>3
<1> QED
  BY <1>1, <1>3, <1>4 DEF Executed

\* The values that a provider has read in a run, and the queries they are of.
ReadSoFar(run, q, vals, deps) ==
  \/ vals = <<>> /\ deps = <<>>
  \/ \E d1 \in 1 .. q - 1 : /\ q \notin EvalAlways /\ d1 = Provider[q].first
                            /\ vals = <<run[d1].value>> /\ deps = <<d1>>
  \/ \E d1, d2 \in 1 .. q - 1 :
       /\ q \notin EvalAlways /\ d1 = Provider[q].first
       /\ d2 = Provider[q].second[run[d1].value]
       /\ vals = <<run[d1].value, run[d2].value>>
       /\ deps = IF d1 = d2 THEN <<d1>> ELSE <<d1, d2>>

\* The queries read, d being the last.
Noted(deps, d) == IF d \in ToSet(deps) THEN deps ELSE Append(deps, d)

\* The elements of short sequences.
LEMMA ToSetTuples ==
  /\ ToSet(<<>>) = {}
  /\ \A a : ToSet(<<a>>) = {a}
  /\ \A a, b : ToSet(<<a, b>>) = {a, b}
<1>1. ToSet(<<>>) = {}
  BY DEF ToSet
<1>2. ASSUME NEW a PROVE ToSet(<<a>>) = {a}
  <2>1. DOMAIN <<a>> = 1 .. 1 /\ <<a>>[1] = a
    OBVIOUS
  <2> QED
    BY <2>1 DEF ToSet
<1>3. ASSUME NEW a, NEW b PROVE ToSet(<<a, b>>) = {a, b}
  <2>1. DOMAIN <<a, b>> = 1 .. 2 /\ <<a, b>>[1] = a /\ <<a, b>>[2] = b
    OBVIOUS
  <2> QED
    BY <2>1 DEF ToSet
<1> QED
  BY <1>1, <1>2, <1>3

\* A provider that has read what a clean build reads wants what that reads next,
\* or returns what that computes.
LEMMA ProviderStep ==
  ASSUME NEW input, NEW run, NEW q \in Queries, Fed(run, q), NEW e, Executed(input, run, q, e),
         NEW vals, NEW deps, ReadSoFar(run, q, vals, deps), NEW d, d = Wants(q, vals)
  PROVE  /\ d = 0 => Result(input, q, vals) = e.value /\ deps = e.reads
         /\ d # 0 => /\ d \in 1 .. q - 1 /\ \E i \in 1 .. Len(e.reads) : e.reads[i] = d
                     /\ ReadSoFar(run, q, Append(vals, run[d].value), Noted(deps, d))
<1> DEFINE Goal == /\ d = 0 => Result(input, q, vals) = e.value /\ deps = e.reads
                   /\ d # 0 => /\ d \in 1 .. q - 1 /\ \E i \in 1 .. Len(e.reads) : e.reads[i] = d
                               /\ ReadSoFar(run, q, Append(vals, run[d].value), Noted(deps, d))
<1>0. q \in Nat
  BY QueryNumbers
<1>1. CASE vals = <<>> /\ deps = <<>>
  <2>1. d = IF q \in EvalAlways THEN 0 ELSE Provider[q].first
    BY <1>1, ProviderTypes DEF Wants
  <2>2. CASE d = 0
    <3>1. ReadsNone(input, q, e)
      BY <2>1, <2>2, <1>0 DEF Executed, ReadsOne, ReadsTwo
    <3> QED
      BY <1>1, <2>2, <3>1 DEF ReadsNone, Result
  <2>3. CASE d # 0
    <3>1. q \notin EvalAlways /\ d = Provider[q].first
      BY <2>1, <2>3
    <3>2. d \in 1 .. q - 1
      BY <1>0, <2>3, <3>1, ProviderTypes
    <3>3. ~ReadsNone(input, q, e)
      BY <2>3, <3>1 DEF ReadsNone
    <3>4. e.reads = <<d>> \/ \E c : e.reads = <<d, c>>
      BY <3>1, <3>3 DEF Executed, ReadsOne, ReadsTwo
    <3>5. 1 \in 1 .. Len(e.reads) /\ e.reads[1] = d
      <4>1. CASE e.reads = <<d>>
        BY <4>1
      <4>2. ASSUME NEW c, e.reads = <<d, c>>
            PROVE  1 \in 1 .. Len(e.reads) /\ e.reads[1] = d
        BY <4>2
      <4> QED
        BY <3>4, <4>1, <4>2
    <3>6. Append(vals, run[d].value) = <<run[d].value>> /\ Noted(deps, d) = <<d>>
      BY <1>1, ToSetTuples DEF Noted
    <3>7. ReadSoFar(run, q, <<run[d].value>>, <<d>>)
      BY <3>1, <3>2 DEF ReadSoFar
    <3> QED
      BY <2>3, <3>2, <3>5, <3>6, <3>7
  <2> QED
    BY <2>2, <2>3
<1>2. ASSUME NEW d1 \in 1 .. q - 1, q \notin EvalAlways, d1 = Provider[q].first,
             vals = <<run[d1].value>>, deps = <<d1>>
      PROVE  Goal
  <2>1. PICK v1 \in Values : v1 = run[d1].value
    BY DEF Fed
  <2>2. d = Provider[q].second[v1] /\ d \in 0 .. q - 1
    BY <1>2, <2>1, ProviderTypes
  <2>3. ~ReadsNone(input, q, e)
    BY <1>2, <1>0 DEF ReadsNone
  <2>4. \/ ReadsOne(q, e, d1, v1)
        \/ \E d2 \in 1 .. q - 1 : ReadsTwo(q, e, d1, v1, d2, run[d2].value)
    BY <1>2, <2>1, <2>3 DEF Executed, ReadsOne, ReadsTwo
  <2>5. CASE d = 0
    <3>1. ReadsOne(q, e, d1, v1)
      BY <2>2, <2>4, <2>5 DEF ReadsTwo
    <3> QED
      BY <1>2, <2>1, <2>5, <3>1 DEF ReadsOne, Result
  <2>6. CASE d # 0
    <3>1. d \in 1 .. q - 1
      BY <1>0, <2>2, <2>6
    <3>2. ReadsTwo(q, e, d1, v1, d, run[d].value)
      BY <2>2, <2>4, <2>6 DEF ReadsOne, ReadsTwo
    <3>3. e.reads = IF d1 = d THEN <<d1>> ELSE <<d1, d>>
      BY <3>2 DEF ReadsTwo
    <3>4. \E i \in 1 .. Len(e.reads) : e.reads[i] = d
      <4>1. CASE d1 = d
        BY <3>3, <4>1
      <4>2. CASE d1 # d
        BY <3>3, <4>2
      <4> QED
        BY <4>1, <4>2
    <3>5. Append(vals, run[d].value) = <<v1, run[d].value>>
      BY <1>2, <2>1, AppendSecond
    <3>6. Noted(deps, d) = IF d1 = d THEN <<d1>> ELSE <<d1, d>>
      BY <1>2, ToSetTuples, AppendSecond DEF Noted
    <3>7. ReadSoFar(run, q, <<run[d1].value, run[d].value>>, IF d1 = d THEN <<d1>> ELSE <<d1, d>>)
      BY <1>2, <2>1, <2>2, <3>1 DEF ReadSoFar
    <3> QED
      BY <2>1, <2>6, <3>1, <3>4, <3>5, <3>6, <3>7
  <2> QED
    BY <2>5, <2>6
<1>3. ASSUME NEW d1 \in 1 .. q - 1, NEW d2 \in 1 .. q - 1, q \notin EvalAlways,
             d1 = Provider[q].first, d2 = Provider[q].second[run[d1].value],
             vals = <<run[d1].value, run[d2].value>>,
             deps = IF d1 = d2 THEN <<d1>> ELSE <<d1, d2>>
      PROVE  Goal
  <2>1. PICK v1 \in Values : v1 = run[d1].value
    BY DEF Fed
  <2>2. PICK v2 \in Values : v2 = run[d2].value
    BY DEF Fed
  <2>3. d = 0
    BY <1>3, <2>1, <2>2, ProviderTypes
  <2>4. d1 # 0 /\ d2 # 0
    BY <1>0
  <2>5. ReadsTwo(q, e, d1, v1, d2, v2)
    <3>1. ~ReadsNone(input, q, e)
      BY <1>3, <2>4 DEF ReadsNone
    <3>2. \A c, v : ReadsOne(q, e, c, v) => c = d1 /\ Provider[q].second[v] = 0
      BY <1>3 DEF ReadsOne
    <3>3. ~ \E c \in 1 .. q - 1 : ReadsOne(q, e, c, run[c].value)
      BY <1>3, <2>1, <2>4, <3>2
    <3>4. PICK c1 \in 1 .. q - 1, c2 \in 1 .. q - 1 : ReadsTwo(q, e, c1, run[c1].value, c2, run[c2].value)
      BY <3>1, <3>3 DEF Executed
    <3>5. c1 = d1
      BY <1>3, <3>4 DEF ReadsTwo
    <3>6. c2 = d2
      BY <1>3, <3>4, <3>5 DEF ReadsTwo
    <3> QED
      BY <2>1, <2>2, <3>4, <3>5, <3>6
  <2> QED
    BY <1>3, <2>1, <2>2, <2>3, <2>5 DEF ReadsTwo, Result
<1> QED
  BY <1>1, <1>2, <1>3 DEF ReadSoFar

-----------------------------------------------------------------------------
(* The session: what is fixed. *)

\* The two builds of the session.
Session ==
  /\ setup \in Setups
  /\ prev = [nodes |-> Needed(setup.before, setup.roots), run |-> Clean(setup.before)]
  /\ clean = [nodes |-> Needed(setup.now, Roots), run |-> Clean(setup.now)]

\* What a query computes now, whether that has changed, and what it has read.
Value(q) == clean.run[q].value
Unchanged(q) == clean.run[q].value = prev.run[q].value
PrevReads(q) == prev.run[q].reads

\* What the two builds of the session do.
LEMMA SessionRuns ==
  ASSUME Session
  PROVE  /\ setup.before \in [EvalAlways -> Values] /\ setup.now \in [EvalAlways -> Values]
         /\ \A q \in Queries :
              /\ prev.run[q].value \in Values /\ Fed(prev.run, q)
              /\ Executed(setup.before, prev.run, q, prev.run[q])
         /\ \A q \in Queries :
              /\ clean.run[q].value \in Values /\ Fed(clean.run, q)
              /\ Executed(setup.now, clean.run, q, clean.run[q])
<1>1. PICK before \in [EvalAlways -> Values] : before = setup.before
  BY DepAssumption DEF Session
<1>2. PICK now \in [EvalAlways -> Values] : now = setup.now
  BY DepAssumption DEF Session
<1>3. prev.run = Clean(before) /\ clean.run = Clean(now)
  BY <1>1, <1>2 DEF Session
<1>4. \A q \in Queries : /\ Clean(before)[q].value \in Values /\ Fed(Clean(before), q)
                         /\ Executed(before, Clean(before), q, Clean(before)[q])
  BY CleanExecuted
<1>5. \A q \in Queries : /\ Clean(now)[q].value \in Values /\ Fed(Clean(now), q)
                         /\ Executed(now, Clean(now), q, Clean(now)[q])
  BY CleanExecuted
<1> QED
  BY <1>1, <1>2, <1>3, <1>4, <1>5

\* The nodes of the two graphs.
LEMMA SessionNodes ==
  ASSUME Session
  PROVE  /\ prev.nodes \subseteq Queries /\ clean.nodes \subseteq Queries
         /\ Roots \subseteq clean.nodes
         /\ \A q \in Queries : PrevReads(q) \in Seq(1 .. q - 1)
         /\ \A q \in Queries : clean.run[q].reads \in Seq(1 .. q - 1)
         /\ \A q \in prev.nodes : \A i \in 1 .. Len(PrevReads(q)) : PrevReads(q)[i] \in prev.nodes
         /\ \A q \in clean.nodes : \A i \in 1 .. Len(clean.run[q].reads) :
              clean.run[q].reads[i] \in clean.nodes
<1>1. PICK before \in [EvalAlways -> Values] : before = setup.before
  BY SessionRuns
<1>2. PICK now \in [EvalAlways -> Values] : now = setup.now
  BY SessionRuns
<1>3. PICK roots \in SUBSET Queries : roots = setup.roots
  BY DepAssumption DEF Session
<1>4. Roots \in SUBSET Queries
  BY DepAssumption
<1>5. /\ prev.nodes = Needed(before, roots) /\ clean.nodes = Needed(now, Roots)
      /\ prev.run = Clean(before) /\ clean.run = Clean(now)
  BY <1>1, <1>2, <1>3 DEF Session
<1>6. \A q \in Queries : PrevReads(q) \in Seq(1 .. q - 1) /\ clean.run[q].reads \in Seq(1 .. q - 1)
  <2> SUFFICES ASSUME NEW q \in Queries
               PROVE  prev.run[q].reads \in Seq(1 .. q - 1) /\ clean.run[q].reads \in Seq(1 .. q - 1)
    BY DEF PrevReads
  <2>1. Executed(setup.before, prev.run, q, prev.run[q]) /\ Executed(setup.now, clean.run, q, clean.run[q])
    BY SessionRuns
  <2> QED
    BY <2>1, ReadsTyped
<1>7. /\ Needed(before, roots) \subseteq Queries
      /\ \A q \in Needed(before, roots) : \A i \in 1 .. Len(Clean(before)[q].reads) :
           Clean(before)[q].reads[i] \in Needed(before, roots)
  BY NeededClosed
<1>8. /\ Needed(now, Roots) \subseteq Queries /\ Roots \subseteq Needed(now, Roots)
      /\ \A q \in Needed(now, Roots) : \A i \in 1 .. Len(Clean(now)[q].reads) :
           Clean(now)[q].reads[i] \in Needed(now, Roots)
  BY <1>4, NeededClosed
<1>9. \A q \in prev.nodes : \A i \in 1 .. Len(PrevReads(q)) : PrevReads(q)[i] \in prev.nodes
  BY <1>5, <1>7, Zenon DEF PrevReads
<1>10. \A q \in clean.nodes : \A i \in 1 .. Len(clean.run[q].reads) :
              clean.run[q].reads[i] \in clean.nodes
  BY <1>5, <1>8, Zenon
<1> QED
  BY <1>5, <1>6, <1>7, <1>8, <1>9, <1>10

\* What a node of the previous graph reads is a smaller query.
LEMMA PrevRead ==
  ASSUME Session, NEW q \in Queries, NEW i \in 1 .. Len(PrevReads(q))
  PROVE  /\ PrevReads(q)[i] \in Queries /\ PrevReads(q)[i] < q
         /\ q \in prev.nodes => PrevReads(q)[i] \in prev.nodes
<1>1. PrevReads(q) \in Seq(1 .. q - 1)
  BY SessionNodes
<1>2. PrevReads(q)[i] \in 1 .. q - 1
  BY <1>1, ElementOfSeq, Zenon
<1>3. q \in prev.nodes => PrevReads(q)[i] \in prev.nodes
  BY SessionNodes
<1> QED
  BY <1>2, <1>3, QueryNumbers

\* The dependencies before the next one being unchanged, a clean build reads that
\* one too; all of them being unchanged, so is the query.
LEMMA SessionPrefix ==
  ASSUME Session, NEW q \in Queries \ EvalAlways, NEW k \in 0 .. Len(PrevReads(q)),
         \A i \in 1 .. k : Unchanged(PrevReads(q)[i])
  PROVE  /\ k < Len(PrevReads(q)) /\ q \in clean.nodes => PrevReads(q)[k + 1] \in clean.nodes
         /\ k = Len(PrevReads(q)) => Unchanged(q) /\ clean.run[q].reads = PrevReads(q)
<1>1. Executed(setup.before, prev.run, q, prev.run[q]) /\ Executed(setup.now, clean.run, q, clean.run[q])
  BY SessionRuns
<1>2. PICK a : a = prev.run[q]
  OBVIOUS
<1>3. PICK b : b = clean.run[q]
  OBVIOUS
<1>4. a.reads = PrevReads(q)
  BY <1>2 DEF PrevReads
<1>5. PICK before, old, now, new : before = setup.before /\ old = prev.run /\ now = setup.now /\ new = clean.run
  OBVIOUS
<1>6. Executed(before, old, q, a) /\ Executed(now, new, q, b)
  BY <1>1, <1>2, <1>3, <1>5
<1>7. /\ k < Len(a.reads) => k < Len(b.reads) /\ b.reads[k + 1] = a.reads[k + 1]
      /\ k = Len(a.reads) => a.value = b.value /\ a.reads = b.reads
  <2>1. Agree(old, new, a.reads, k)
    BY <1>4, <1>5 DEF Unchanged, Agree
  <2>2. k \in 0 .. Len(a.reads)
    BY <1>4
  <2>3. Alike(a, b, k)
    BY <1>6, <2>1, <2>2, SamePrefix
  <2> QED
    BY <2>3 DEF Alike
<1>8. ASSUME k < Len(PrevReads(q)), q \in clean.nodes
      PROVE  PrevReads(q)[k + 1] \in clean.nodes
  <2>1. b.reads \in Seq(1 .. q - 1)
    BY <1>3, SessionNodes
  <2>2. Len(b.reads) \in Nat /\ k \in Nat
    BY <2>1, LenProperties
  <2>3. k + 1 \in 1 .. Len(b.reads) /\ b.reads[k + 1] = PrevReads(q)[k + 1]
    BY <1>4, <1>7, <1>8, <2>2
  <2>4. \A i \in 1 .. Len(b.reads) : b.reads[i] \in clean.nodes
    BY <1>3, <1>8, SessionNodes
  <2> QED
    BY <2>3, <2>4
<1>9. k = Len(PrevReads(q)) => Unchanged(q) /\ clean.run[q].reads = PrevReads(q)
  BY <1>2, <1>3, <1>4, <1>7 DEF Unchanged
<1> QED
  BY <1>8, <1>9

\* What a provider reads next, or returns.
LEMMA SessionProvider ==
  ASSUME Session, NEW q \in clean.nodes, NEW vals, NEW deps,
         ReadSoFar(clean.run, q, vals, deps), NEW d, d = Wants(q, vals)
  PROVE  /\ d = 0 => Result(setup.now, q, vals) = Value(q) /\ deps = clean.run[q].reads
         /\ d # 0 => /\ d \in 1 .. q - 1 /\ d \in clean.nodes /\ Value(d) \in Values
                     /\ ReadSoFar(clean.run, q, Append(vals, Value(d)), Noted(deps, d))
<1>1. q \in Queries
  BY SessionNodes
<1>2. PICK e : e = clean.run[q]
  OBVIOUS
<1>3. Executed(setup.now, clean.run, q, e) /\ Fed(clean.run, q)
  BY <1>1, <1>2, SessionRuns
<1>4. /\ d = 0 => Result(setup.now, q, vals) = e.value /\ deps = e.reads
      /\ d # 0 => /\ d \in 1 .. q - 1 /\ \E i \in 1 .. Len(e.reads) : e.reads[i] = d
                  /\ ReadSoFar(clean.run, q, Append(vals, clean.run[d].value), Noted(deps, d))
  BY <1>1, <1>3, ProviderStep
<1>5. \A i \in 1 .. Len(e.reads) : e.reads[i] \in clean.nodes
  BY <1>2, SessionNodes
<1>6. d # 0 => d \in clean.nodes
  BY <1>4, <1>5
<1>7. d # 0 => Value(d) \in Values
  BY <1>3, <1>4 DEF Value, Fed
<1> QED
  BY <1>2, <1>4, <1>6, <1>7 DEF Value

-----------------------------------------------------------------------------
(* The invariant. *)

\* The frames of a stack, by what is being done.
JobFrame ==
  [op : {"job"}, query : Queries, pc : {"start", "marked", "run", "rerun", "complete"},
   vals : Seq(Values), reads : Seq(Nat), value : Values \cup {0}, index : Nat]
MarkFrame ==
  [op : {"mark"}, query : Queries, pc : {"look", "marked", "forced"}, edges : Seq(Nat)]
CallFrame == [op : {"call"}, query : Queries]
EnsureFrame == [op : {"ensure"}, query : Queries, pc : {"start", "marked"}]
Frames == JobFrame \cup MarkFrame \cup CallFrame \cup EnsureFrame

\* The types of the variables.
DTyped ==
  /\ color \in [Queries -> Nat \cup {Red}]
  /\ encoded \in Seq([node : Queries, edges : Seq(Nat), hash : Values \cup {ZERO}])
  /\ cache \in [Queries -> [value : Values \cup {0}, index : Nat]]
  /\ active \in [Queries -> Workers \cup {Nobody}]
  /\ stack \in [Workers -> Seq(Frames)]
  /\ ret \in [Workers -> Nat]
  /\ asked \in [Workers -> Nat]

\* The indices s are those of the nodes r.
Names(s, r) == Len(s) = Len(r) /\ \A k \in 1 .. Len(s) : Written(s[k], r[k])

\* The query's provider has run, and its node is red or new.
Ran(q) == color[q] = Red \/ (q \notin prev.nodes /\ \E i \in DOMAIN encoded : encoded[i].node = q)

\* A provider that runs has read values of a clean build, and noted their
\* indices; a query that is run again is green.
SoundJob(f) ==
  /\ f.pc # "complete" => ~Ran(f.query)
  /\ f.pc \in {"start", "marked"} => f.vals = <<>> /\ f.reads = <<>>
  /\ f.pc = "marked" => f.query \notin EvalAlways /\ f.query \in prev.nodes
  /\ f.pc \in {"run", "rerun"} =>
       \E deps \in Seq(Queries) : /\ ReadSoFar(clean.run, f.query, f.vals, deps)
                                  /\ f.pc = "run" => Names(f.reads, deps)
  /\ f.pc = "rerun" => Green(f.query) /\ f.index = color[f.query]
  /\ f.pc = "complete" => /\ f.value = Value(f.query) /\ Written(f.index, f.query)
                          /\ f.query \in prev.nodes => color[f.query] # Unknown

\* The dependencies that marking has passed are green.
SoundMark(f) ==
  /\ f.query \in prev.nodes /\ f.query \notin EvalAlways
  /\ Len(f.edges) <= Len(PrevReads(f.query))
  /\ \A k \in 1 .. Len(f.edges) :
       Green(PrevReads(f.query)[k]) /\ f.edges[k] = color[PrevReads(f.query)[k]]
  /\ f.pc # "look" => Visiting(f)

\* What a frame has established.
Sound(f) ==
  /\ f.query \in clean.nodes
  /\ f.op = "job" => SoundJob(f)
  /\ f.op = "mark" => SoundMark(f)
  /\ f.op = "ensure" /\ f.pc = "marked" => f.query \in prev.nodes /\ f.query \notin EvalAlways

\* What a frame has called.
Calls(f, g) ==
  \/ f.op \in {"job", "ensure"} /\ f.pc = "marked" /\ g.op = "mark" /\ g.query = f.query
  \/ /\ f.op = "job" /\ f.pc \in {"run", "rerun"} /\ g.op \in {"call", "job"}
     /\ g.query = Wants(f.query, f.vals)
  \/ f.op = "mark" /\ f.pc = "marked" /\ g.op = "mark" /\ g.query = Edge(f)
  \/ f.op = "mark" /\ f.pc = "forced" /\ g.op \in {"call", "job"} /\ g.query = Edge(f)

\* What was to be marked, and what the answer r means; a forced query is cached.
Target(f) == IF f.op = "mark" THEN Edge(f) ELSE f.query
Answered(f, r) ==
  /\ f.op # "call" /\ f.pc = "marked" /\ r # Failed => Green(Target(f)) /\ color[Target(f)] = r
  /\ f.op = "mark" /\ f.pc = "forced" => cache[Edge(f)] # Vacant

\* A query is asked for by larger ones.
Ordered(s) ==
  \A i, j \in 1 .. Len(s) : i < j =>
    /\ s[j].query <= s[i].query
    /\ s[j].op \in {"call", "job"} => s[j].query < s[i].query

\* The stack s of a worker that was last told r.
StackOK(s, r) ==
  /\ \A i \in 1 .. Len(s) : Sound(s[i])
  /\ \A i \in 1 .. Len(s) - 1 : Calls(s[i], s[i + 1])
  /\ Ordered(s)
  /\ s # <<>> => Answered(s[Len(s)], r)

\* The jobs on the stacks are the active ones, each on one stack.
HasJob(s, q) == \E i \in 1 .. Len(s) : s[i].op = "job" /\ s[i].query = q

JobsActive ==
  \A q \in Queries, w \in Workers : active[q] = w <=> HasJob(stack[w], q)

\* What the memory says of a query is true of a clean build.
MemoryInv(q) ==
  /\ color[q] # Unknown => q \in prev.nodes
  /\ Green(q) => Written(color[q], q) /\ Unchanged(q)
  /\ q \in prev.nodes /\ (\E i \in DOMAIN encoded : encoded[i].node = q) => color[q] # Unknown
  /\ Ran(q) => cache[q] # Vacant \/ active[q] # Nobody
  /\ active[q] # Nobody => cache[q] = Vacant
  /\ cache[q] # Vacant => /\ Written(cache[q].index, q) /\ cache[q].value = Value(q)
                          /\ q \in prev.nodes => color[q] # Unknown

\* Every node of the new graph is the one of a clean build, and there once.
NodesExact ==
  /\ \A i, j \in DOMAIN encoded : encoded[i].node = encoded[j].node => i = j
  /\ \A i \in DOMAIN encoded :
       /\ encoded[i].hash = fingerprint(encoded[i].node, Value(encoded[i].node))
       /\ Names(encoded[i].edges, clean.run[encoded[i].node].reads)

\* The inductive invariant.
DInv ==
  /\ Session /\ DTyped /\ ~panicked
  /\ \A w \in Workers : StackOK(stack[w], ret[w])
  /\ JobsActive /\ NodesExact
  /\ \A q \in Queries : MemoryInv(q)

-----------------------------------------------------------------------------
(* Frames and stacks. *)

\* A frame by its kind.
LEMMA FrameTypes ==
  ASSUME NEW f \in Frames
  PROVE  /\ f.query \in Queries /\ f.query \in Nat
         /\ f.op \in {"job", "mark", "call", "ensure"}
         /\ f.op = "job" => f \in JobFrame
         /\ f.op = "mark" => f \in MarkFrame
         /\ f.op = "call" => f \in CallFrame
         /\ f.op = "ensure" => f \in EnsureFrame
<1>1. CASE f \in JobFrame
  BY <1>1, QueryNumbers DEF JobFrame
<1>2. CASE f \in MarkFrame
  BY <1>2, QueryNumbers DEF MarkFrame
<1>3. CASE f \in CallFrame
  BY <1>3, QueryNumbers DEF CallFrame
<1>4. CASE f \in EnsureFrame
  BY <1>4, QueryNumbers DEF EnsureFrame
<1> QED
  BY <1>1, <1>2, <1>3, <1>4 DEF Frames

\* The dependency that marking visits.
LEMMA EdgeTypes ==
  ASSUME Session, NEW f \in MarkFrame, SoundMark(f)
  PROVE  /\ f.edges \in Seq(Nat) /\ Len(f.edges) \in 0 .. Len(PrevReads(f.query))
         /\ Len(PrevReads(f.query)) \in Nat
         /\ \A k \in 1 .. Len(PrevReads(f.query)) : PrevReads(f.query)[k] \in Queries
         /\ Visiting(f) <=> Len(f.edges) < Len(PrevReads(f.query))
         /\ Edge(f) = PrevReads(f.query)[Len(f.edges) + 1]
         /\ Visiting(f) => /\ Edge(f) \in Queries /\ Edge(f) \in prev.nodes /\ Edge(f) < f.query
<1>1. f.query \in Queries /\ f.edges \in Seq(Nat)
  BY DEF MarkFrame
<1>2. PrevReads(f.query) \in Seq(1 .. f.query - 1)
  BY <1>1, SessionNodes
<1>3. Len(PrevReads(f.query)) \in Nat
  BY <1>2, LenProperties
<1>4. Len(f.edges) \in Nat
  BY <1>1, LenProperties
<1>5. Len(f.edges) <= Len(PrevReads(f.query)) /\ f.query \in prev.nodes
  BY DEF SoundMark
<1>6. \A k \in 1 .. Len(PrevReads(f.query)) :
        /\ PrevReads(f.query)[k] \in Queries /\ PrevReads(f.query)[k] < f.query
        /\ PrevReads(f.query)[k] \in prev.nodes
  BY <1>1, <1>5, PrevRead
<1>7. Visiting(f) <=> Len(f.edges) < Len(PrevReads(f.query))
  BY DEF Visiting, PrevReads
<1>8. Edge(f) = PrevReads(f.query)[Len(f.edges) + 1]
  BY DEF Edge, PrevReads
<1>9. Visiting(f) => Len(f.edges) + 1 \in 1 .. Len(PrevReads(f.query))
  BY <1>3, <1>4, <1>7
<1> QED
  BY <1>1, <1>3, <1>4, <1>5, <1>6, <1>7, <1>8, <1>9

\* The memory only grows: colors, nodes and results stay.
Grow ==
  /\ UNCHANGED <<setup, prev, clean>>
  /\ \A q \in Queries : color[q] # Unknown => color'[q] = color[q]
  /\ \A i, q : Written(i, q) => Written(i, q)'
  /\ \A q \in Queries : cache[q] # Vacant => cache'[q] # Vacant

\* What is green stays green, with its index.
LEMMA GreenKept ==
  ASSUME Grow, NEW q \in Queries, Green(q)
  PROVE  Green(q)' /\ color'[q] = color[q]
BY DEF Grow, Green

\* Indices stay those of the same nodes.
LEMMA NamesKept ==
  ASSUME Grow, NEW s, NEW r, Names(s, r)
  PROVE  Names(s, r)'
<1>1. Len(s) = Len(r) /\ \A k \in 1 .. Len(s) : Written(s[k], r[k])'
  BY DEF Names, Grow
<1> QED
  BY <1>1 DEF Names

\* What holds of a frame goes on to hold, unless it is about to run a provider
\* that has run.
LEMMA SoundKept ==
  ASSUME Session, Grow, NEW f \in Frames, Sound(f),
         f.op = "job" /\ f.pc # "complete" => ~Ran(f.query)'
  PROVE  Sound(f)'
<1>0. prev' = prev /\ clean' = clean /\ f.query \in Queries
  BY FrameTypes DEF Grow
<1>1. ASSUME f.op = "job" PROVE SoundJob(f)'
  <2>1. f \in JobFrame /\ SoundJob(f) /\ (f.pc # "complete" => ~Ran(f.query)')
    BY <1>1, FrameTypes DEF Sound
  <2>2. ASSUME f.pc \in {"run", "rerun"}
        PROVE  \E deps \in Seq(Queries) : /\ ReadSoFar(clean.run, f.query, f.vals, deps)'
                                          /\ f.pc = "run" => Names(f.reads, deps)'
    <3>1. PICK deps \in Seq(Queries) : /\ ReadSoFar(clean.run, f.query, f.vals, deps)
                                       /\ f.pc = "run" => Names(f.reads, deps)
      BY <2>1, <2>2 DEF SoundJob
    <3>2. ReadSoFar(clean.run, f.query, f.vals, deps)'
      BY <1>0, <3>1
    <3>3. f.pc = "run" => Names(f.reads, deps)'
      BY <3>1, NamesKept
    <3> QED
      BY <3>2, <3>3
  <2>3. f.pc = "rerun" => Green(f.query)' /\ f.index = color'[f.query]
    BY <1>0, <2>1, GreenKept DEF SoundJob
  <2>4. f.pc = "complete" => /\ f.value = Value(f.query)' /\ Written(f.index, f.query)'
                             /\ f.query \in prev'.nodes => color'[f.query] # Unknown
    BY <1>0, <2>1 DEF SoundJob, Grow, Value
  <2>5. /\ f.pc \in {"start", "marked"} => f.vals = <<>> /\ f.reads = <<>>
        /\ f.pc = "marked" => f.query \notin EvalAlways /\ f.query \in prev'.nodes
    BY <1>0, <2>1 DEF SoundJob
  <2> QED
    BY <2>1, <2>2, <2>3, <2>4, <2>5 DEF SoundJob
<1>2. ASSUME f.op = "mark" PROVE SoundMark(f)'
  <2>1. f \in MarkFrame /\ SoundMark(f)
    BY <1>2, FrameTypes DEF Sound
  <2>2. /\ Len(f.edges) \in 0 .. Len(PrevReads(f.query)) /\ Len(PrevReads(f.query)) \in Nat
        /\ \A k \in 1 .. Len(PrevReads(f.query)) : PrevReads(f.query)[k] \in Queries
    BY <2>1, EdgeTypes
  <2>3. PrevReads(f.query)' = PrevReads(f.query) /\ (Visiting(f)' <=> Visiting(f))
    BY <1>0 DEF PrevReads, Visiting
  <2>4. ASSUME NEW k \in 1 .. Len(f.edges)
        PROVE  Green(PrevReads(f.query)[k])' /\ f.edges[k] = color'[PrevReads(f.query)[k]]
    <3>1. PICK d \in Queries : d = PrevReads(f.query)[k]
      BY <2>2
    <3>2. Green(d) /\ f.edges[k] = color[d]
      BY <2>1, <3>1 DEF SoundMark
    <3>3. Green(d)' /\ f.edges[k] = color'[d]
      BY <3>2, GreenKept
    <3> QED
      BY <2>3, <3>1, <3>3
  <2> QED
    BY <1>0, <2>1, <2>3, <2>4 DEF SoundMark
<1> QED
  BY <1>0, <1>1, <1>2 DEF Sound

\* An answer stays true.
LEMMA AnsweredKept ==
  ASSUME Session, Grow, NEW f \in Frames, Sound(f), NEW r, Answered(f, r)
  PROVE  Answered(f, r)'
<1>0. prev' = prev
  BY DEF Grow
<1>1. CASE f.op = "mark"
  <2>1. f \in MarkFrame /\ SoundMark(f)
    BY <1>1, FrameTypes DEF Sound
  <2>2. f.pc # "look" => Visiting(f) /\ Edge(f) \in Queries
    BY <2>1, EdgeTypes DEF SoundMark
  <2>3. PICK d : d = Edge(f)
    OBVIOUS
  <2>4. Edge(f)' = d
    BY <1>0, <2>3 DEF Edge
  <2>5. /\ f.pc = "marked" /\ r # Failed => Green(d) /\ color[d] = r
        /\ f.pc = "forced" => cache[d] # Vacant
    BY <1>1, <2>3 DEF Answered, Target
  <2>6. /\ f.pc = "marked" /\ r # Failed => Green(d)' /\ color'[d] = r
        /\ f.pc = "forced" => cache'[d] # Vacant
    BY <2>2, <2>3, <2>5, GreenKept DEF Grow
  <2> QED
    BY <1>1, <2>4, <2>6 DEF Answered, Target
<1>2. CASE f.op # "mark"
  <2>1. f.op # "call" /\ f.pc = "marked" /\ r # Failed => Green(f.query)' /\ color'[f.query] = r
    BY <1>2, FrameTypes, GreenKept DEF Answered, Target
  <2> QED
    BY <1>2, <2>1 DEF Answered, Target
<1> QED
  BY <1>1, <1>2

\* What a frame has called does not change with the memory.
LEMMA CallsKept ==
  ASSUME prev' = prev, NEW f, NEW g
  PROVE  Calls(f, g)' <=> Calls(f, g)
BY DEF Calls, Edge

\* No frame of s, up to the k-th, is about to run a provider that has run.
Quiet(s, k) ==
  \A i \in 1 .. k : s[i].op = "job" /\ s[i].pc # "complete" => ~Ran(s[i].query)

\* The other workers' stacks.
LEMMA StackKept ==
  ASSUME Session, Grow, NEW s \in Seq(Frames), NEW r, StackOK(s, r), Quiet(s, Len(s))'
  PROVE  StackOK(s, r)'
<1>0. Len(s) \in Nat /\ \A i \in 1 .. Len(s) : s[i] \in Frames
  BY LenProperties, ElementOfSeq
<1>1. \A i \in 1 .. Len(s) : Sound(s[i])'
  <2> SUFFICES ASSUME NEW i \in 1 .. Len(s) PROVE Sound(s[i])'
    OBVIOUS
  <2>1. PICK f \in Frames : f = s[i]
    BY <1>0
  <2>2. Sound(f) /\ (f.op = "job" /\ f.pc # "complete" => ~Ran(f.query)')
    BY <2>1 DEF StackOK, Quiet
  <2>3. Sound(f)'
    BY <2>2, SoundKept
  <2> QED
    BY <2>1, <2>3
<1>2. \A i \in 1 .. Len(s) - 1 : Calls(s[i], s[i + 1])'
  BY CallsKept DEF StackOK, Grow
<1>3. s # <<>> => Answered(s[Len(s)], r)'
  <2> SUFFICES ASSUME s # <<>> PROVE Answered(s[Len(s)], r)'
    OBVIOUS
  <2>1. Len(s) \in 1 .. Len(s)
    BY <1>0
  <2>2. PICK f \in Frames : f = s[Len(s)]
    BY <1>0, <2>1
  <2>3. Sound(f) /\ Answered(f, r)
    BY <2>1, <2>2 DEF StackOK
  <2>4. Answered(f, r)'
    BY <2>3, AnsweredKept
  <2> QED
    BY <2>2, <2>4
<1> QED
  BY <1>1, <1>2, <1>3 DEF StackOK, Ordered

\* What a frame becomes in place.
Evolves(f, g) ==
  /\ g.query = f.query
  /\ g.op = f.op \/ (f.op = "call" /\ g.op = "job") \/ (f.op = "ensure" /\ g.op = "call")

\* The top frame of s returns, changes or calls another one.
MoveTo(s, t) ==
  /\ Len(t) \in {Len(s) - 1, Len(s), Len(s) + 1}
  /\ \A i \in 1 .. Len(s) - 1 : t[i] = s[i]
  /\ Len(t) >= Len(s) => Evolves(s[Len(s)], t[Len(s)])
  /\ Len(t) > Len(s) => /\ Calls(t[Len(s)], t[Len(s) + 1])
                        /\ t[Len(s) + 1].query <= t[Len(s)].query
                        /\ t[Len(s) + 1].op \in {"call", "job"} =>
                             t[Len(s) + 1].query < t[Len(s)].query

\* Calls goes on to hold of a frame and what it has called.
LEMMA EvolvesCalls ==
  ASSUME NEW e, NEW f, NEW g, Calls(e, f), Evolves(f, g)
  PROVE  Calls(e, g) /\ (g.op \in {"call", "job"} => f.op \in {"call", "job"})
BY DEF Calls, Evolves

\* A stack that moves still asks for smaller and smaller queries.
LEMMA MoveOrdered ==
  ASSUME NEW s \in Seq(Frames), NEW t \in Seq(Frames), Len(s) > 0, MoveTo(s, t), Ordered(s),
         \A i \in 1 .. Len(s) - 1 : Calls(s[i], s[i + 1])
  PROVE  Ordered(t) /\ \A i \in 1 .. Len(t) - 1 : Calls(t[i], t[i + 1])
<1>1. PICK n \in Nat \ {0} : n = Len(s)
  BY LenProperties
<1>2. PICK m \in {n - 1, n, n + 1} : m = Len(t)
  BY <1>1 DEF MoveTo
<1>3. /\ \A i \in 1 .. n : s[i] \in Frames /\ s[i].query \in Nat
      /\ \A i \in 1 .. m : t[i] \in Frames /\ t[i].query \in Nat
  BY <1>1, <1>2, ElementOfSeq, FrameTypes
<1>4. /\ \A i \in 1 .. n - 1 : t[i] = s[i]
      /\ m >= n => Evolves(s[n], t[n])
      /\ m > n => /\ Calls(t[n], t[n + 1]) /\ t[n + 1].query <= t[n].query
                  /\ t[n + 1].op \in {"call", "job"} => t[n + 1].query < t[n].query
  BY <1>1, <1>2, Zenon DEF MoveTo
<1>5. ASSUME NEW i \in 1 .. m - 1 PROVE Calls(t[i], t[i + 1])
  <2>1. CASE i + 1 < n
    <3>1. t[i] = s[i] /\ t[i + 1] = s[i + 1] /\ i \in 1 .. Len(s) - 1
      BY <1>1, <1>4, <2>1
    <3> QED
      BY <3>1
  <2>2. CASE i + 1 = n
    <3>1. t[i] = s[i] /\ i \in 1 .. Len(s) - 1 /\ Evolves(s[i + 1], t[i + 1])
      BY <1>1, <1>4, <2>2
    <3> QED
      BY <3>1, EvolvesCalls
  <2>3. CASE i + 1 > n
    <3>1. i = n /\ m > n
      BY <1>1, <1>2, <2>3
    <3> QED
      BY <1>4, <3>1
  <2> QED
    BY <1>1, <1>2, <2>1, <2>2, <2>3
<1>6. ASSUME NEW i \in 1 .. m, NEW j \in 1 .. m, i < j
      PROVE  t[j].query <= t[i].query /\ (t[j].op \in {"call", "job"} => t[j].query < t[i].query)
  <2>0. \A a, b \in 1 .. n : a < b =>
          s[b].query <= s[a].query /\ (s[b].op \in {"call", "job"} => s[b].query < s[a].query)
    BY <1>1 DEF Ordered
  <2>1. CASE j < n
    <3>1. t[i] = s[i] /\ t[j] = s[j] /\ i \in 1 .. n /\ j \in 1 .. n
      BY <1>1, <1>2, <1>4, <1>6, <2>1
    <3> QED
      BY <1>6, <2>0, <3>1
  <2>2. ASSUME m >= n, i < n
        PROVE  t[n].query <= t[i].query /\ (t[n].op \in {"call", "job"} => t[n].query < t[i].query)
    <3>1. t[i] = s[i] /\ i \in 1 .. n /\ n \in 1 .. n /\ n - 1 \in 1 .. Len(s) - 1 /\ (n - 1) + 1 = n
      BY <1>1, <1>2, <1>4, <2>2
    <3>2. Calls(s[n - 1], s[n]) /\ Evolves(s[n], t[n])
      BY <1>4, <2>2, <3>1
    <3>3. t[n].query = s[n].query /\ (t[n].op \in {"call", "job"} => s[n].op \in {"call", "job"})
      BY <3>2, EvolvesCalls DEF Evolves
    <3> QED
      BY <2>0, <2>2, <3>1, <3>3
  <2>3. CASE j = n
    BY <1>2, <1>6, <2>2, <2>3
  <2>4. CASE j > n
    <3>1. j = n + 1 /\ m > n
      BY <1>1, <1>2, <2>4
    <3>2. CASE i = n
      BY <1>4, <3>1, <3>2
    <3>3. CASE i # n
      <4>1. i < n /\ t[n].query <= t[i].query
        BY <1>1, <1>2, <1>6, <2>2, <3>1, <3>3
      <4>2. t[n].query \in Nat /\ t[i].query \in Nat /\ t[j].query \in Nat
        BY <1>1, <1>2, <1>3, <3>1
      <4> QED
        BY <1>4, <3>1, <4>1, <4>2
    <3> QED
      BY <3>2, <3>3
  <2> QED
    BY <1>1, <1>2, <2>1, <2>3, <2>4
<1> QED
  BY <1>2, <1>5, <1>6 DEF Ordered

\* The stack of the worker that moves.
LEMMA StackMoves ==
  ASSUME Session, Grow, NEW s \in Seq(Frames), NEW t \in Seq(Frames), NEW r, NEW u,
         Len(s) > 0, StackOK(s, r), Quiet(s, Len(s) - 1)', MoveTo(s, t),
         \A i \in Len(s) .. Len(t) : Sound(t[i])',
         Len(t) > 0 => Answered(t[Len(t)], u)'
  PROVE  StackOK(t, u)'
<1>0. /\ Len(s) \in Nat /\ \A i \in 1 .. Len(s) : s[i] \in Frames
      /\ Len(t) \in Nat /\ \A i \in 1 .. Len(t) : t[i] \in Frames
  BY LenProperties, ElementOfSeq
<1>1. ASSUME NEW i \in 1 .. Len(t) PROVE Sound(t[i])'
  <2>1. CASE i >= Len(s)
    BY <1>0, <2>1
  <2>2. CASE i < Len(s)
    <3>1. i \in 1 .. Len(s) - 1 /\ i \in 1 .. Len(s)
      BY <1>0, <2>2
    <3>2. PICK f \in Frames : f = s[i]
      BY <1>0, <3>1
    <3>3. t[i] = f
      BY <3>1, <3>2 DEF MoveTo
    <3>4. Sound(f) /\ (f.op = "job" /\ f.pc # "complete" => ~Ran(f.query)')
      BY <3>1, <3>2 DEF StackOK, Quiet
    <3>5. Sound(f)'
      BY <3>4, SoundKept
    <3> QED
      BY <3>3, <3>5
  <2> QED
    BY <1>0, <2>1, <2>2
<1>2. Ordered(t) /\ \A i \in 1 .. Len(t) - 1 : Calls(t[i], t[i + 1])
  BY MoveOrdered DEF StackOK
<1>3. \A i \in 1 .. Len(t) - 1 : Calls(t[i], t[i + 1])'
  BY <1>2, CallsKept DEF Grow
<1>4. t # <<>> => Answered(t[Len(t)], u)'
  BY <1>0
<1> QED
  BY <1>1, <1>2, <1>3, <1>4 DEF StackOK, Ordered

\* The frames below the top one.
LEMMA FrontTypes ==
  ASSUME NEW s \in Seq(Frames), s # <<>>
  PROVE  /\ Len(s) \in Nat \ {0} /\ Front(s) \in Seq(Frames) /\ Len(Front(s)) = Len(s) - 1
         /\ \A i \in 1 .. Len(s) - 1 : Front(s)[i] = s[i]
         /\ \A i \in 1 .. Len(s) : s[i] \in Frames
         /\ Last(s) = s[Len(s)]
<1>1. Len(s) \in Nat \ {0} /\ \A i \in 1 .. Len(s) : s[i] \in Frames
  BY EmptySeq, LenProperties, ElementOfSeq
<1>2. PICK n \in Nat \ {0} : n = Len(s)
  BY <1>1
<1>3. \A i \in 1 .. n - 1 : s[i] \in Frames
  BY <1>1, <1>2
<1>4. /\ SubSeq(s, 1, n - 1) \in Seq(Frames)
      /\ Len(SubSeq(s, 1, n - 1)) = IF 1 <= n - 1 THEN (n - 1) - 1 + 1 ELSE 0
      /\ \A i \in 1 .. (n - 1) - 1 + 1 : SubSeq(s, 1, n - 1)[i] = s[1 + i - 1]
  <2>1. 1 \in Int /\ n - 1 \in Int
    OBVIOUS
  <2> QED
    BY <1>3, <2>1, SubSeqProperties
<1>5. Front(s) = SubSeq(s, 1, n - 1)
  BY <1>2 DEF Front
<1> DEFINE r == Front(s)
<1>6. r \in Seq(Frames) /\ Len(r) = n - 1
  BY <1>4, <1>5
<1>7. \A i \in 1 .. n - 1 : r[i] = s[i]
  <2> SUFFICES ASSUME NEW i \in 1 .. n - 1 PROVE r[i] = s[i]
    OBVIOUS
  <2>1. i \in 1 .. (n - 1) - 1 + 1 /\ 1 + i - 1 = i
    OBVIOUS
  <2> QED
    BY <1>4, <1>5, <2>1
<1> QED
  BY <1>1, <1>2, <1>6, <1>7 DEF Last

\* The worker's stack is t now.
Restacked(w, t) == stack' = [stack EXCEPT ![w] = t]

\* t has the lower frames of s.
Above(s, t) == \A i \in 1 .. Len(s) - 1 : t[i] = s[i]

\* The stack when the top frame becomes g.
LEMMA BecomeShape ==
  ASSUME DTyped, NEW w \in Workers, stack[w] # <<>>, NEW f \in Frames, Become(w, f)
  PROVE  \E t \in Seq(Frames) : /\ Restacked(w, t) /\ Above(stack[w], t)
                                /\ Len(t) = Len(stack[w]) /\ t[Len(stack[w])] = f
<1>1. PICK s \in Seq(Frames) : s = stack[w]
  BY DEF DTyped
<1>2. PICK r \in Seq(Frames) : r = Front(s)
  BY <1>1, FrontTypes
<1>3. PICK n \in Nat \ {0} : n = Len(s)
  BY <1>1, FrontTypes
<1>4. Len(r) = n - 1 /\ \A i \in 1 .. n - 1 : r[i] = s[i]
  BY <1>1, <1>2, <1>3, FrontTypes
<1> DEFINE t == Append(r, f)
<1>5. /\ t \in Seq(Frames) /\ Len(t) = Len(r) + 1 /\ t[Len(r) + 1] = f
      /\ \A i \in 1 .. Len(r) : t[i] = r[i]
  BY AppendProperties
<1>6. Restacked(w, t)
  BY <1>1, <1>2 DEF Become, Restacked
<1> HIDE DEF t
<1>7. Len(t) = n /\ t[n] = f /\ \A i \in 1 .. n - 1 : t[i] = s[i]
  BY <1>4, <1>5
<1> QED
  BY <1>1, <1>3, <1>5, <1>6, <1>7 DEF Above

\* The stack when the top frame becomes g and calls h.
LEMMA PushShape ==
  ASSUME DTyped, NEW w \in Workers, stack[w] # <<>>, NEW f \in Frames, NEW g \in Frames, Push(w, f, g)
  PROVE  \E t \in Seq(Frames) : /\ Restacked(w, t) /\ Above(stack[w], t)
                                /\ Len(t) = Len(stack[w]) + 1
                                /\ t[Len(stack[w])] = f /\ t[Len(stack[w]) + 1] = g
<1>1. PICK s \in Seq(Frames) : s = stack[w]
  BY DEF DTyped
<1>2. PICK r \in Seq(Frames) : r = Front(s)
  BY <1>1, FrontTypes
<1>3. PICK n \in Nat \ {0} : n = Len(s)
  BY <1>1, FrontTypes
<1>4. Len(r) = n - 1 /\ \A i \in 1 .. n - 1 : r[i] = s[i]
  BY <1>1, <1>2, <1>3, FrontTypes
<1>5. PICK p \in Seq(Frames) : p = Append(r, f)
  BY AppendProperties
<1>6. Len(p) = Len(r) + 1 /\ p[Len(r) + 1] = f /\ \A i \in 1 .. Len(r) : p[i] = r[i]
  BY <1>5, AppendProperties
<1>7. PICK t \in Seq(Frames) : t = Append(p, g)
  BY AppendProperties
<1>8. Len(t) = Len(p) + 1 /\ t[Len(p) + 1] = g /\ \A i \in 1 .. Len(p) : t[i] = p[i]
  BY <1>7, AppendProperties
<1>9. Restacked(w, t)
  BY <1>1, <1>2, <1>5, <1>7 DEF Push, Restacked
<1>10. Len(p) = n /\ p[n] = f /\ \A i \in 1 .. n - 1 : p[i] = s[i]
  BY <1>4, <1>6
<1>11. Len(t) = n + 1 /\ t[n] = f /\ t[n + 1] = g /\ \A i \in 1 .. n - 1 : t[i] = s[i]
  BY <1>8, <1>10
<1> QED
  BY <1>1, <1>3, <1>9, <1>11 DEF Above

\* The stack when the top frame returns.
LEMMA ReturnShape ==
  ASSUME DTyped, NEW w \in Workers, stack[w] # <<>>, Return(w)
  PROVE  \E t \in Seq(Frames) : /\ Restacked(w, t) /\ Above(stack[w], t)
                                /\ Len(t) = Len(stack[w]) - 1
<1>1. PICK s \in Seq(Frames) : s = stack[w]
  BY DEF DTyped
<1>2. PICK r \in Seq(Frames) : r = Front(s)
  BY <1>1, FrontTypes
<1>3. Len(r) = Len(s) - 1 /\ \A i \in 1 .. Len(s) - 1 : r[i] = s[i]
  BY <1>1, <1>2, FrontTypes
<1>4. Restacked(w, r)
  BY <1>1, <1>2 DEF Return, Restacked
<1> QED
  BY <1>1, <1>3, <1>4 DEF Above

\* The top frame.
LEMMA TopFrame ==
  ASSUME DInv, NEW w \in Workers, stack[w] # <<>>
  PROVE  /\ Frame(w) \in Frames /\ Frame(w) = stack[w][Len(stack[w])]
         /\ Sound(Frame(w)) /\ Answered(Frame(w), ret[w])
         /\ stack[w] \in Seq(Frames) /\ Len(stack[w]) \in Nat \ {0}
         /\ ret[w] \in Nat
<1>1. PICK s \in Seq(Frames) : s = stack[w]
  BY DEF DInv, DTyped
<1>2. /\ Len(s) \in Nat \ {0} /\ Last(s) = s[Len(s)]
      /\ \A i \in 1 .. Len(s) : s[i] \in Frames
  BY <1>1, FrontTypes
<1>3. StackOK(s, ret[w]) /\ s # <<>>
  BY <1>1 DEF DInv
<1>4. Len(s) \in 1 .. Len(s)
  BY <1>2
<1>5. PICK f \in Frames : f = s[Len(s)]
  BY <1>2, <1>4
<1>6. Sound(f) /\ Answered(f, ret[w])
  BY <1>3, <1>4, <1>5 DEF StackOK
<1>7. Frame(w) = f
  BY <1>1, <1>2, <1>5 DEF Frame
<1>8. ret[w] \in Nat
  BY DEF DInv, DTyped
<1> QED
  BY <1>1, <1>2, <1>5, <1>6, <1>7, <1>8

\* The job frames stay when one is not made or left.
SameJob(s, t) ==
  /\ s[Len(s)].op = "job" <=> Len(t) >= Len(s) /\ t[Len(s)].op = "job"
  /\ Len(t) > Len(s) => t[Len(s) + 1].op # "job"

\* Such a step leaves the jobs of the stack as they are.
LEMMA JobsKept ==
  ASSUME NEW s \in Seq(Frames), NEW t \in Seq(Frames), Len(s) > 0, MoveTo(s, t), SameJob(s, t), NEW q
  PROVE  HasJob(t, q) <=> HasJob(s, q)
<1>1. PICK n \in Nat \ {0} : n = Len(s)
  BY LenProperties
<1>2. PICK m \in {n - 1, n, n + 1} : m = Len(t)
  BY <1>1 DEF MoveTo
<1>3. /\ \A i \in 1 .. n - 1 : t[i] = s[i]
      /\ m >= n => t[n].query = s[n].query
      /\ s[n].op = "job" <=> m >= n /\ t[n].op = "job"
      /\ m > n => t[n + 1].op # "job"
  BY <1>1, <1>2, Zenon DEF MoveTo, Evolves, SameJob
<1>4. ASSUME HasJob(s, q) PROVE HasJob(t, q)
  <2>1. PICK i \in 1 .. n : s[i].op = "job" /\ s[i].query = q
    BY <1>1, <1>4 DEF HasJob
  <2>2. i \in 1 .. m /\ t[i].op = "job" /\ t[i].query = q
    <3>1. CASE i = n
      BY <1>1, <1>2, <1>3, <2>1, <3>1
    <3>2. CASE i # n
      <4>1. i \in 1 .. n - 1 /\ i \in 1 .. m
        BY <1>1, <1>2, <3>2
      <4> QED
        BY <1>3, <2>1, <4>1
    <3> QED
      BY <3>1, <3>2
  <2> QED
    BY <1>2, <2>2 DEF HasJob
<1>5. ASSUME HasJob(t, q) PROVE HasJob(s, q)
  <2>1. PICK i \in 1 .. m : t[i].op = "job" /\ t[i].query = q
    BY <1>2, <1>5 DEF HasJob
  <2>2. i # n + 1
    BY <1>1, <1>2, <1>3, <2>1
  <2>3. i \in 1 .. n /\ s[i].op = "job" /\ s[i].query = q
    <3>1. CASE i = n
      BY <1>1, <1>2, <1>3, <2>1, <3>1
    <3>2. CASE i # n
      <4>1. i \in 1 .. n - 1 /\ i \in 1 .. n
        BY <1>1, <1>2, <2>2, <3>2
      <4> QED
        BY <1>3, <2>1, <4>1
    <3> QED
      BY <3>1, <3>2
  <2> QED
    BY <1>1, <2>3 DEF HasJob
<1> QED
  BY <1>4, <1>5

\* No frame but the top one of w is about to run a provider that has run.
OthersQuiet(w) ==
  \A v \in Workers : \A s \in Seq(Frames) : s = stack[v] =>
    \A i \in 1 .. Len(s) : (v = w => i < Len(s)) =>
      (s[i].op = "job" /\ s[i].pc # "complete" => ~Ran(s[i].query)')

\* All stacks, when one moves.
LEMMA Stacks ==
  ASSUME DInv, Grow, NEW w \in Workers, stack[w] # <<>>, OthersQuiet(w),
         NEW t \in Seq(Frames), Restacked(w, t), MoveTo(stack[w], t),
         NEW u, ret' = [ret EXCEPT ![w] = u],
         \A i \in Len(stack[w]) .. Len(t) : \A f \in Frames : f = t[i] => Sound(f)',
         Len(t) > 0 => Answered(t[Len(t)], u)'
  PROVE  \A v \in Workers : StackOK(stack[v], ret[v])'
<1>1. SUFFICES ASSUME NEW v \in Workers PROVE StackOK(stack[v], ret[v])'
  OBVIOUS
<1>2. PICK s \in Seq(Frames) : s = stack[v]
  BY DEF DInv, DTyped
<1>3. PICK r : r = ret[v]
  OBVIOUS
<1>4. StackOK(s, r) /\ Session
  BY <1>2, <1>3 DEF DInv
<1>5. Len(s) \in Nat
  BY LenProperties
<1>6. CASE v = w
  <2>1. stack'[v] = t /\ ret'[v] = u
    BY <1>6 DEF DInv, DTyped, Restacked
  <2>2. Len(s) > 0
    BY <1>2, <1>5, <1>6, TopFrame
  <2>3. Quiet(s, Len(s) - 1)'
    BY <1>2, <1>5, <1>6 DEF OthersQuiet, Quiet
  <2>4. \A i \in Len(s) .. Len(t) : Sound(t[i])'
    <3> SUFFICES ASSUME NEW i \in Len(s) .. Len(t) PROVE Sound(t[i])'
      OBVIOUS
    <3>1. i \in 1 .. Len(t)
      BY <1>5, <2>2, LenProperties
    <3>2. PICK f \in Frames : f = t[i]
      BY <3>1, ElementOfSeq
    <3>3. i \in Len(stack[w]) .. Len(t)
      BY <1>2, <1>6
    <3>4. Sound(f)'
      BY <3>2, <3>3
    <3> QED
      BY <3>2, <3>4
  <2>5. MoveTo(s, t)
    BY <1>2, <1>6
  <2>6. StackOK(t, u)'
    BY <1>4, <2>2, <2>3, <2>4, <2>5, StackMoves
  <2> QED
    BY <2>1, <2>6
<1>7. CASE v # w
  <2>1. stack'[v] = s /\ ret'[v] = r
    BY <1>2, <1>3, <1>7 DEF DInv, DTyped, Restacked
  <2>2. Quiet(s, Len(s))'
    BY <1>2, <1>5, <1>7 DEF OthersQuiet, Quiet
  <2>3. StackOK(s, r)'
    BY <1>4, <2>2, StackKept
  <2> QED
    BY <2>1, <2>3
<1> QED
  BY <1>6, <1>7

-----------------------------------------------------------------------------
(* Steps that leave the memory as it is. *)

\* A step that changes no memory.
Remembers == UNCHANGED <<setup, prev, clean, color, encoded, cache, active>> /\ ~panicked'

MemorySame == Remembers /\ UNCHANGED asked

\* A memory that stays as it is has grown.
LEMMA SameGrows ==
  ASSUME DInv, Remembers
  PROVE  /\ Grow
         /\ \A q : Ran(q)' <=> Ran(q)
         /\ NodesExact' /\ \A q \in Queries : MemoryInv(q)'
<1>1. Grow
  BY DEF Remembers, Grow, Written
<1>2. \A q : Ran(q)' <=> Ran(q)
  BY DEF Remembers, Ran
<1>3. NodesExact'
  BY DEF Remembers, NodesExact, DInv, Names, Written, fingerprint, Value
<1>4. ASSUME NEW q \in Queries PROVE MemoryInv(q)'
  <2>1. MemoryInv(q)
    BY DEF DInv
  <2> QED
    BY <2>1 DEF Remembers, MemoryInv, Green, Written, Unchanged, Ran, Value
<1> QED
  BY <1>1, <1>2, <1>3, <1>4

\* A provider that has not run still has not.
LEMMA QuietSame ==
  ASSUME DInv, NEW w, \A q \in Queries : Ran(q)' => Ran(q)
  PROVE  OthersQuiet(w)
<1> SUFFICES ASSUME NEW v \in Workers, NEW s \in Seq(Frames), s = stack[v], NEW i \in 1 .. Len(s),
                    s[i].op = "job", s[i].pc # "complete"
             PROVE  ~Ran(s[i].query)'
  BY DEF OthersQuiet
<1>1. PICK f \in Frames : f = s[i]
  BY ElementOfSeq
<1>2. StackOK(s, ret[v])
  BY DEF DInv
<1>3. Sound(f)
  BY <1>1, <1>2 DEF StackOK
<1>4. PICK q \in Queries : q = f.query
  BY FrameTypes
<1>5. ~Ran(q)
  BY <1>1, <1>3, <1>4 DEF Sound, SoundJob
<1>6. ~Ran(q)'
  BY <1>5
<1> QED
  BY <1>1, <1>4, <1>6

\* A step that only changes a stack and what the worker is told.
LEMMA Moved ==
  ASSUME DInv, MemorySame, NEW w \in Workers, stack[w] # <<>>,
         NEW t \in Seq(Frames), Restacked(w, t), MoveTo(stack[w], t), SameJob(stack[w], t),
         NEW u \in Nat, ret' = [ret EXCEPT ![w] = u],
         \A i \in Len(stack[w]) .. Len(t) : Sound(t[i]),
         Len(t) > 0 => Sound(t[Len(t)]) /\ Answered(t[Len(t)], u)
  PROVE  DInv'
<1>1. /\ Grow
      /\ \A q : Ran(q)' <=> Ran(q)
      /\ NodesExact' /\ \A q \in Queries : MemoryInv(q)'
  BY SameGrows DEF MemorySame
<1>2. Session /\ Session' /\ ~panicked'
  BY DEF DInv, MemorySame, Remembers, Session
<1>3. OthersQuiet(w)
  BY <1>1, QuietSame
<1>4. ASSUME NEW i \in Len(stack[w]) .. Len(t), NEW f \in Frames, f = t[i]
      PROVE  Sound(f)'
  <2>1. Sound(f)
    BY <1>4
  <2>2. f.op = "job" /\ f.pc # "complete" => ~Ran(f.query)'
    BY <1>1, <2>1 DEF Sound, SoundJob
  <2> QED
    BY <1>1, <1>2, <2>1, <2>2, SoundKept
<1>5. Len(t) > 0 => Answered(t[Len(t)], u)'
  <2> SUFFICES ASSUME Len(t) > 0 PROVE Answered(t[Len(t)], u)'
    OBVIOUS
  <2>1. Len(t) \in 1 .. Len(t)
    BY LenProperties
  <2>2. PICK f \in Frames : f = t[Len(t)]
    BY <2>1, ElementOfSeq
  <2>3. Sound(f) /\ Answered(f, u)
    BY <2>2
  <2>4. Answered(f, u)'
    BY <1>1, <1>2, <2>3, AnsweredKept
  <2> QED
    BY <2>2, <2>4
<1>6. \A v \in Workers : StackOK(stack[v], ret[v])'
  BY <1>1, <1>3, <1>4, <1>5, Stacks
<1>7. DTyped'
  BY DEF DInv, DTyped, MemorySame, Remembers, Restacked
<1>8. JobsActive'
  <2> SUFFICES ASSUME NEW q \in Queries, NEW v \in Workers
               PROVE  active'[q] = v <=> HasJob(stack'[v], q)
    BY DEF JobsActive, HasJob
  <2>1. active[q] = v <=> HasJob(stack[v], q)
    BY DEF DInv, JobsActive
  <2>2. HasJob(stack'[v], q) <=> HasJob(stack[v], q)
    <3>1. CASE v = w
      <4>1. PICK s \in Seq(Frames) : s = stack[w]
        BY TopFrame
      <4>2. HasJob(t, q) <=> HasJob(s, q)
        BY <4>1, TopFrame, JobsKept
      <4>3. stack'[v] = t
        BY <3>1 DEF DInv, DTyped, Restacked
      <4> QED
        BY <3>1, <4>1, <4>2, <4>3
    <3>2. CASE v # w
      BY <3>2 DEF DInv, DTyped, Restacked
    <3> QED
      BY <3>1, <3>2
  <2> QED
    BY <2>1, <2>2 DEF MemorySame, Remembers
<1> QED
  BY <1>1, <1>2, <1>6, <1>7, <1>8 DEF DInv

\* The top frame changes.
LEMMA Becomes ==
  ASSUME DInv, MemorySame, NEW w \in Workers, stack[w] # <<>>, UNCHANGED ret,
         NEW f \in Frames, Become(w, f), Evolves(Frame(w), f),
         f.op = "job" <=> Frame(w).op = "job", Sound(f), Answered(f, ret[w])
  PROVE  DInv'
<1>1. DTyped
  BY DEF DInv
<1>2. PICK t \in Seq(Frames) : /\ Restacked(w, t) /\ Above(stack[w], t)
                               /\ Len(t) = Len(stack[w]) /\ t[Len(stack[w])] = f
  BY <1>1, BecomeShape
<1>3. Frame(w) = stack[w][Len(stack[w])] /\ Len(stack[w]) \in Nat \ {0} /\ ret[w] \in Nat
  BY TopFrame
<1>4. MoveTo(stack[w], t)
  BY <1>2, <1>3 DEF MoveTo, Above
<1>5. SameJob(stack[w], t)
  BY <1>2, <1>3 DEF SameJob
<1>6. \A i \in Len(stack[w]) .. Len(t) : Sound(t[i])
  BY <1>2, <1>3
<1>7. Sound(t[Len(t)]) /\ Answered(t[Len(t)], ret[w])
  BY <1>2
<1>8. ret' = [ret EXCEPT ![w] = ret[w]]
  BY DEF DInv, DTyped
<1> QED
  BY <1>2, <1>3, <1>4, <1>5, <1>6, <1>7, <1>8, Moved

\* The top frame calls another one.
LEMMA Pushes ==
  ASSUME DInv, MemorySame, NEW w \in Workers, stack[w] # <<>>, UNCHANGED ret,
         NEW f \in Frames, NEW g \in Frames, Push(w, f, g),
         Evolves(Frame(w), f), f.op = Frame(w).op, Sound(f), Sound(g), Calls(f, g),
         \/ g.op = "mark" /\ g.pc = "look" /\ g.query <= f.query
         \/ g.op = "call" /\ g.query < f.query
  PROVE  DInv'
<1>1. DTyped
  BY DEF DInv
<1>2. PICK t \in Seq(Frames) : /\ Restacked(w, t) /\ Above(stack[w], t)
                               /\ Len(t) = Len(stack[w]) + 1
                               /\ t[Len(stack[w])] = f /\ t[Len(stack[w]) + 1] = g
  BY <1>1, PushShape
<1>3. Frame(w) = stack[w][Len(stack[w])] /\ Len(stack[w]) \in Nat \ {0} /\ ret[w] \in Nat
  BY TopFrame
<1>q. g.query \in Nat /\ f.query \in Nat
  BY FrameTypes
<1>4. MoveTo(stack[w], t)
  BY <1>2, <1>3, <1>q DEF MoveTo, Above
<1>5. SameJob(stack[w], t)
  BY <1>2, <1>3 DEF SameJob
<1>6. \A i \in Len(stack[w]) .. Len(t) : Sound(t[i])
  BY <1>2, <1>3
<1>7. Sound(t[Len(t)]) /\ Answered(t[Len(t)], ret[w])
  <2>1. Answered(g, ret[w])
    BY DEF Answered
  <2> QED
    BY <1>2, <2>1
<1>8. ret' = [ret EXCEPT ![w] = ret[w]]
  BY DEF DInv, DTyped
<1> QED
  BY <1>2, <1>3, <1>4, <1>5, <1>6, <1>7, <1>8, Moved

\* The top frame returns.
LEMMA Returns ==
  ASSUME DInv, MemorySame, NEW w \in Workers, stack[w] # <<>>, Frame(w).op # "job", Return(w),
         NEW u \in Nat, ret' = [ret EXCEPT ![w] = u],
         \A e \in Frames : Calls(e, Frame(w)) /\ Sound(e) => Answered(e, u)
  PROVE  DInv'
<1>1. DTyped
  BY DEF DInv
<1>2. PICK t \in Seq(Frames) : /\ Restacked(w, t) /\ Above(stack[w], t)
                               /\ Len(t) = Len(stack[w]) - 1
  BY <1>1, ReturnShape
<1>3. PICK s \in Seq(Frames) : s = stack[w]
  BY TopFrame
<1>n. PICK n \in Nat \ {0} : n = Len(s)
  BY <1>3, TopFrame
<1>f. Frame(w) = s[n]
  BY <1>3, <1>n, TopFrame
<1>4. MoveTo(stack[w], t)
  BY <1>2, <1>3, <1>n DEF MoveTo, Above
<1>5. SameJob(stack[w], t)
  BY <1>2, <1>3, <1>n, <1>f DEF SameJob
<1>6. \A i \in Len(stack[w]) .. Len(t) : Sound(t[i])
  BY <1>2, <1>3, <1>n
<1>7. Len(t) > 0 => Sound(t[Len(t)]) /\ Answered(t[Len(t)], u)
  <2> SUFFICES ASSUME Len(t) > 0 PROVE Sound(t[Len(t)]) /\ Answered(t[Len(t)], u)
    OBVIOUS
  <2>1. Len(t) = n - 1 /\ n - 1 \in 1 .. Len(s) - 1 /\ n - 1 \in 1 .. Len(s) /\ (n - 1) + 1 = n
    BY <1>2, <1>3, <1>n
  <2>2. PICK e \in Frames : e = s[n - 1]
    BY <2>1, ElementOfSeq
  <2>3. t[Len(t)] = e
    BY <1>2, <1>3, <2>1, <2>2 DEF Above
  <2>4. StackOK(s, ret[w])
    BY <1>3 DEF DInv
  <2>5. Sound(e)
    BY <2>1, <2>2, <2>4 DEF StackOK
  <2>6. Calls(e, Frame(w))
    BY <1>f, <2>1, <2>2, <2>4 DEF StackOK
  <2> QED
    BY <2>3, <2>5, <2>6
<1> QED
  BY <1>2, <1>4, <1>5, <1>6, <1>7, Moved

-----------------------------------------------------------------------------
(* The steps of a worker. *)

\* New frames.
LEMMA NewFrames ==
  ASSUME NEW q \in Queries
  PROVE  /\ Call(q) \in Frames /\ Call(q).op = "call" /\ Call(q).query = q
         /\ Ensure(q) \in Frames /\ Ensure(q).op = "ensure" /\ Ensure(q).query = q
         /\ Ensure(q).pc = "start"
         /\ Mark(q) \in Frames /\ Mark(q).op = "mark" /\ Mark(q).query = q
         /\ Mark(q).pc = "look" /\ Mark(q).edges = <<>>
         /\ Job(q) \in Frames /\ Job(q).op = "job" /\ Job(q).query = q /\ Job(q).pc = "start"
         /\ Job(q).vals = <<>> /\ Job(q).reads = <<>>
<1>1. Call(q) \in CallFrame /\ Call(q).op = "call" /\ Call(q).query = q
  BY DEF Call, CallFrame
<1>2. Ensure(q) \in EnsureFrame /\ Ensure(q).op = "ensure" /\ Ensure(q).query = q /\ Ensure(q).pc = "start"
  BY DEF Ensure, EnsureFrame
<1>3. /\ Mark(q) \in MarkFrame /\ Mark(q).op = "mark" /\ Mark(q).query = q
      /\ Mark(q).pc = "look" /\ Mark(q).edges = <<>>
  BY DEF Mark, MarkFrame
<1>4. /\ Job(q) \in JobFrame /\ Job(q).op = "job" /\ Job(q).query = q /\ Job(q).pc = "start"
      /\ Job(q).vals = <<>> /\ Job(q).reads = <<>>
  BY DEF Job, JobFrame
<1> QED
  BY <1>1, <1>2, <1>3, <1>4 DEF Frames

\* A frame that has just been called is sound.
LEMMA NewSound ==
  ASSUME DInv, NEW q \in clean.nodes
  PROVE  /\ q \in Queries /\ Sound(Call(q)) /\ Sound(Ensure(q))
         /\ q \in prev.nodes /\ q \notin EvalAlways => Sound(Mark(q))
<1>1. q \in Queries
  BY SessionNodes DEF DInv
<1>2. Sound(Call(q)) /\ Sound(Ensure(q))
  BY <1>1, NewFrames DEF Sound
<1>3. ASSUME q \in prev.nodes, q \notin EvalAlways PROVE Sound(Mark(q))
  <2>1. PrevReads(q) \in Seq(1 .. q - 1)
    BY <1>1, SessionNodes DEF DInv
  <2>2. Len(PrevReads(q)) \in Nat
    BY <2>1, LenProperties
  <2>3. SoundMark(Mark(q))
    BY <1>1, <1>3, <2>2, NewFrames DEF SoundMark
  <2> QED
    BY <1>1, <2>3, NewFrames DEF Sound
<1> QED
  BY <1>1, <1>2, <1>3

\* A frame that goes on to another place.
LEMMA AtPc ==
  ASSUME NEW f \in Frames, NEW p
  PROVE  LET g == [f EXCEPT !.pc = p] IN
         /\ f.op = "job" /\ p \in {"start", "marked", "run", "rerun", "complete"} =>
              /\ g \in Frames /\ g \in JobFrame /\ g.op = "job" /\ g.query = f.query /\ g.pc = p
              /\ g.vals = f.vals /\ g.reads = f.reads /\ g.value = f.value /\ g.index = f.index
         /\ f.op = "mark" /\ p \in {"look", "marked", "forced"} =>
              /\ g \in Frames /\ g \in MarkFrame /\ g.op = "mark" /\ g.query = f.query /\ g.pc = p
              /\ g.edges = f.edges
         /\ f.op = "ensure" /\ p \in {"start", "marked"} =>
              g \in Frames /\ g.op = "ensure" /\ g.query = f.query /\ g.pc = p
<1> DEFINE g == [f EXCEPT !.pc = p]
<1>1. ASSUME f.op = "job", p \in {"start", "marked", "run", "rerun", "complete"}
      PROVE  /\ g \in JobFrame /\ g.op = "job" /\ g.query = f.query /\ g.pc = p
             /\ g.vals = f.vals /\ g.reads = f.reads /\ g.value = f.value /\ g.index = f.index
  <2>1. f \in JobFrame
    BY <1>1, FrameTypes
  <2> QED
    BY <1>1, <2>1 DEF JobFrame
<1>2. ASSUME f.op = "mark", p \in {"look", "marked", "forced"}
      PROVE  /\ g \in MarkFrame /\ g.op = "mark" /\ g.query = f.query /\ g.pc = p
             /\ g.edges = f.edges
  <2>1. f \in MarkFrame
    BY <1>2, FrameTypes
  <2> QED
    BY <1>2, <2>1 DEF MarkFrame
<1>3. ASSUME f.op = "ensure", p \in {"start", "marked"}
      PROVE  g \in EnsureFrame /\ g.op = "ensure" /\ g.query = f.query /\ g.pc = p
  <2>1. f \in EnsureFrame
    BY <1>3, FrameTypes
  <2> QED
    BY <1>3, <2>1 DEF EnsureFrame
<1> HIDE DEF g
<1>4. /\ g \in JobFrame => g \in Frames
      /\ g \in MarkFrame => g \in Frames
      /\ g \in EnsureFrame => g \in Frames
  BY DEF Frames
<1> QED
  BY <1>1, <1>2, <1>3, <1>4 DEF g

\* execute_query_incr_inner: a worker without a question asks for a root.
LEMMA AskKeeps ==
  ASSUME DInv, NEW w \in Workers, execute_query_incr_inner(w), UNCHANGED <<setup, prev, clean>>
  PROVE  DInv'
<1>1. Remembers /\ UNCHANGED ret
  BY DEF execute_query_incr_inner, memory, Remembers, DInv
<1>2. PICK q \in Roots : \/ stack' = [stack EXCEPT ![w] = <<Call(q)>>]
                         \/ stack' = [stack EXCEPT ![w] = <<Ensure(q)>>]
  BY DEF execute_query_incr_inner
<1>3. q \in Queries /\ q \in clean.nodes
  BY SessionNodes DEF DInv
<1>4. PICK f \in Frames : /\ stack' = [stack EXCEPT ![w] = <<f>>] /\ Sound(f) /\ f.op # "job"
                          /\ \A r : Answered(f, r)
  <2>1. \A r : Answered(Call(q), r) /\ Answered(Ensure(q), r)
    BY <1>3, NewFrames DEF Answered
  <2> QED
    BY <1>2, <1>3, <2>1, NewFrames, NewSound
<1>5. /\ Grow /\ NodesExact' /\ (\A p \in Queries : MemoryInv(p)')
      /\ \A p : Ran(p)' <=> Ran(p)
  BY <1>1, SameGrows
<1>6. Session /\ Session' /\ ~panicked'
  BY <1>1 DEF DInv, Remembers, Session
<1>7. PICK t \in Seq(Frames) : t = <<f>> /\ Len(t) = 1 /\ t[1] = f
  <2>1. <<f>> \in Seq(Frames) /\ Len(<<f>>) = 1 /\ <<f>>[1] = f
    OBVIOUS
  <2> QED
    BY <2>1
<1>8. ASSUME NEW v \in Workers PROVE StackOK(stack[v], ret[v])'
  <2>1. PICK r : r = ret[v]
    OBVIOUS
  <2>2. CASE v = w
    <3>1. Sound(f)' /\ Answered(f, r)'
      BY <1>4, <1>5, <1>6, SoundKept, AnsweredKept
    <3>2. StackOK(t, r)'
      <4>1. \A i \in 1 .. Len(t) : Sound(t[i])'
        BY <1>7, <3>1
      <4>2. Answered(t[Len(t)], r)'
        BY <1>7, <3>1
      <4>3. Ordered(t)' /\ \A i \in 1 .. Len(t) - 1 : Calls(t[i], t[i + 1])'
        BY <1>7 DEF Ordered
      <4> QED
        BY <4>1, <4>2, <4>3 DEF StackOK
    <3>3. stack'[v] = t /\ ret'[v] = r
      BY <1>1, <1>4, <1>7, <2>1, <2>2 DEF DInv, DTyped
    <3> QED
      BY <3>2, <3>3
  <2>3. CASE v # w
    <3>1. PICK s \in Seq(Frames) : s = stack[v]
      BY DEF DInv, DTyped
    <3>2. StackOK(s, r)
      BY <2>1, <3>1 DEF DInv
    <3>3. OthersQuiet(w)
      BY <1>5, QuietSame
    <3>4. Quiet(s, Len(s))'
      BY <2>3, <3>1, <3>3 DEF OthersQuiet, Quiet
    <3>5. StackOK(s, r)'
      BY <1>5, <1>6, <3>2, <3>4, StackKept
    <3>6. stack'[v] = s /\ ret'[v] = r
      BY <1>1, <1>4, <2>1, <2>3, <3>1 DEF DInv, DTyped
    <3> QED
      BY <3>5, <3>6
  <2> QED
    BY <2>2, <2>3
<1>9. DTyped'
  <2>1. asked' \in [Workers -> Nat]
    BY DEF execute_query_incr_inner, DInv, DTyped
  <2> QED
    BY <1>1, <1>4, <1>7, <2>1 DEF DInv, DTyped, Remembers
<1>10. JobsActive'
  <2> SUFFICES ASSUME NEW p \in Queries, NEW v \in Workers
               PROVE  active'[p] = v <=> HasJob(stack'[v], p)
    BY DEF JobsActive, HasJob
  <2>1. active[p] = v <=> HasJob(stack[v], p)
    BY DEF DInv, JobsActive
  <2>2. HasJob(stack'[v], p) <=> HasJob(stack[v], p)
    <3>1. CASE v = w
      <4>1. stack[v] = <<>> /\ stack'[v] = t
        BY <1>4, <1>7, <3>1 DEF execute_query_incr_inner, DInv, DTyped
      <4>2. ~HasJob(<<>>, p) /\ ~HasJob(t, p)
        BY <1>4, <1>7 DEF HasJob
      <4> QED
        BY <4>1, <4>2
    <3>2. CASE v # w
      BY <1>4, <3>2 DEF DInv, DTyped
    <3> QED
      BY <3>1, <3>2
  <2> QED
    BY <1>1, <2>1, <2>2 DEF Remembers
<1> QED
  BY <1>5, <1>6, <1>8, <1>9, <1>10 DEF DInv

\* try_mark_green calls for the node to be marked.
LEMMA MarkPushed ==
  ASSUME DInv, MemorySame, UNCHANGED ret, NEW w \in Workers, stack[w] # <<>>,
         NEW f, f = Frame(w), f.op \in {"job", "ensure"}, f.op = "job" => f.pc = "start",
         f.query \in prev.nodes, f.query \notin EvalAlways,
         Push(w, [f EXCEPT !.pc = "marked"], Mark(f.query))
  PROVE  DInv'
<1>1. f \in Frames /\ Sound(f)
  BY TopFrame
<1>2. f.query \in Queries /\ f.query \in Nat /\ f.query \in clean.nodes
  BY <1>1, FrameTypes DEF Sound
<1> DEFINE g == [f EXCEPT !.pc = "marked"]
           h == Mark(f.query)
<1>3. /\ g \in Frames /\ g.op = f.op /\ g.query = f.query /\ g.pc = "marked"
      /\ f.op = "job" => g.vals = f.vals /\ g.reads = f.reads
  BY <1>1, AtPc
<1>4. h \in Frames /\ h.op = "mark" /\ h.query = f.query /\ h.pc = "look" /\ Sound(h)
  BY <1>2, NewFrames, NewSound
<1>5. Push(w, g, h)
  OBVIOUS
<1> HIDE DEF g, h
<1>6. Sound(g)
  <2>1. ASSUME f.op = "job" PROVE SoundJob(g)
    BY <1>1, <1>3, <2>1 DEF Sound, SoundJob
  <2> QED
    BY <1>2, <1>3, <2>1 DEF Sound
<1>7. Calls(g, h) /\ Evolves(f, g)
  BY <1>3, <1>4 DEF Calls, Evolves
<1>8. h.query <= g.query
  BY <1>2, <1>3, <1>4
<1> QED
  BY <1>3, <1>4, <1>5, <1>6, <1>7, <1>8, Pushes

\* ensure_can_skip_execution: marking first, and the query only when that fails.
LEMMA EnsureKeeps ==
  ASSUME DInv, NEW w \in Workers, ensure_can_skip_execution(w), UNCHANGED <<setup, prev, clean>>
  PROVE  DInv'
<1>1. PICK f : f = Frame(w)
  OBVIOUS
<1>2. stack[w] # <<>> /\ f.op = "ensure" /\ ~panicked
  BY <1>1 DEF ensure_can_skip_execution, Top
<1>3. f \in Frames /\ Sound(f) /\ ret[w] \in Nat
  BY <1>1, <1>2, TopFrame
<1>4. f.query \in Queries /\ f.query \in clean.nodes
  BY <1>3, FrameTypes DEF Sound
<1>5. UNCHANGED <<color, encoded, cache, active, ret, asked>>
  BY DEF ensure_can_skip_execution
<1>6. ASSUME Return(w), UNCHANGED panicked PROVE DInv'
  <2>1. MemorySame
    BY <1>2, <1>5, <1>6 DEF MemorySame, Remembers
  <2>2. ret' = [ret EXCEPT ![w] = ret[w]]
    BY <1>5 DEF DInv, DTyped
  <2>3. \A e \in Frames : ~Calls(e, Frame(w))
    BY <1>1, <1>2 DEF Calls
  <2> QED
    BY <1>1, <1>2, <1>3, <1>6, <2>1, <2>2, <2>3, Returns
<1>7. ASSUME Become(w, Call(f.query)), UNCHANGED panicked PROVE DInv'
  <2>1. MemorySame
    BY <1>2, <1>5, <1>7 DEF MemorySame, Remembers
  <2>2. PICK g \in Frames : g = Call(f.query)
    BY <1>4, NewFrames
  <2>3. g.op = "call" /\ g.query = f.query /\ Sound(g)
    BY <1>4, <2>2, NewFrames, NewSound
  <2>4. Evolves(f, g) /\ Answered(g, ret[w]) /\ Become(w, g)
    BY <1>2, <1>7, <2>2, <2>3 DEF Evolves, Answered
  <2> QED
    BY <1>1, <1>2, <1>5, <2>1, <2>3, <2>4, Becomes
<1>8. ASSUME f.query \in prev.nodes, f.query \notin EvalAlways, UNCHANGED panicked,
             Push(w, [f EXCEPT !.pc = "marked"], Mark(f.query))
      PROVE  DInv'
  <2>1. MemorySame
    BY <1>2, <1>5, <1>8 DEF MemorySame, Remembers
  <2> QED
    BY <1>1, <1>2, <1>5, <1>8, <2>1, MarkPushed
<1> QED
  BY <1>1, <1>6, <1>7, <1>8 DEF ensure_can_skip_execution, try_mark_green

\* A provider that starts has read nothing.
LEMMA ReadsEmpty ==
  ASSUME NEW q
  PROVE  <<>> \in Seq(Queries) /\ ReadSoFar(clean.run, q, <<>>, <<>>) /\ Names(<<>>, <<>>)
BY DEF ReadSoFar, Names

\* with_task.
LEMMA TaskKeeps ==
  ASSUME DInv, NEW w \in Workers, stack[w] # <<>>, NEW f, f = Frame(w), f.op = "job",
         f.pc \in {"start", "marked"}, with_task(w, f),
         UNCHANGED <<setup, prev, clean, color, encoded, cache, active, ret, asked>>
  PROVE  DInv'
<1>1. f \in Frames /\ Sound(f) /\ SoundJob(f)
  BY TopFrame DEF Sound
<1>2. ~Ran(f.query) /\ f.vals = <<>> /\ f.reads = <<>> /\ f.query \in clean.nodes
  BY <1>1 DEF Sound, SoundJob
<1>3. color[f.query] # Red
  BY <1>2 DEF Ran
<1>4. MemorySame
  BY <1>3 DEF with_task, Assertion, MemorySame, Remembers, DInv
<1> DEFINE g == [f EXCEPT !.pc = "run"]
<1>5. /\ g \in Frames /\ g.op = "job" /\ g.query = f.query /\ g.pc = "run"
      /\ g.vals = <<>> /\ g.reads = <<>>
  BY <1>1, <1>2, AtPc
<1>6. Become(w, g)
  BY DEF with_task
<1> HIDE DEF g
<1>7. SoundJob(g)
  BY <1>2, <1>5, ReadsEmpty DEF SoundJob
<1>8. Sound(g) /\ Evolves(f, g) /\ Answered(g, ret[w])
  BY <1>2, <1>5, <1>7 DEF Sound, Evolves, Answered
<1> QED
  BY <1>4, <1>5, <1>6, <1>8, Becomes

\* load_from_disk_or_invoke_provider_green, of a green node.
LEMMA LoadKeeps ==
  ASSUME DInv, NEW w \in Workers, stack[w] # <<>>, NEW f, f = Frame(w), f.op = "job",
         f.pc \in {"start", "marked"}, NEW i, Green(f.query), i = color[f.query],
         load_from_disk(w, f, i),
         UNCHANGED <<setup, prev, clean, color, encoded, cache, active, ret, asked>>
  PROVE  DInv'
<1>1. f \in Frames /\ f \in JobFrame /\ Sound(f) /\ SoundJob(f)
  BY TopFrame, FrameTypes DEF Sound
<1>2. /\ ~Ran(f.query) /\ f.vals = <<>> /\ f.reads = <<>> /\ f.query \in clean.nodes
      /\ f.query \in Queries
  BY <1>1, FrameTypes DEF Sound, SoundJob
<1>3. MemorySame
  BY DEF load_from_disk, MemorySame, Remembers, DInv
<1>4. MemoryInv(f.query)
  BY <1>2 DEF DInv
<1>5. Written(color[f.query], f.query) /\ Unchanged(f.query)
  BY <1>4 DEF MemoryInv
<1>6. i \in Nat /\ color[f.query] # Unknown
  BY <1>2 DEF DInv, DTyped, Green
<1>7. prev.run[f.query].value = Value(f.query) /\ prev.run[f.query].value \in Values
  BY <1>2, <1>5, SessionRuns DEF DInv, Unchanged, Value
<1>8. CASE f.query \in setup.on_disk
  <2> DEFINE g == [f EXCEPT !.pc = "complete", !.value = prev.run[f.query].value, !.index = i]
  <2>1. Become(w, g)
    BY <1>8 DEF load_from_disk
  <2>2. /\ g \in JobFrame /\ g.op = "job" /\ g.query = f.query /\ g.pc = "complete"
        /\ g.value = prev.run[f.query].value /\ g.index = i
    <3>1. PICK v \in Values : v = prev.run[f.query].value
      BY <1>7
    <3>2. g = [f EXCEPT !.pc = "complete", !.value = v, !.index = i]
      BY <3>1
    <3> HIDE DEF g
    <3> QED
      BY <1>1, <1>6, <3>1, <3>2 DEF JobFrame
  <2> HIDE DEF g
  <2>3. g \in Frames
    BY <2>2 DEF Frames
  <2>4. SoundJob(g)
    BY <1>5, <1>6, <1>7, <2>2 DEF SoundJob
  <2>5. Sound(g) /\ Evolves(f, g) /\ Answered(g, ret[w])
    BY <1>2, <2>2, <2>4 DEF Sound, Evolves, Answered
  <2> QED
    BY <1>3, <2>1, <2>2, <2>3, <2>5, Becomes
<1>9. CASE f.query \notin setup.on_disk
  <2> DEFINE g == [f EXCEPT !.pc = "rerun", !.index = i]
  <2>1. Become(w, g)
    BY <1>9 DEF load_from_disk
  <2>2. /\ g \in JobFrame /\ g.op = "job" /\ g.query = f.query /\ g.pc = "rerun"
        /\ g.vals = f.vals /\ g.reads = f.reads /\ g.index = i
    BY <1>1, <1>6 DEF JobFrame
  <2> HIDE DEF g
  <2>3. g \in Frames
    BY <2>2 DEF Frames
  <2>4. SoundJob(g)
    BY <1>2, <2>2, ReadsEmpty DEF SoundJob
  <2>5. Sound(g) /\ Evolves(f, g) /\ Answered(g, ret[w])
    BY <1>2, <2>2, <2>4 DEF Sound, Evolves, Answered
  <2> QED
    BY <1>3, <2>1, <2>2, <2>3, <2>5, Becomes
<1> QED
  BY <1>8, <1>9

\* execute_job_incr: the result is loaded, or the provider runs.
LEMMA ExecuteKeeps ==
  ASSUME DInv, NEW w \in Workers, execute_job_incr(w), UNCHANGED <<setup, prev, clean>>
  PROVE  DInv'
<1>1. PICK f : f = Frame(w)
  OBVIOUS
<1>2. stack[w] # <<>> /\ f.op = "job" /\ ~panicked
  BY <1>1 DEF execute_job_incr, Top
<1>3. UNCHANGED <<color, encoded, cache, active, ret, asked>>
  BY DEF execute_job_incr
<1>4. ASSUME f.pc \in {"start", "marked"}, with_task(w, f) PROVE DInv'
  BY <1>1, <1>2, <1>3, <1>4, TaskKeeps
<1>5. ASSUME f.pc \in {"start", "marked"}, NEW i, Green(f.query), i = color[f.query],
             load_from_disk(w, f, i)
      PROVE  DInv'
  BY <1>1, <1>2, <1>3, <1>5, LoadKeeps
<1>6. ASSUME f.pc = "start", f.query \in prev.nodes, f.query \notin EvalAlways, UNCHANGED panicked,
             Push(w, [f EXCEPT !.pc = "marked"], Mark(f.query))
      PROVE  DInv'
  <2>1. MemorySame
    BY <1>2, <1>3, <1>6 DEF MemorySame, Remembers
  <2> QED
    BY <1>1, <1>2, <1>3, <1>6, <2>1, MarkPushed
<1>7. ASSUME f.pc = "marked", ret[w] # Failed, load_from_disk(w, f, ret[w]) PROVE DInv'
  <2>1. Green(f.query) /\ ret[w] = color[f.query]
    BY <1>1, <1>2, <1>7, TopFrame DEF Answered, Target
  <2> QED
    BY <1>5, <1>7, <2>1
<1>8. ASSUME f.pc = "start", Green(f.query), load_from_disk(w, f, color[f.query]) PROVE DInv'
  BY <1>5, <1>8
<1>9. \/ f.pc = "start" /\ f.query \in EvalAlways /\ with_task(w, f)
      \/ f.pc = "start" /\ f.query \notin EvalAlways
          /\ try_mark_green(w, f, load_from_disk(w, f, color[f.query]), with_task(w, f))
      \/ f.pc = "marked" /\ ret[w] # Failed /\ load_from_disk(w, f, ret[w])
      \/ f.pc = "marked" /\ ret[w] = Failed /\ with_task(w, f)
  BY <1>1 DEF execute_job_incr
<1>10. CASE /\ f.pc = "start" /\ f.query \notin EvalAlways
            /\ try_mark_green(w, f, load_from_disk(w, f, color[f.query]), with_task(w, f))
  BY <1>4, <1>6, <1>8, <1>10 DEF try_mark_green
<1> QED
  BY <1>4, <1>7, <1>9, <1>10

\* An index in a task's reads stands for the query it was read for.
LEMMA ReadIndex ==
  ASSUME NodesExact, NEW f, NEW i, NEW d, NEW deps \in Seq(Queries), f.reads \in Seq(Nat),
         f.pc = "run", i \in Nat, d \in Queries, Names(f.reads, deps), Written(i, d)
  PROVE  /\ Noted(deps, d) \in Seq(Queries)
         /\ Names(read_index(f, i), Noted(deps, d))
<1>1. PICK r \in Seq(Nat) : r = f.reads
  OBVIOUS
<1>2. PICK n \in Nat : n = Len(r) /\ n = Len(deps)
  BY <1>1, LenProperties DEF Names
<1>3. \A k \in 1 .. n : Written(r[k], deps[k])
  BY <1>1, <1>2 DEF Names
<1>4. ToSet(r) = {r[k] : k \in 1 .. n} /\ ToSet(deps) = {deps[k] : k \in 1 .. n}
  BY <1>2, LenProperties DEF ToSet
<1>5. i \in ToSet(r) <=> d \in ToSet(deps)
  <2>1. ASSUME NEW k \in 1 .. n, r[k] = i PROVE deps[k] = d
    BY <1>3, <2>1 DEF Written
  <2>2. ASSUME NEW k \in 1 .. n, deps[k] = d PROVE r[k] = i
    <3>1. Written(r[k], d)
      BY <1>3, <2>2
    <3> QED
      BY <3>1 DEF Written, NodesExact
  <2> QED
    BY <1>4, <2>1, <2>2
<1>6. CASE i \in ToSet(r)
  BY <1>1, <1>5, <1>6 DEF read_index, Noted
<1>7. CASE i \notin ToSet(r)
  <2>1. read_index(f, i) = Append(r, i) /\ Noted(deps, d) = Append(deps, d)
    BY <1>1, <1>5, <1>7 DEF read_index, Noted
  <2> DEFINE a == Append(r, i)
             b == Append(deps, d)
  <2>2. a \in Seq(Nat) /\ Len(a) = n + 1 /\ a[n + 1] = i /\ \A k \in 1 .. n : a[k] = r[k]
    <3>1. /\ a \in Seq(Nat) /\ Len(a) = Len(r) + 1 /\ a[Len(r) + 1] = i
          /\ \A k \in 1 .. Len(r) : a[k] = r[k]
      BY AppendProperties
    <3> HIDE DEF a
    <3> QED
      BY <1>2, <3>1
  <2>3. b \in Seq(Queries) /\ Len(b) = n + 1 /\ b[n + 1] = d /\ \A k \in 1 .. n : b[k] = deps[k]
    BY <1>2, AppendProperties
  <2> HIDE DEF a, b
  <2>4. \A k \in 1 .. n + 1 : Written(a[k], b[k])
    <3> SUFFICES ASSUME NEW k \in 1 .. n + 1 PROVE Written(a[k], b[k])
      OBVIOUS
    <3>1. CASE k = n + 1
      BY <2>2, <2>3, <3>1
    <3>2. CASE k # n + 1
      <4>1. k \in 1 .. n
        BY <3>2
      <4>2. a[k] = r[k] /\ b[k] = deps[k]
        BY <2>2, <2>3, <4>1
      <4> QED
        BY <1>3, <4>1, <4>2
    <3> QED
      BY <3>1, <3>2
  <2>5. Names(a, b)
    BY <2>2, <2>3, <2>4 DEF Names
  <2> QED
    BY <2>1, <2>3, <2>5 DEF a, b
<1> QED
  BY <1>6, <1>7

\* The provider reads a query, or returns.
LEMMA InvokeKeeps ==
  ASSUME DInv, NEW w \in Workers, invoke_provider_fn(w), UNCHANGED <<setup, prev, clean>>
  PROVE  DInv'
<1>1. PICK f : f = Frame(w)
  OBVIOUS
<1>2. PICK d : d = Wants(f.query, f.vals)
  OBVIOUS
<1>3. stack[w] # <<>> /\ f.op = "job" /\ f.pc \in {"run", "rerun"} /\ d # 0
  BY <1>1, <1>2 DEF invoke_provider_fn, Top
<1>4. f \in Frames /\ f \in JobFrame /\ Sound(f) /\ SoundJob(f) /\ f.query \in clean.nodes
  BY <1>1, <1>3, TopFrame, FrameTypes DEF Sound
<1>5. MemorySame /\ UNCHANGED ret
  BY DEF invoke_provider_fn, memory, MemorySame, Remembers, DInv
<1>6. PICK deps \in Seq(Queries) : /\ ReadSoFar(clean.run, f.query, f.vals, deps)
                                   /\ f.pc = "run" => Names(f.reads, deps)
  BY <1>3, <1>4 DEF SoundJob
<1>7. /\ d \in 1 .. f.query - 1 /\ d \in clean.nodes /\ Value(d) \in Values
      /\ ReadSoFar(clean.run, f.query, Append(f.vals, Value(d)), Noted(deps, d))
  <2>1. PICK q \in clean.nodes : q = f.query
    BY <1>4
  <2>2. PICK vals : vals = f.vals
    OBVIOUS
  <2>3. ReadSoFar(clean.run, q, vals, deps) /\ d = Wants(q, vals) /\ Session
    BY <1>2, <1>6, <2>1, <2>2 DEF DInv
  <2>4. /\ d \in 1 .. q - 1 /\ d \in clean.nodes /\ Value(d) \in Values
        /\ ReadSoFar(clean.run, q, Append(vals, Value(d)), Noted(deps, d))
    BY <1>3, <2>3, SessionProvider
  <2> QED
    BY <2>1, <2>2, <2>4
<1>8. d \in Queries /\ d < f.query /\ f.query \in Nat
  BY <1>4, <1>7, FrameTypes, SessionNodes DEF DInv
<1>9. CASE cache[d] # Vacant
  <2>1. MemoryInv(d)
    BY <1>8 DEF DInv
  <2>2. cache[d].value = Value(d) /\ Written(cache[d].index, d)
    BY <1>9, <2>1 DEF MemoryInv
  <2>3. PICK i \in Nat : i = cache[d].index
    BY <1>8 DEF DInv, DTyped
  <2>4. PICK vals : vals = Append(f.vals, Value(d))
    OBVIOUS
  <2>5. PICK reads : reads = read_index(f, i)
    OBVIOUS
  <2>6. f.vals \in Seq(Values) /\ f.reads \in Seq(Nat)
    BY <1>4 DEF JobFrame
  <2>7. vals \in Seq(Values) /\ reads \in Seq(Nat)
    BY <1>7, <2>4, <2>5, <2>6 DEF read_index
  <2> DEFINE g == [f EXCEPT !.vals = vals, !.reads = reads]
  <2>8. Become(w, g)
    <3>1. Become(w, [f EXCEPT !.vals = Append(@, cache[d].value), !.reads = read_index(f, cache[d].index)])
      BY <1>1, <1>2, <1>9 DEF invoke_provider_fn
    <3>2. g = [f EXCEPT !.vals = Append(@, cache[d].value), !.reads = read_index(f, cache[d].index)]
      BY <2>2, <2>3, <2>4, <2>5
    <3> HIDE DEF g
    <3> QED
      BY <3>1, <3>2
  <2>9. /\ g \in JobFrame /\ g.op = "job" /\ g.query = f.query /\ g.pc = f.pc
        /\ g.vals = vals /\ g.reads = reads /\ g.index = f.index
    BY <1>4, <2>7 DEF JobFrame
  <2> HIDE DEF g
  <2>10. Noted(deps, d) \in Seq(Queries) /\ (f.pc = "run" => Names(reads, Noted(deps, d)))
    <3>1. CASE f.pc = "run"
      <4>1. NodesExact /\ Written(i, d)
        BY <2>2, <2>3 DEF DInv
      <4> QED
        BY <1>6, <1>8, <2>5, <2>6, <3>1, <4>1, ReadIndex
    <3>2. CASE f.pc # "run"
      BY <1>8, <3>2 DEF Noted
    <3> QED
      BY <3>1, <3>2
  <2>11. SoundJob(g)
    <3>1. \E c \in Seq(Queries) : /\ ReadSoFar(clean.run, g.query, g.vals, c)
                                  /\ g.pc = "run" => Names(g.reads, c)
      BY <1>7, <2>4, <2>9, <2>10
    <3>2. ~Ran(g.query) /\ (g.pc = "rerun" => Green(g.query) /\ g.index = color[g.query])
      BY <1>3, <1>4, <2>9 DEF SoundJob
    <3> QED
      BY <1>3, <2>9, <3>1, <3>2 DEF SoundJob
  <2>12. Sound(g) /\ Evolves(f, g) /\ Answered(g, ret[w])
    BY <1>3, <1>4, <2>9, <2>11 DEF Sound, Evolves, Answered
  <2>13. g \in Frames
    BY <2>9 DEF Frames
  <2> QED
    BY <1>1, <1>3, <1>5, <2>8, <2>9, <2>12, <2>13, Becomes
<1>10. CASE cache[d] = Vacant
  <2>1. Push(w, f, Call(d))
    BY <1>1, <1>2, <1>10 DEF invoke_provider_fn
  <2>2. PICK g \in Frames : g = Call(d)
    BY <1>8, NewFrames
  <2>3. g.op = "call" /\ g.query = d /\ Sound(g)
    BY <1>7, <1>8, <2>2, NewFrames, NewSound
  <2>4. Calls(f, g) /\ Evolves(f, f)
    BY <1>2, <1>3, <2>3 DEF Calls, Evolves
  <2> QED
    BY <1>1, <1>3, <1>4, <1>5, <1>8, <2>1, <2>2, <2>3, <2>4, Pushes
<1> QED
  BY <1>9, <1>10

\* incremental_verify_ich: a provider that is run again for a green node computes the old result.
LEMMA VerifyKeeps ==
  ASSUME DInv, NEW w \in Workers, incremental_verify_ich(w), UNCHANGED <<setup, prev, clean>>
  PROVE  DInv'
<1>1. PICK f : f = Frame(w)
  OBVIOUS
<1>2. /\ stack[w] # <<>> /\ f.op = "job" /\ f.pc = "rerun" /\ Wants(f.query, f.vals) = 0
  BY <1>1 DEF incremental_verify_ich, Top
<1>3. f \in Frames /\ f \in JobFrame /\ Sound(f) /\ SoundJob(f) /\ f.query \in clean.nodes
  BY <1>1, <1>2, TopFrame, FrameTypes DEF Sound
<1>4. PICK q \in clean.nodes : q = f.query
  BY <1>3
<1>5. q \in Queries /\ MemoryInv(q) /\ Session
  BY SessionNodes DEF DInv
<1>6. PICK value : value = Result(setup.now, f.query, f.vals)
  OBVIOUS
<1>7. value = Value(q)
  <2>1. PICK deps : ReadSoFar(clean.run, f.query, f.vals, deps)
    BY <1>2, <1>3 DEF SoundJob
  <2>2. PICK vals : vals = f.vals
    OBVIOUS
  <2>3. ReadSoFar(clean.run, q, vals, deps) /\ Wants(q, vals) = 0
    BY <1>2, <1>4, <2>1, <2>2
  <2>4. Result(setup.now, q, vals) = Value(q)
    BY <1>5, <2>3, SessionProvider
  <2> QED
    BY <1>4, <1>6, <2>2, <2>4
<1>8. Green(q) /\ f.index = color[q]
  BY <1>2, <1>3, <1>4 DEF SoundJob
<1>9. Written(f.index, q) /\ Unchanged(q) /\ color[q] # Unknown
  BY <1>5, <1>8 DEF MemoryInv, Green
<1>10. value = prev.run[f.query].value /\ value \in Values
  BY <1>4, <1>5, <1>7, <1>9, SessionRuns DEF Unchanged, Value
<1>11. MemorySame /\ UNCHANGED ret
  <2>1. panicked' = (panicked \/ ~(fingerprint(f.query, value) = fingerprint(f.query, prev.run[f.query].value)))
    BY <1>1, <1>6 DEF incremental_verify_ich, Assertion
  <2>2. ~panicked'
    BY <1>10, <2>1 DEF DInv
  <2> QED
    BY <2>2 DEF incremental_verify_ich, MemorySame, Remembers
<1> DEFINE g == [f EXCEPT !.pc = "complete", !.value = value]
<1>12. Become(w, g)
  BY <1>1, <1>6 DEF incremental_verify_ich
<1>13. /\ g \in JobFrame /\ g.op = "job" /\ g.query = f.query /\ g.pc = "complete"
       /\ g.value = value /\ g.index = f.index
  BY <1>3, <1>10 DEF JobFrame
<1> HIDE DEF g
<1>14. SoundJob(g)
  BY <1>4, <1>7, <1>9, <1>13 DEF SoundJob
<1>15. Sound(g) /\ Evolves(f, g) /\ Answered(g, ret[w]) /\ g \in Frames
  BY <1>2, <1>3, <1>13, <1>14 DEF Sound, Evolves, Answered, Frames
<1> QED
  BY <1>1, <1>2, <1>11, <1>12, <1>13, <1>15, Becomes

\* The dependency that marking has come to is one of a clean build.
LEMMA MarkFacts ==
  ASSUME DInv, NEW w \in Workers, stack[w] # <<>>, NEW f, f = Frame(w), f.op = "mark"
  PROVE  /\ f \in Frames /\ f \in MarkFrame /\ Sound(f) /\ SoundMark(f) /\ Answered(f, ret[w])
         /\ f.query \in Queries \ EvalAlways /\ f.query \in clean.nodes /\ f.query \in prev.nodes
         /\ \A k \in 1 .. Len(f.edges) : Unchanged(PrevReads(f.query)[k])
         /\ Visiting(f) => /\ Edge(f) \in Queries /\ Edge(f) \in clean.nodes /\ Edge(f) \in prev.nodes
                           /\ Edge(f) < f.query
<1>1. /\ f \in Frames /\ f \in MarkFrame /\ Sound(f) /\ SoundMark(f) /\ Answered(f, ret[w])
      /\ f.query \in Queries \ EvalAlways /\ f.query \in clean.nodes /\ f.query \in prev.nodes
  BY TopFrame, FrameTypes DEF Sound, SoundMark
<1>2. Session /\ \A q \in Queries : MemoryInv(q)
  BY DEF DInv
<1>3. /\ f.edges \in Seq(Nat) /\ Len(f.edges) \in 0 .. Len(PrevReads(f.query))
      /\ Len(PrevReads(f.query)) \in Nat
      /\ \A k \in 1 .. Len(PrevReads(f.query)) : PrevReads(f.query)[k] \in Queries
      /\ Visiting(f) <=> Len(f.edges) < Len(PrevReads(f.query))
      /\ Edge(f) = PrevReads(f.query)[Len(f.edges) + 1]
      /\ Visiting(f) => /\ Edge(f) \in Queries /\ Edge(f) \in prev.nodes /\ Edge(f) < f.query
  BY <1>1, <1>2, EdgeTypes
<1>4. ASSUME NEW k \in 1 .. Len(f.edges) PROVE Unchanged(PrevReads(f.query)[k])
  <2>1. PICK d \in Queries : d = PrevReads(f.query)[k]
    BY <1>3
  <2>2. Green(d)
    BY <1>1, <2>1 DEF SoundMark
  <2>3. Unchanged(d)
    BY <1>2, <2>2 DEF MemoryInv
  <2> QED
    BY <2>1, <2>3
<1>5. ASSUME Visiting(f) PROVE Edge(f) \in clean.nodes
  <2>1. PICK q \in Queries \ EvalAlways : q = f.query
    BY <1>1
  <2>2. PICK k \in 0 .. Len(PrevReads(q)) : k = Len(f.edges)
    BY <1>3, <2>1
  <2>3. \A i \in 1 .. k : Unchanged(PrevReads(q)[i])
    BY <1>4, <2>1, <2>2
  <2>4. k < Len(PrevReads(q)) /\ q \in clean.nodes
    BY <1>1, <1>3, <1>5, <2>1, <2>2
  <2>5. PrevReads(q)[k + 1] \in clean.nodes
    BY <1>2, <2>3, <2>4, SessionPrefix
  <2> QED
    BY <1>3, <2>1, <2>2, <2>5
<1> QED
  BY <1>1, <1>3, <1>4, <1>5

\* The dependency is green: marking goes on to the next one.
LEMMA FoundKeeps ==
  ASSUME DInv, NEW w \in Workers, stack[w] # <<>>, NEW f, f = Frame(w), f.op = "mark", Visiting(f),
         NEW i, Green(Edge(f)), i = color[Edge(f)], Found(w, f, i), MemorySame
  PROVE  DInv'
<1>1. /\ f \in Frames /\ f \in MarkFrame /\ Sound(f) /\ SoundMark(f)
      /\ f.query \in clean.nodes /\ Edge(f) \in Queries
  BY MarkFacts
<1>2. Session
  BY DEF DInv
<1>3. i \in Nat
  BY <1>1 DEF DInv, DTyped, Green
<1>4. /\ f.edges \in Seq(Nat) /\ Len(f.edges) \in 0 .. Len(PrevReads(f.query))
      /\ Len(PrevReads(f.query)) \in Nat
      /\ Len(f.edges) < Len(PrevReads(f.query))
      /\ Edge(f) = PrevReads(f.query)[Len(f.edges) + 1]
  BY <1>1, <1>2, EdgeTypes
<1>5. PICK n \in Nat : n = Len(f.edges)
  BY <1>4
<1>6. PICK a \in Seq(Nat) : a = Append(f.edges, i)
  <2>1. Append(f.edges, i) \in Seq(Nat)
    BY <1>3, <1>4
  <2> QED
    BY <2>1
<1>7. Len(a) = n + 1 /\ a[n + 1] = i /\ \A k \in 1 .. n : a[k] = f.edges[k]
  BY <1>3, <1>4, <1>5, <1>6, AppendProperties
<1> DEFINE g == [f EXCEPT !.pc = "look", !.edges = a]
<1>8. Become(w, g) /\ UNCHANGED ret
  BY <1>6 DEF Found
<1>9. /\ g \in MarkFrame /\ g.op = "mark" /\ g.query = f.query /\ g.pc = "look" /\ g.edges = a
  BY <1>1 DEF MarkFrame
<1> HIDE DEF g
<1>10. SoundMark(g)
  <2>1. PICK r : r = PrevReads(f.query)
    OBVIOUS
  <2>2. \A k \in 1 .. n : Green(r[k]) /\ a[k] = color[r[k]]
    BY <1>1, <1>5, <1>7, <2>1 DEF SoundMark
  <2>3. Green(r[n + 1]) /\ a[n + 1] = color[r[n + 1]]
    BY <1>4, <1>5, <1>7, <2>1
  <2>4. \A k \in 1 .. n + 1 : Green(r[k]) /\ a[k] = color[r[k]]
    <3> SUFFICES ASSUME NEW k \in 1 .. n + 1 PROVE Green(r[k]) /\ a[k] = color[r[k]]
      OBVIOUS
    <3>1. k \in 1 .. n \/ k = n + 1
      OBVIOUS
    <3> QED
      BY <2>2, <2>3, <3>1
  <2>5. n + 1 <= Len(r)
    BY <1>4, <1>5, <2>1
  <2>6. f.query \in prev.nodes /\ f.query \notin EvalAlways
    BY <1>1 DEF SoundMark
  <2> QED
    BY <1>7, <1>9, <2>1, <2>4, <2>5, <2>6 DEF SoundMark
<1>11. Sound(g) /\ Evolves(f, g) /\ Answered(g, ret[w]) /\ g \in Frames
  BY <1>1, <1>9, <1>10 DEF Sound, Evolves, Answered, Frames
<1> QED
  BY <1>8, <1>9, <1>11, Becomes

\* Marking fails.
LEMMA AnswerKeeps ==
  ASSUME DInv, NEW w \in Workers, stack[w] # <<>>, NEW f, f = Frame(w), f.op = "mark",
         Answer(w, Failed), MemorySame
  PROVE  DInv'
<1>1. \A e \in Frames : Calls(e, Frame(w)) /\ Sound(e) => Answered(e, Failed)
  BY DEF Calls, Answered, Failed
<1>2. Return(w) /\ ret' = [ret EXCEPT ![w] = Failed] /\ Failed \in Nat
  BY DEF Answer, Failed
<1> QED
  BY <1>1, <1>2, Returns

\* The dependency is forced, or is marked first.
LEMMA VisitKeeps ==
  ASSUME DInv, NEW w \in Workers, stack[w] # <<>>, NEW f, f = Frame(w), f.op = "mark", Visiting(f),
         MemorySame, UNCHANGED ret,
         \/ Push(w, [f EXCEPT !.pc = "forced"], Call(Edge(f)))
         \/ Push(w, [f EXCEPT !.pc = "marked"], Mark(Edge(f))) /\ Edge(f) \notin EvalAlways
  PROVE  DInv'
<1>1. /\ f \in Frames /\ f \in MarkFrame /\ Sound(f) /\ SoundMark(f) /\ f.query \in Nat
      /\ f.query \in clean.nodes
      /\ Edge(f) \in Queries /\ Edge(f) \in clean.nodes /\ Edge(f) \in prev.nodes /\ Edge(f) < f.query
  BY MarkFacts, FrameTypes
<1>2. PICK d \in clean.nodes : d = Edge(f)
  BY <1>1
<1>3. PICK p \in {"forced", "marked"}, h \in Frames :
        /\ Push(w, [f EXCEPT !.pc = p], h) /\ Sound(h) /\ h.query = d
        /\ \/ p = "forced" /\ h.op = "call"
           \/ p = "marked" /\ h.op = "mark" /\ h.pc = "look"
  BY <1>1, <1>2, NewFrames, NewSound
<1> DEFINE g == [f EXCEPT !.pc = p]
<1>4. g \in Frames /\ g \in MarkFrame /\ g.op = "mark" /\ g.query = f.query /\ g.pc = p /\ g.edges = f.edges
  <2>1. g \in MarkFrame /\ g.op = "mark" /\ g.query = f.query /\ g.pc = p /\ g.edges = f.edges
    BY <1>1 DEF MarkFrame
  <2> HIDE DEF g
  <2> QED
    BY <2>1 DEF Frames
<1>5. Push(w, g, h)
  BY <1>3
<1> HIDE DEF g
<1>6. SoundMark(g)
  BY <1>1, <1>4 DEF SoundMark, Visiting
<1>7. Edge(g) = d
  BY <1>2, <1>4 DEF Edge
<1>8. Sound(g) /\ Evolves(f, g) /\ Calls(g, h)
  BY <1>1, <1>3, <1>4, <1>6, <1>7 DEF Sound, Evolves, Calls
<1>9. \/ h.op = "mark" /\ h.pc = "look" /\ h.query <= g.query
      \/ h.op = "call" /\ h.query < g.query
  <2>1. d \in Nat /\ d < g.query /\ g.query \in Nat
    BY <1>1, <1>2, <1>4, QueryNumbers
  <2> QED
    BY <1>3, <2>1
<1> QED
  BY <1>3, <1>4, <1>5, <1>8, <1>9, Pushes

\* try_force_from_dep_node: a node that cannot be forced fails the marking.
LEMMA ForceKeeps ==
  ASSUME DInv, NEW w \in Workers, stack[w] # <<>>, NEW f, f = Frame(w), f.op = "mark", Visiting(f),
         MemorySame, try_force_from_dep_node(w, f)
  PROVE  DInv'
<1>1. \/ Answer(w, Failed)
      \/ Push(w, [f EXCEPT !.pc = "forced"], Call(Edge(f))) /\ UNCHANGED ret
  BY DEF try_force_from_dep_node
<1> QED
  BY <1>1, AnswerKeeps, VisitKeeps

\* look: what the color of the next dependency says.
LEMMA LookKeeps ==
  ASSUME DInv, NEW w \in Workers, look(w), UNCHANGED <<setup, prev, clean>>
  PROVE  DInv'
<1>1. PICK f : f = Frame(w)
  OBVIOUS
<1>2. /\ stack[w] # <<>> /\ f.op = "mark" /\ Visiting(f)
      /\ \/ Green(Edge(f)) /\ Found(w, f, color[Edge(f)])
         \/ Answer(w, Failed)
         \/ try_force_from_dep_node(w, f)
         \/ /\ Edge(f) \notin EvalAlways
            /\ Push(w, [f EXCEPT !.pc = "marked"], Mark(Edge(f))) /\ UNCHANGED ret
  BY <1>1 DEF look, Top
<1>3. MemorySame
  BY DEF look, memory, MemorySame, Remembers, DInv
<1> QED
  BY <1>1, <1>2, <1>3, FoundKeeps, AnswerKeeps, ForceKeeps, VisitKeeps

\* The dependency was marked, or is forced after all.
LEMMA LookMarkedKeeps ==
  ASSUME DInv, NEW w \in Workers, look_marked(w), UNCHANGED <<setup, prev, clean>>
  PROVE  DInv'
<1>1. PICK f : f = Frame(w)
  OBVIOUS
<1>2. /\ stack[w] # <<>> /\ f.op = "mark" /\ f.pc = "marked"
      /\ \/ ret[w] # Failed /\ Found(w, f, ret[w])
         \/ try_force_from_dep_node(w, f)
  BY <1>1 DEF look_marked, Top
<1>3. MemorySame
  BY DEF look_marked, memory, MemorySame, Remembers, DInv
<1>4. Visiting(f) /\ Answered(f, ret[w])
  BY <1>1, <1>2, MarkFacts DEF SoundMark
<1>5. ret[w] # Failed => Green(Edge(f)) /\ ret[w] = color[Edge(f)]
  BY <1>2, <1>4 DEF Answered, Target
<1>6. CASE ret[w] # Failed /\ Found(w, f, ret[w])
  <2>1. PICK i : i = ret[w]
    OBVIOUS
  <2> QED
    BY <1>1, <1>2, <1>3, <1>4, <1>5, <1>6, <2>1, FoundKeeps
<1> QED
  BY <1>1, <1>2, <1>3, <1>4, <1>6, ForceKeeps

\* The dependency was forced, so it has a color.
LEMMA LookForcedKeeps ==
  ASSUME DInv, NEW w \in Workers, look_forced(w), UNCHANGED <<setup, prev, clean>>
  PROVE  DInv'
<1>1. PICK f : f = Frame(w)
  OBVIOUS
<1>2. /\ stack[w] # <<>> /\ f.op = "mark" /\ f.pc = "forced"
      /\ \/ Green(Edge(f)) /\ Found(w, f, color[Edge(f)])
         \/ Answer(w, Failed)
      /\ Assertion(color[Edge(f)] # Unknown)
  BY <1>1 DEF look_forced, Top
<1>3. Visiting(f) /\ Answered(f, ret[w]) /\ Edge(f) \in Queries /\ Edge(f) \in prev.nodes
  BY <1>1, <1>2, MarkFacts DEF SoundMark
<1>4. PICK d \in Queries : d = Edge(f)
  BY <1>3
<1>5. cache[d] # Vacant /\ MemoryInv(d)
  BY <1>2, <1>3, <1>4 DEF Answered, DInv
<1>6. color[d] # Unknown
  BY <1>3, <1>4, <1>5 DEF MemoryInv
<1>7. MemorySame
  BY <1>2, <1>4, <1>6 DEF look_forced, Assertion, MemorySame, Remembers, DInv
<1> QED
  BY <1>1, <1>2, <1>3, <1>7, FoundKeeps, AnswerKeeps

\* A worker that finds the result, and one that starts the job.
LEMMA CallKeeps ==
  ASSUME DInv, NEW w \in Workers, try_execute_query(w), UNCHANGED <<setup, prev, clean>>
  PROVE  DInv'
<1>1. PICK f : f = Frame(w)
  OBVIOUS
<1>2. stack[w] # <<>> /\ f.op = "call" /\ ~panicked /\ UNCHANGED <<ret, asked>>
  BY <1>1 DEF try_execute_query, Top
<1>3. f \in Frames /\ Sound(f) /\ ret[w] \in Nat
  BY <1>1, <1>2, TopFrame
<1>4. PICK q \in Queries : q = f.query
  BY <1>3, FrameTypes
<1>5. q \in clean.nodes /\ Session
  BY <1>3, <1>4 DEF Sound, DInv
<1>r. ret' = [ret EXCEPT ![w] = ret[w]]
  BY <1>2 DEF DInv, DTyped
<1>6. CASE cache[q] # Vacant
  <2>1. Return(w) /\ UNCHANGED memory
    BY <1>1, <1>4, <1>6 DEF try_execute_query
  <2>2. MemorySame
    BY <1>2, <2>1 DEF memory, MemorySame, Remembers
  <2>3. \A e \in Frames : Calls(e, f) /\ Sound(e) => Answered(e, ret[w])
    BY <1>2, <1>4, <1>6 DEF Calls, Answered
  <2> QED
    BY <1>1, <1>2, <1>3, <1>r, <2>1, <2>2, <2>3, Returns
<1>7. CASE cache[q] = Vacant
  <2>1. /\ active[q] = Nobody /\ active' = [active EXCEPT ![q] = w] /\ Become(w, Job(q))
        /\ UNCHANGED <<color, encoded, cache, panicked>>
    BY <1>1, <1>4, <1>7 DEF try_execute_query
  <2>2. PICK g \in Frames : g = Job(q)
    BY NewFrames
  <2>3. g.op = "job" /\ g.query = q /\ g.pc = "start" /\ g.vals = <<>> /\ g.reads = <<>>
    BY <2>2, NewFrames
  <2>4. DTyped /\ Become(w, g)
    BY <2>1, <2>2 DEF DInv
  <2>5. PICK t \in Seq(Frames) : /\ Restacked(w, t) /\ Above(stack[w], t)
                                 /\ Len(t) = Len(stack[w]) /\ t[Len(stack[w])] = g
    BY <1>2, <2>4, BecomeShape
  <2>6. PICK s \in Seq(Frames) : s = stack[w]
    BY <1>2, TopFrame
  <2>7. PICK n \in Nat \ {0} : n = Len(s) /\ n = Len(t) /\ s[n] = f /\ t[n] = g
    BY <1>1, <1>2, <2>5, <2>6, TopFrame
  <2>8. Grow
    BY <2>1 DEF Grow, Written
  <2>9. /\ Session' /\ ~panicked'
    BY <1>2, <1>5, <2>1 DEF Session
  <2>10. \A p : Ran(p)' <=> Ran(p)
    BY <2>1 DEF Ran
  <2>11. MemoryInv(q)
    BY DEF DInv
  <2>12. Sound(g)' /\ \A r : Answered(g, r)'
    <3>1. ~Ran(q)
      BY <1>7, <2>1, <2>11 DEF MemoryInv
    <3>2. ~Ran(q)'
      BY <2>10, <3>1
    <3>3. SoundJob(g)'
      BY <2>3, <3>2 DEF SoundJob
    <3> QED
      BY <1>5, <2>3, <3>3 DEF Sound, Answered
  <2>13. Evolves(f, g)
    BY <1>2, <1>4, <2>3 DEF Evolves
  <2>14. MoveTo(s, t)
    BY <2>5, <2>6, <2>7, <2>13 DEF MoveTo, Above
  <2>15. \A v \in Workers : StackOK(stack[v], ret[v])'
    <3>1. OthersQuiet(w)
      BY <2>10, QuietSame
    <3>2. \A i \in Len(stack[w]) .. Len(t) : \A h \in Frames : h = t[i] => Sound(h)'
      BY <2>6, <2>7, <2>12
    <3>3. PICK u : u = ret[w]
      OBVIOUS
    <3>4. Len(t) > 0 => Answered(t[Len(t)], u)'
      BY <2>7, <2>12
    <3> QED
      BY <1>2, <1>r, <2>5, <2>6, <2>8, <2>14, <3>1, <3>2, <3>3, <3>4, Stacks
  <2>16. DTyped'
    BY <1>2, <2>1, <2>4, <2>5 DEF DTyped, Restacked
  <2>17. JobsActive'
    <3> SUFFICES ASSUME NEW p \in Queries, NEW v \in Workers
                 PROVE  active'[p] = v <=> HasJob(stack'[v], p)
      BY DEF JobsActive, HasJob
    <3>1. active[p] = v <=> HasJob(stack[v], p)
      BY DEF DInv, JobsActive
    <3>2. \A x \in Workers : x # Nobody
      BY DepAssumption
    <3>3. active'[p] = IF p = q THEN w ELSE active[p]
      BY <2>1 DEF DInv, DTyped
    <3>4. v # w => stack'[v] = stack[v]
      BY <2>5 DEF DInv, DTyped, Restacked
    <3>5. CASE v = w
      <4>1. stack'[v] = t /\ stack[v] = s
        BY <2>5, <2>6, <3>5 DEF DInv, DTyped, Restacked
      <4>2. \A i \in 1 .. n - 1 : t[i] = s[i]
        BY <2>5, <2>6, <2>7 DEF Above
      <4>3. HasJob(t, p) <=> p = q \/ HasJob(s, p)
        <5>1. HasJob(t, q)
          BY <2>3, <2>7 DEF HasJob
        <5>2. ASSUME HasJob(s, p) PROVE HasJob(t, p)
          <6>1. PICK i \in 1 .. n : s[i].op = "job" /\ s[i].query = p
            BY <2>7, <5>2 DEF HasJob
          <6>2. i \in 1 .. n - 1
            BY <1>2, <2>7, <6>1
          <6> QED
            BY <2>7, <4>2, <6>1, <6>2 DEF HasJob
        <5>3. ASSUME HasJob(t, p), p # q PROVE HasJob(s, p)
          <6>1. PICK i \in 1 .. n : t[i].op = "job" /\ t[i].query = p
            BY <2>7, <5>3 DEF HasJob
          <6>2. i \in 1 .. n - 1
            BY <2>3, <2>7, <5>3, <6>1
          <6> QED
            BY <2>7, <4>2, <6>1, <6>2 DEF HasJob
        <5> QED
          BY <5>1, <5>2, <5>3
      <4> QED
        BY <3>1, <3>3, <3>5, <4>1, <4>3
    <3>6. CASE v # w
      BY <2>1, <3>1, <3>2, <3>3, <3>4, <3>6
    <3> QED
      BY <3>5, <3>6
  <2>18. NodesExact'
    BY <2>1 DEF NodesExact, DInv, Names, Written, fingerprint, Value
  <2>19. ASSUME NEW p \in Queries PROVE MemoryInv(p)'
    <3>1. MemoryInv(p)
      BY DEF DInv
    <3>2. active'[p] = IF p = q THEN w ELSE active[p]
      BY <2>1 DEF DInv, DTyped
    <3>3. w # Nobody
      BY DepAssumption
    <3> QED
      BY <1>7, <2>1, <3>1, <3>2, <3>3 DEF MemoryInv, Green, Written, Unchanged, Ran, Value
  <2> QED
    BY <2>9, <2>15, <2>16, <2>17, <2>18, <2>19 DEF DInv
<1> QED
  BY <1>6, <1>7

\* A job is on one stack, and once.
LEMMA JobOnce ==
  ASSUME DInv, NEW w \in Workers, NEW v \in Workers, NEW i \in 1 .. Len(stack[w]),
         NEW j \in 1 .. Len(stack[v]),
         stack[w][i].op = "job", stack[v][j].op = "job", stack[w][i].query = stack[v][j].query
  PROVE  w = v /\ i = j
<1>1. PICK s \in Seq(Frames) : s = stack[w]
  BY DEF DInv, DTyped
<1>2. PICK p \in Queries : p = s[i].query
  BY <1>1, ElementOfSeq, FrameTypes
<1>3. HasJob(stack[w], p) /\ HasJob(stack[v], p)
  BY <1>1, <1>2 DEF HasJob
<1>4. active[p] = w /\ active[p] = v
  BY <1>3 DEF DInv, JobsActive
<1>5. Len(s) \in Nat /\ \A k \in 1 .. Len(s) : s[k].query \in Nat
  BY LenProperties, ElementOfSeq, FrameTypes
<1>6. Ordered(s)
  BY <1>1 DEF DInv, StackOK
<1>7. i = j
  <2>1. \A a, b \in 1 .. Len(s) : a < b /\ s[b].op = "job" => s[b].query < s[a].query
    BY <1>6 DEF Ordered
  <2>2. i \in 1 .. Len(s) /\ j \in 1 .. Len(s) /\ s[i].query = s[j].query /\ s[i].op = "job" /\ s[j].op = "job"
    BY <1>1, <1>4
  <2> QED
    BY <1>5, <2>1, <2>2
<1> QED
  BY <1>4, <1>7

\* The job completes: its result is cached.
LEMMA CompleteKeeps ==
  ASSUME DInv, NEW w \in Workers, complete(w), UNCHANGED <<setup, prev, clean>>
  PROVE  DInv'
<1>1. PICK f : f = Frame(w)
  OBVIOUS
<1>2. /\ stack[w] # <<>> /\ f.op = "job" /\ f.pc = "complete" /\ ~panicked
      /\ cache' = [cache EXCEPT ![f.query] = [value |-> f.value, index |-> f.index]]
      /\ active' = [active EXCEPT ![f.query] = Nobody] /\ Return(w)
      /\ UNCHANGED <<color, encoded, panicked, ret, asked>>
  BY <1>1 DEF complete, Top
<1>3. f \in Frames /\ f \in JobFrame /\ Sound(f) /\ SoundJob(f)
  BY <1>1, <1>2, TopFrame, FrameTypes DEF Sound
<1>4. PICK q \in Queries : q = f.query
  BY <1>3, FrameTypes
<1>5. /\ f.value = Value(q) /\ Written(f.index, q) /\ (q \in prev.nodes => color[q] # Unknown)
      /\ f.value \in Values \cup {0} /\ f.index \in Nat
  BY <1>2, <1>3, <1>4 DEF SoundJob, JobFrame
<1>6. PICK c : c = [value |-> f.value, index |-> f.index]
  OBVIOUS
<1>7. /\ c \in [value : Values \cup {0}, index : Nat] /\ c # Vacant
      /\ c.value = Value(q) /\ Written(c.index, q)
  <2>1. f.index # 0
    BY <1>5 DEF Written, DInv, DTyped
  <2> QED
    BY <1>5, <1>6, <2>1 DEF Vacant
<1>8. \A p \in Queries : /\ cache'[p] = (IF p = q THEN c ELSE cache[p])
                         /\ active'[p] = (IF p = q THEN Nobody ELSE active[p])
  BY <1>2, <1>4, <1>6 DEF DInv, DTyped
<1>9. DTyped
  BY DEF DInv
<1>10. PICK t \in Seq(Frames) : /\ Restacked(w, t) /\ Above(stack[w], t)
                                /\ Len(t) = Len(stack[w]) - 1
  BY <1>2, <1>9, ReturnShape
<1>11. PICK s \in Seq(Frames) : s = stack[w]
  BY <1>2, TopFrame
<1>12. PICK n \in Nat \ {0} : n = Len(s) /\ n - 1 = Len(t) /\ s[n] = f
  BY <1>1, <1>2, <1>10, <1>11, TopFrame
<1>13. \A i \in 1 .. n - 1 : t[i] = s[i]
  BY <1>10, <1>11, <1>12 DEF Above
<1>14. Grow
  <2>1. \A p \in Queries : cache[p] # Vacant => cache'[p] # Vacant
    BY <1>7, <1>8
  <2> QED
    BY <1>2, <2>1 DEF Grow, Written
<1>15. Session /\ Session' /\ ~panicked'
  BY <1>2 DEF DInv, Session
<1>16. \A p : Ran(p)' <=> Ran(p)
  BY <1>2 DEF Ran
<1>17. \A v \in Workers : StackOK(stack[v], ret[v])'
  <2>1. MoveTo(stack[w], t)
    BY <1>11, <1>12, <1>13 DEF MoveTo
  <2>2. OthersQuiet(w)
    BY <1>16, QuietSame
  <2>3. \A i \in Len(stack[w]) .. Len(t) : \A h \in Frames : h = t[i] => Sound(h)'
    BY <1>11, <1>12
  <2>4. PICK u : u = ret[w]
    OBVIOUS
  <2>5. ASSUME Len(t) > 0 PROVE Answered(t[Len(t)], u)'
    <3>1. n - 1 \in 1 .. Len(s) - 1 /\ n - 1 \in 1 .. Len(s) /\ (n - 1) + 1 = n
      BY <1>12, <2>5
    <3>2. PICK e \in Frames : e = s[n - 1]
      BY <3>1, ElementOfSeq
    <3>3. t[Len(t)] = e
      BY <1>12, <1>13, <2>5, <3>2
    <3>4. StackOK(s, ret[w])
      BY <1>11 DEF DInv
    <3>5. Calls(e, f)
      BY <1>12, <3>1, <3>2, <3>4 DEF StackOK
    <3>6. cache'[q] # Vacant
      BY <1>7, <1>8
    <3>7. \/ e.op = "job" /\ e.pc \in {"run", "rerun"}
          \/ e.op = "mark" /\ e.pc = "forced" /\ Edge(e) = q
      BY <1>2, <1>4, <3>5 DEF Calls
    <3>8. Edge(e)' = Edge(e)
      BY DEF Edge
    <3>9. Answered(e, u)'
      BY <3>6, <3>7, <3>8 DEF Answered
    <3> QED
      BY <3>3, <3>9
  <2>6. ret' = [ret EXCEPT ![w] = u]
    BY <1>2, <2>4 DEF DInv, DTyped
  <2> QED
    BY <1>2, <1>10, <1>14, <2>1, <2>2, <2>3, <2>5, <2>6, Stacks
<1>18. DTyped'
  <2>1. cache' \in [Queries -> [value : Values \cup {0}, index : Nat]]
    BY <1>2, <1>4, <1>6, <1>7, <1>9 DEF DTyped
  <2>2. active' \in [Queries -> Workers \cup {Nobody}]
    BY <1>2, <1>4, <1>9 DEF DTyped
  <2>3. stack' \in [Workers -> Seq(Frames)]
    BY <1>9, <1>10 DEF DTyped, Restacked
  <2> QED
    BY <1>2, <1>9, <2>1, <2>2, <2>3 DEF DTyped
<1>19. JobsActive'
  <2> SUFFICES ASSUME NEW p \in Queries, NEW v \in Workers
               PROVE  active'[p] = v <=> HasJob(stack'[v], p)
    BY DEF JobsActive, HasJob
  <2>1. \A x \in Workers : active[p] = x <=> HasJob(stack[x], p)
    BY DEF DInv, JobsActive
  <2>2. v # Nobody
    BY DepAssumption
  <2>3. HasJob(stack[w], q)
    BY <1>2, <1>4, <1>11, <1>12 DEF HasJob
  <2>4. active[q] = w
    BY <2>3 DEF DInv, JobsActive
  <2>5. CASE v = w
    <3>1. stack'[v] = t /\ stack[v] = s
      BY <1>10, <1>11, <2>5 DEF DInv, DTyped, Restacked
    <3>2. HasJob(t, p) <=> p # q /\ HasJob(s, p)
      <4>1. ASSUME HasJob(s, p), p # q PROVE HasJob(t, p)
        <5>1. PICK i \in 1 .. n : s[i].op = "job" /\ s[i].query = p
          BY <1>12, <4>1 DEF HasJob
        <5>2. i \in 1 .. n - 1
          BY <1>4, <1>12, <4>1, <5>1
        <5> QED
          BY <1>12, <1>13, <5>1, <5>2 DEF HasJob
      <4>2. ASSUME HasJob(t, p) PROVE p # q /\ HasJob(s, p)
        <5>1. PICK i \in 1 .. n - 1 : t[i].op = "job" /\ t[i].query = p
          BY <1>12, <4>2 DEF HasJob
        <5>2. s[i].op = "job" /\ s[i].query = p /\ i \in 1 .. n /\ n \in 1 .. n /\ i # n
          BY <1>13, <5>1
        <5>3. i \in 1 .. Len(stack[w]) /\ n \in 1 .. Len(stack[w])
          BY <1>11, <1>12, <5>2
        <5>4. p # q
          BY <1>2, <1>4, <1>11, <1>12, <5>2, <5>3, JobOnce
        <5> QED
          BY <1>12, <5>2, <5>4 DEF HasJob
      <4> QED
        BY <4>1, <4>2
    <3> QED
      BY <1>8, <2>1, <2>2, <3>1, <3>2
  <2>6. CASE v # w
    <3>1. stack'[v] = stack[v]
      BY <1>10, <2>6 DEF DInv, DTyped, Restacked
    <3> QED
      BY <1>8, <2>1, <2>2, <2>4, <2>6, <3>1
  <2> QED
    BY <2>5, <2>6
<1>20. NodesExact'
  BY <1>2 DEF NodesExact, DInv, Names, Written, fingerprint, Value
<1>21. ASSUME NEW p \in Queries PROVE MemoryInv(p)'
  <2>1. MemoryInv(p)
    BY DEF DInv
  <2>2. CASE p = q
    <3>1. cache'[p] = c /\ active'[p] = Nobody
      BY <1>8, <2>2
    <3>2. c # Vacant /\ c.value = Value(p)' /\ Written(c.index, p)' /\ (p \in prev'.nodes => color'[p] # Unknown)
      BY <1>2, <1>5, <1>7, <2>2 DEF Value, Written
    <3>3. /\ color'[p] # Unknown => p \in prev'.nodes
          /\ Green(p)' => Written(color[p], p)' /\ Unchanged(p)'
          /\ p \in prev'.nodes /\ (\E i \in DOMAIN encoded' : encoded'[i].node = p) => color'[p] # Unknown
      BY <1>2, <2>1 DEF MemoryInv, Green, Written, Unchanged
    <3> QED
      BY <3>1, <3>2, <3>3 DEF MemoryInv
  <2>3. CASE p # q
    <3>1. cache'[p] = cache[p] /\ active'[p] = active[p]
      BY <1>8, <2>3
    <3> QED
      BY <1>2, <2>1, <3>1 DEF MemoryInv, Green, Written, Unchanged, Ran, Value
  <2> QED
    BY <2>2, <2>3
<1> QED
  BY <1>15, <1>17, <1>18, <1>19, <1>20, <1>21 DEF DInv

\* A node of the new graph.
Node == [node : Queries, edges : Seq(Nat), hash : Values \cup {ZERO}]

\* A node is written for q, and q has the color c.
Writes(q, e, c) ==
  /\ encoded' = Append(encoded, e)
  /\ color' = [color EXCEPT ![q] = c]
  /\ UNCHANGED <<setup, prev, clean, cache, active>>

\* What is needed for that.
MayWrite(q, e, c) ==
  /\ e \in Node /\ e.node = q /\ e.hash = fingerprint(q, Value(q))
  /\ Names(e.edges, clean.run[q].reads)
  /\ color[q] = Unknown /\ ~ \E i \in DOMAIN encoded : encoded[i].node = q
  /\ \/ q \notin prev.nodes /\ c = Unknown /\ active[q] # Nobody
     \/ q \in prev.nodes /\ c = Red /\ active[q] # Nobody
     \/ q \in prev.nodes /\ c = Len(encoded) + 1 /\ Unchanged(q)

\* The memory after a node was written.
LEMMA Writing ==
  ASSUME DInv, NEW q \in Queries, NEW e, NEW c, Writes(q, e, c), MayWrite(q, e, c)
  PROVE  /\ Grow /\ NodesExact' /\ \A p \in Queries : MemoryInv(p)'
         /\ color' \in [Queries -> Nat \cup {Red}] /\ encoded' \in Seq(Node)
         /\ Len(encoded') = Len(encoded) + 1 /\ \A k : k = Len(encoded) + 1 => Written(k, q)'
         /\ \A p \in Queries : Ran(p)' => Ran(p) \/ (p = q /\ c \in {Red, Unknown})
         /\ color'[q] = c
<1>1. /\ encoded \in Seq(Node) /\ color \in [Queries -> Nat \cup {Red}]
      /\ active \in [Queries -> Workers \cup {Nobody}]
  BY DEF DInv, DTyped, Node
<1>2. PICK n \in Nat : n = Len(encoded) /\ DOMAIN encoded = 1 .. n
  BY <1>1, LenProperties
<1>3. e \in Node /\ e.node = q
  BY DEF MayWrite
<1>4. PICK en \in Seq(Node) : en = encoded'
  <2>1. encoded' \in Seq(Node)
    BY <1>1, <1>3, AppendProperties DEF Writes
  <2> QED
    BY <2>1
<1>5. /\ Len(en) = n + 1 /\ DOMAIN en = 1 .. n + 1 /\ en[n + 1] = e
      /\ \A i \in 1 .. n : en[i] = encoded[i]
  <2>1. /\ Len(en) = Len(encoded) + 1 /\ en[Len(encoded) + 1] = e
        /\ \A i \in 1 .. Len(encoded) : en[i] = encoded[i]
    BY <1>1, <1>3, <1>4, AppendProperties DEF Writes
  <2>2. DOMAIN en = 1 .. Len(en)
    BY LenProperties
  <2> QED
    BY <1>2, <2>1, <2>2
<1>6. /\ c \in Nat \cup {Red}
      /\ c # Unknown /\ c # Red => c = n + 1
      /\ n + 1 # Unknown /\ n + 1 # Red
  BY <1>2, DepAssumption DEF MayWrite, Unknown
<1>7. \A p \in Queries : color'[p] = IF p = q THEN c ELSE color[p]
  BY <1>1 DEF Writes
<1>8. \A i, p : Written(i, p)' <=> Written(i, p) \/ (i = n + 1 /\ p = q)
  <2> SUFFICES ASSUME NEW i, NEW p PROVE Written(i, p)' <=> Written(i, p) \/ (i = n + 1 /\ p = q)
    OBVIOUS
  <2>1. Written(i, p)' <=> i \in 1 .. n + 1 /\ en[i].node = p
    BY <1>4, <1>5 DEF Written
  <2>2. Written(i, p) <=> i \in 1 .. n /\ encoded[i].node = p
    BY <1>2 DEF Written
  <2>3. i \in 1 .. n + 1 <=> i \in 1 .. n \/ i = n + 1
    OBVIOUS
  <2>4. n + 1 \notin 1 .. n
    OBVIOUS
  <2> QED
    BY <1>3, <1>5, <2>1, <2>2, <2>3, <2>4
<1>9. Grow
  <2>1. \A p \in Queries : color[p] # Unknown => color'[p] = color[p]
    BY <1>7 DEF MayWrite
  <2> QED
    BY <1>8, <2>1 DEF Grow, Writes
<1>10. \A p : (\E i \in DOMAIN encoded' : encoded'[i].node = p) <=>
                p = q \/ \E i \in DOMAIN encoded : encoded[i].node = p
  <2>1. \A p : (\E i \in DOMAIN encoded' : encoded'[i].node = p) <=> \E i : Written(i, p)'
    BY DEF Written
  <2>2. \A p : (\E i \in DOMAIN encoded : encoded[i].node = p) <=> \E i : Written(i, p)
    BY DEF Written
  <2> QED
    BY <1>8, <2>1, <2>2
<1>11. \A p \in Queries : Ran(p)' => Ran(p) \/ (p = q /\ c \in {Red, Unknown})
  <2> SUFFICES ASSUME NEW p \in Queries, Ran(p)' PROVE Ran(p) \/ (p = q /\ c \in {Red, Unknown})
    OBVIOUS
  <2>1. color'[p] = Red \/ (p \notin prev.nodes /\ \E i \in DOMAIN encoded' : encoded'[i].node = p)
    BY DEF Ran, Writes
  <2>2. CASE p = q
    BY <1>6, <1>7, <2>1, <2>2 DEF MayWrite
  <2>3. CASE p # q
    BY <1>7, <1>10, <2>1, <2>3 DEF Ran
  <2> QED
    BY <2>2, <2>3
<1>12. NodesExact'
  <2>0. NodesExact
    BY DEF DInv
  <2>1. \A i, j \in 1 .. n + 1 : en[i].node = en[j].node => i = j
    <3> SUFFICES ASSUME NEW i \in 1 .. n + 1, NEW j \in 1 .. n + 1, en[i].node = en[j].node PROVE i = j
      OBVIOUS
    <3>1. \A k \in 1 .. n : en[k].node # q
      BY <1>2, <1>5 DEF MayWrite
    <3>2. CASE i = n + 1 \/ j = n + 1
      <4>1. \A k \in 1 .. n + 1 : k # n + 1 => k \in 1 .. n
        OBVIOUS
      <4> QED
        BY <1>3, <1>5, <3>1, <3>2, <4>1
    <3>3. CASE i # n + 1 /\ j # n + 1
      <4>1. i \in 1 .. n /\ j \in 1 .. n
        BY <3>3
      <4>2. encoded[i].node = encoded[j].node
        BY <1>5, <4>1
      <4> QED
        BY <1>2, <2>0, <4>1, <4>2 DEF NodesExact
    <3> QED
      BY <3>2, <3>3
  <2>2. ASSUME NEW i \in 1 .. n + 1
        PROVE  /\ en[i].hash = fingerprint(en[i].node, Value(en[i].node))'
               /\ Names(en[i].edges, clean.run[en[i].node].reads)'
    <3>1. PICK d \in Node : d = en[i]
      BY <1>5, ElementOfSeq
    <3>2. d.hash = fingerprint(d.node, Value(d.node)) /\ Names(d.edges, clean.run[d.node].reads)
      <4>1. CASE i = n + 1
        BY <1>3, <1>5, <3>1, <4>1 DEF MayWrite
      <4>2. CASE i # n + 1
        <5>1. i \in 1 .. n
          BY <4>2
        <5>2. encoded[i] = d
          BY <1>5, <3>1, <5>1
        <5> QED
          BY <1>2, <2>0, <5>1, <5>2 DEF NodesExact
      <4> QED
        BY <4>1, <4>2
    <3>3. PICK r : r = clean.run[d.node].reads
      OBVIOUS
    <3>4. Names(d.edges, r)'
      BY <1>9, <3>2, <3>3, NamesKept
    <3>5. clean' = clean /\ setup' = setup
      BY DEF Writes
    <3>6. Names(d.edges, clean.run[d.node].reads)'
      BY <3>3, <3>4, <3>5
    <3>7. d.hash = fingerprint(d.node, Value(d.node))'
      BY <3>2, <3>5 DEF fingerprint, Value
    <3> QED
      BY <3>1, <3>6, <3>7
  <2> QED
    BY <1>4, <1>5, <2>1, <2>2 DEF NodesExact
<1>13. ASSUME NEW p \in Queries PROVE MemoryInv(p)'
  <2>1. MemoryInv(p)
    BY DEF DInv
  <2>2. /\ prev' = prev /\ cache' = cache /\ active' = active /\ clean' = clean
        /\ Unchanged(p)' <=> Unchanged(p)
    BY DEF Writes, Unchanged
  <2>3. /\ color'[p] # Unknown => p \in prev'.nodes
        /\ Green(p)' => Written(color[p], p)' /\ Unchanged(p)'
        /\ p \in prev'.nodes /\ (\E i \in DOMAIN encoded' : encoded'[i].node = p) => color'[p] # Unknown
    <3>1. CASE p = q
      <4>1. color'[p] = c
        BY <1>7, <3>1
      <4>2. PICK k : k = color'[p]
        OBVIOUS
      <4>3. ASSUME Green(p)' PROVE Written(k, p)' /\ Unchanged(p)'
        <5>1. c # Unknown /\ c # Red
          BY <4>1, <4>3 DEF Green
        <5>2. k = n + 1
          BY <1>6, <4>1, <4>2, <5>1
        <5>3. Written(k, p)'
          BY <1>8, <3>1, <5>2
        <5>4. Unchanged(p)
          BY <3>1, <5>1 DEF MayWrite
        <5> QED
          BY <2>2, <5>3, <5>4
      <4>4. c # Unknown <=> q \in prev.nodes
        BY <1>2, <1>6, DepAssumption DEF MayWrite, Unknown
      <4>5. Green(p)' => Written(color[p], p)' /\ Unchanged(p)'
        BY <4>2, <4>3
      <4> QED
        BY <2>2, <3>1, <4>1, <4>4, <4>5
    <3>2. CASE p # q
      <4>1. color'[p] = color[p]
        BY <1>7, <3>2
      <4>2. PICK k : k = color[p]
        OBVIOUS
      <4>3. Green(p)' => Written(k, p)' /\ Unchanged(p)'
        BY <1>8, <2>1, <2>2, <4>1, <4>2 DEF MemoryInv, Green
      <4>4. Green(p)' => Written(color[p], p)' /\ Unchanged(p)'
        BY <4>1, <4>2, <4>3
      <4> QED
        BY <1>10, <2>1, <2>2, <3>2, <4>1, <4>4 DEF MemoryInv
    <3> QED
      BY <3>1, <3>2
  <2>4. Ran(p)' => cache'[p] # Vacant \/ active'[p] # Nobody
    BY <1>6, <1>11, <2>1, <2>2, DepAssumption DEF MemoryInv, MayWrite, Unknown
  <2>5. ASSUME cache'[p] # Vacant
        PROVE  /\ Written(cache[p].index, p)' /\ cache'[p].value = Value(p)'
               /\ p \in prev'.nodes => color'[p] # Unknown
    <3>1. PICK k : k = cache[p].index
      OBVIOUS
    <3>2. Written(k, p) /\ cache[p].value = Value(p) /\ (p \in prev.nodes => color[p] # Unknown)
      BY <2>1, <2>2, <2>5, <3>1 DEF MemoryInv
    <3>3. Written(k, p)'
      BY <1>8, <3>2
    <3>4. Written(cache[p].index, p)'
      BY <2>2, <3>1, <3>3
    <3>5. cache'[p].value = Value(p)'
      BY <2>2, <3>2 DEF Value
    <3>6. p \in prev'.nodes => color'[p] # Unknown
      BY <1>9, <2>2, <3>2 DEF Grow
    <3> QED
      BY <3>4, <3>5, <3>6
  <2> QED
    BY <2>1, <2>2, <2>3, <2>4, <2>5 DEF MemoryInv
<1>14. color' \in [Queries -> Nat \cup {Red}]
  BY <1>1, <1>6 DEF Writes
<1>15. Written(n + 1, q)'
  BY <1>8
<1> QED
  BY <1>2, <1>4, <1>5, <1>7, <1>9, <1>11, <1>12, <1>13, <1>14, <1>15

\* A step that writes a node.
LEMMA MovedWriting ==
  ASSUME DInv, NEW w \in Workers, stack[w] # <<>>, NEW q \in Queries, NEW e, NEW c,
         Writes(q, e, c), MayWrite(q, e, c), OthersQuiet(w), ~panicked', UNCHANGED asked,
         NEW t \in Seq(Frames), Restacked(w, t), MoveTo(stack[w], t), SameJob(stack[w], t),
         NEW u \in Nat, ret' = [ret EXCEPT ![w] = u],
         \A i \in Len(stack[w]) .. Len(t) : \A f \in Frames : f = t[i] => Sound(f)',
         Len(t) > 0 => Answered(t[Len(t)], u)'
  PROVE  DInv'
<1>1. /\ Grow /\ NodesExact' /\ \A p \in Queries : MemoryInv(p)'
      /\ color' \in [Queries -> Nat \cup {Red}] /\ encoded' \in Seq(Node)
  BY Writing
<1>2. Session /\ Session'
  BY DEF DInv, Session, Writes
<1>3. \A v \in Workers : StackOK(stack[v], ret[v])'
  BY <1>1, Stacks
<1>4. DTyped'
  BY <1>1 DEF DInv, DTyped, Writes, Restacked, Node
<1>5. JobsActive'
  <2> SUFFICES ASSUME NEW p \in Queries, NEW v \in Workers
               PROVE  active'[p] = v <=> HasJob(stack'[v], p)
    BY DEF JobsActive, HasJob
  <2>1. active[p] = v <=> HasJob(stack[v], p)
    BY DEF DInv, JobsActive
  <2>2. HasJob(stack'[v], p) <=> HasJob(stack[v], p)
    <3>1. CASE v = w
      <4>1. PICK s \in Seq(Frames) : s = stack[w]
        BY TopFrame
      <4>2. HasJob(t, p) <=> HasJob(s, p)
        BY <4>1, TopFrame, JobsKept
      <4>3. stack'[v] = t
        BY <3>1 DEF DInv, DTyped, Restacked
      <4> QED
        BY <3>1, <4>1, <4>2, <4>3
    <3>2. CASE v # w
      BY <3>2 DEF DInv, DTyped, Restacked
    <3> QED
      BY <3>1, <3>2
  <2> QED
    BY <2>1, <2>2 DEF Writes
<1> QED
  BY <1>1, <1>2, <1>3, <1>4, <1>5 DEF DInv

\* alloc_and_color_node: the provider has returned what a clean build computes.
LEMMA AllocKeeps ==
  ASSUME DInv, NEW w \in Workers, alloc_and_color_node(w), UNCHANGED <<setup, prev, clean>>
  PROVE  DInv'
<1>1. PICK f : f = Frame(w)
  OBVIOUS
<1>2. stack[w] # <<>> /\ f.op = "job" /\ f.pc = "run" /\ Wants(f.query, f.vals) = 0 /\ ~panicked
  BY <1>1 DEF alloc_and_color_node, Top
<1>3. f \in Frames /\ f \in JobFrame /\ Sound(f) /\ SoundJob(f) /\ f.query \in clean.nodes
  BY <1>1, <1>2, TopFrame, FrameTypes DEF Sound
<1>4. PICK q \in Queries : q = f.query /\ q \in clean.nodes
  BY <1>3, FrameTypes
<1>5. Session /\ MemoryInv(q)
  BY DEF DInv
<1>6. PICK deps \in Seq(Queries) : ReadSoFar(clean.run, f.query, f.vals, deps) /\ Names(f.reads, deps)
  BY <1>2, <1>3 DEF SoundJob
<1>7. PICK value : value = Result(setup.now, f.query, f.vals)
  OBVIOUS
<1>8. value = Value(q) /\ deps = clean.run[q].reads
  <2>1. PICK vals : vals = f.vals
    OBVIOUS
  <2>2. ReadSoFar(clean.run, q, vals, deps) /\ Wants(q, vals) = 0
    BY <1>2, <1>4, <1>6, <2>1
  <2>3. Result(setup.now, q, vals) = Value(q) /\ deps = clean.run[q].reads
    BY <1>4, <1>5, <2>2, SessionProvider
  <2> QED
    BY <1>4, <1>7, <2>1, <2>3
<1>9. value \in Values
  BY <1>5, <1>8, SessionRuns DEF Value
<1>10. PICK hash \in Values \cup {ZERO} : hash = fingerprint(f.query, value)
  BY <1>9 DEF fingerprint
<1>11. ~Ran(q) /\ color[q] # Red
  BY <1>2, <1>3, <1>4 DEF SoundJob, Ran
<1>12. ~panicked'
  BY <1>1, <1>2, <1>4, <1>11 DEF alloc_and_color_node, Assertion
<1>13. UNCHANGED <<cache, active, ret, asked>>
  BY DEF alloc_and_color_node
<1>14. PICK i : i = IF color'[f.query] \in {Unknown, Red} THEN bump_index(encoded') ELSE color'[f.query]
  OBVIOUS
<1> DEFINE g == [f EXCEPT !.pc = "complete", !.value = value, !.index = i]
<1>15. Become(w, g)
  BY <1>1, <1>7, <1>14 DEF alloc_and_color_node
<1>16. ASSUME i \in Nat
       PROVE  /\ g \in Frames /\ g.op = "job" /\ g.query = q /\ g.pc = "complete"
              /\ g.value = value /\ g.index = i
  <2>1. /\ g \in JobFrame /\ g.op = "job" /\ g.query = q /\ g.pc = "complete"
        /\ g.value = value /\ g.index = i
    BY <1>3, <1>4, <1>9, <1>16 DEF JobFrame
  <2> HIDE DEF g
  <2> QED
    BY <2>1 DEF Frames
<1> HIDE DEF g
<1>17. CASE q \in prev.nodes /\ color[q] # Unknown
  <2>1. UNCHANGED <<color, encoded>>
    BY <1>1, <1>4, <1>17 DEF alloc_and_color_node, try_set_color
  <2>2. MemorySame
    BY <1>12, <1>13, <2>1 DEF MemorySame, Remembers
  <2>3. i = color[q] /\ Green(q) /\ i \in Nat
    BY <1>4, <1>11, <1>14, <1>17, <2>1 DEF Green, DInv, DTyped
  <2>4. Written(i, q)
    BY <1>5, <2>3 DEF MemoryInv
  <2>5. SoundJob(g)
    BY <1>8, <1>16, <1>17, <2>3, <2>4 DEF SoundJob
  <2>6. Sound(g) /\ Evolves(f, g) /\ Answered(g, ret[w]) /\ g \in Frames /\ g.op = "job"
    BY <1>2, <1>4, <1>16, <2>3, <2>5 DEF Sound, Evolves, Answered
  <2> QED
    BY <1>1, <1>2, <1>13, <1>15, <2>2, <2>6, Becomes
<1>18. CASE q \notin prev.nodes \/ color[q] = Unknown
  <2>1. PICK e \in Node : e = [node |-> q, edges |-> f.reads, hash |-> hash]
    BY <1>3 DEF Node, JobFrame
  <2>2. color[q] = Unknown
    BY <1>5, <1>18 DEF MemoryInv
  <2>3. PICK c : /\ Writes(q, e, c)
                 /\ \/ q \notin prev.nodes /\ c = Unknown
                    \/ q \in prev.nodes /\ c = Red
                    \/ q \in prev.nodes /\ c = Len(encoded) + 1 /\ is_green(q, hash)
    <3>1. color \in [Queries -> Nat \cup {Red}] /\ encoded \in Seq(Node)
      BY DEF DInv, DTyped, Node
    <3>2. encoded' = Append(encoded, e)
      BY <1>1, <1>4, <1>7, <1>10, <2>1, <2>2 DEF alloc_and_color_node, try_set_color
    <3>3. Len(encoded') = Len(encoded) + 1
      BY <3>1, <3>2, AppendProperties
    <3>4. CASE q \notin prev.nodes
      <4>1. color' = color
        BY <1>1, <1>4, <3>4 DEF alloc_and_color_node
      <4>2. color' = [color EXCEPT ![q] = Unknown]
        BY <2>2, <3>1, <4>1
      <4> QED
        BY <1>13, <3>2, <3>4, <4>2 DEF Writes
    <3>5. CASE q \in prev.nodes
      <4>1. color' = [color EXCEPT ![q] = IF is_green(q, hash) THEN Len(encoded) + 1 ELSE Red]
        BY <1>1, <1>4, <1>7, <1>10, <2>2, <3>3, <3>5 DEF alloc_and_color_node, try_set_color, bump_index
      <4>2. CASE is_green(q, hash)
        BY <1>13, <3>2, <3>5, <4>1, <4>2 DEF Writes
      <4>3. CASE ~is_green(q, hash)
        BY <1>13, <3>2, <3>5, <4>1, <4>3 DEF Writes
      <4> QED
        BY <4>2, <4>3
    <3> QED
      BY <3>4, <3>5
  <2>4. active[q] = w /\ w # Nobody
    <3>1. HasJob(stack[w], q)
      BY <1>1, <1>2, <1>4, TopFrame DEF HasJob
    <3> QED
      BY <3>1, DepAssumption DEF DInv, JobsActive
  <2>5. is_green(q, hash) => Unchanged(q)
    BY <1>4, <1>8, <1>10 DEF is_green, fingerprint, Unchanged, Value
  <2>6. MayWrite(q, e, c)
    <3>1. e.node = q /\ e.edges = f.reads /\ e.hash = hash
      BY <2>1
    <3>2. ~ \E k \in DOMAIN encoded : encoded[k].node = q
      BY <1>5, <1>11, <2>2 DEF MemoryInv, Ran
    <3>3. Names(e.edges, clean.run[q].reads) /\ e.hash = fingerprint(q, Value(q))
      BY <1>4, <1>6, <1>8, <1>10, <3>1
    <3> QED
      BY <2>2, <2>3, <2>4, <2>5, <3>1, <3>2, <3>3 DEF MayWrite
  <2>7. /\ Len(encoded') = Len(encoded) + 1 /\ (\A k : k = Len(encoded) + 1 => Written(k, q)')
        /\ \A p \in Queries : Ran(p)' => Ran(p) \/ (p = q /\ c \in {Red, Unknown})
        /\ color'[q] = c
    BY <2>3, <2>6, Writing
  <2>8. i = Len(encoded) + 1 /\ i \in Nat /\ Written(i, q)'
    <3>1. Len(encoded) \in Nat
      BY LenProperties DEF DInv, DTyped
    <3>2. i = Len(encoded) + 1
      BY <1>4, <1>14, <2>3, <2>7 DEF bump_index
    <3> QED
      BY <2>7, <3>1, <3>2
  <2>9. /\ g \in Frames /\ g.op = "job" /\ g.query = q /\ g.pc = "complete"
        /\ g.value = value /\ g.index = i
    BY <1>16, <2>8
  <2>10. Sound(g)' /\ \A u : Answered(g, u)'
    <3>1. q \in prev.nodes => color'[q] # Unknown
      <4>1. Len(encoded) \in Nat
        BY LenProperties DEF DInv, DTyped
      <4> QED
        BY <2>3, <2>7, <4>1, DepAssumption DEF Unknown
    <3>2. value = Value(q)'
      BY <1>8 DEF Value
    <3>3. PICK h : h = g
      OBVIOUS
    <3>4. SoundJob(h)'
      BY <2>8, <2>9, <3>1, <3>2, <3>3 DEF SoundJob
    <3> QED
      BY <1>4, <2>9, <3>3, <3>4 DEF Sound, Answered
  <2>11. OthersQuiet(w)
    <3> SUFFICES ASSUME NEW v \in Workers, NEW s \in Seq(Frames), s = stack[v], NEW k \in 1 .. Len(s),
                        v = w => k < Len(s), s[k].op = "job", s[k].pc # "complete"
                 PROVE  ~Ran(s[k].query)'
      BY DEF OthersQuiet
    <3>1. PICK h \in Frames : h = s[k]
      BY ElementOfSeq
    <3>2. StackOK(s, ret[v])
      BY DEF DInv
    <3>3. Sound(h)
      BY <3>1, <3>2 DEF StackOK
    <3>4. PICK p \in Queries : p = h.query
      BY FrameTypes
    <3>5. ~Ran(p)
      BY <3>1, <3>3, <3>4 DEF Sound, SoundJob
    <3>6. p # q
      <4>1. Len(stack[w]) \in 1 .. Len(stack[w]) /\ stack[w][Len(stack[w])] = f /\ Len(stack[w]) \in Nat
        BY <1>1, <1>2, TopFrame
      <4>2. k \in 1 .. Len(stack[v]) /\ stack[v][k] = h
        BY <3>1
      <4>3. SUFFICES ASSUME p = q PROVE FALSE
        OBVIOUS
      <4>4. w = v /\ Len(stack[w]) = k
        <5>1. PICK n \in 1 .. Len(stack[w]) : n = Len(stack[w])
          BY <4>1
        <5>2. stack[w][n].op = "job" /\ stack[v][k].op = "job" /\ stack[w][n].query = stack[v][k].query
          BY <1>2, <1>4, <3>1, <3>4, <4>1, <4>2, <4>3, <5>1
        <5> QED
          BY <4>2, <5>1, <5>2, JobOnce
      <4> QED
        BY <4>1, <4>4
    <3>7. ~Ran(p)'
      BY <2>7, <3>5, <3>6
    <3> QED
      BY <3>1, <3>4, <3>7
  <2>12. PICK t \in Seq(Frames) : /\ Restacked(w, t) /\ Above(stack[w], t)
                                  /\ Len(t) = Len(stack[w]) /\ t[Len(stack[w])] = g
    <3>1. DTyped
      BY DEF DInv
    <3> QED
      BY <1>2, <1>15, <2>9, <3>1, BecomeShape
  <2>13. Frame(w) = stack[w][Len(stack[w])] /\ Len(stack[w]) \in Nat \ {0} /\ ret[w] \in Nat
    BY <1>2, TopFrame
  <2>14. Evolves(f, g)
    BY <1>2, <1>4, <2>9 DEF Evolves
  <2>15. MoveTo(stack[w], t)
    BY <1>1, <2>12, <2>13, <2>14 DEF MoveTo, Above
  <2>16. SameJob(stack[w], t)
    BY <1>1, <1>2, <2>9, <2>12, <2>13 DEF SameJob
  <2>17. \A k \in Len(stack[w]) .. Len(t) : \A h \in Frames : h = t[k] => Sound(h)'
    BY <2>10, <2>12, <2>13
  <2>18. PICK u \in Nat : u = ret[w]
    BY <2>13
  <2>19. Answered(t[Len(t)], u)'
    BY <2>10, <2>12
  <2>20. ret' = [ret EXCEPT ![w] = u]
    BY <1>13, <2>18 DEF DInv, DTyped
  <2> QED
    BY <1>2, <1>12, <1>13, <2>3, <2>6, <2>11, <2>12, <2>15, <2>16, <2>17, <2>19, <2>20, MovedWriting
<1> QED
  BY <1>17, <1>18

\* promote_node_and_deps_to_current: all dependencies are green, so the query has
\* the result and the dependencies that it had.
LEMMA PromoteKeeps ==
  ASSUME DInv, NEW w \in Workers, promote(w), UNCHANGED <<setup, prev, clean>>
  PROVE  DInv'
<1>1. PICK f : f = Frame(w)
  OBVIOUS
<1>2. stack[w] # <<>> /\ f.op = "mark" /\ f.pc = "look" /\ ~Visiting(f) /\ ~panicked
  BY <1>1 DEF promote, Top
<1>3. /\ f \in Frames /\ f \in MarkFrame /\ SoundMark(f)
      /\ \A k \in 1 .. Len(f.edges) : Unchanged(PrevReads(f.query)[k])
  BY <1>1, <1>2, MarkFacts
<1>4. PICK q \in Queries \ EvalAlways : q = f.query /\ q \in clean.nodes /\ q \in prev.nodes
  BY <1>1, <1>2, MarkFacts
<1>5. Session /\ MemoryInv(q) /\ q \in Queries
  BY DEF DInv
<1>6. /\ f.edges \in Seq(Nat) /\ Len(f.edges) \in 0 .. Len(PrevReads(f.query))
      /\ Len(PrevReads(f.query)) \in Nat
      /\ \A k \in 1 .. Len(PrevReads(f.query)) : PrevReads(f.query)[k] \in Queries
      /\ Visiting(f) <=> Len(f.edges) < Len(PrevReads(f.query))
  BY <1>3, <1>5, EdgeTypes
<1>7. Len(f.edges) = Len(PrevReads(q))
  BY <1>2, <1>4, <1>6
<1>8. Unchanged(q) /\ clean.run[q].reads = PrevReads(q)
  <2>1. PICK k \in 0 .. Len(PrevReads(q)) : k = Len(PrevReads(q))
    BY <1>4, <1>6
  <2>2. \A i \in 1 .. k : Unchanged(PrevReads(q)[i])
    BY <1>3, <1>4, <1>7, <2>1
  <2> QED
    BY <1>5, <2>1, <2>2, SessionPrefix
<1>9. Names(f.edges, clean.run[q].reads)
  <2>1. ASSUME NEW k \in 1 .. Len(f.edges) PROVE Written(f.edges[k], PrevReads(q)[k])
    <3>1. PICK d \in Queries : d = PrevReads(q)[k]
      BY <1>4, <1>6
    <3>2. Green(d) /\ f.edges[k] = color[d]
      BY <1>3, <1>4, <3>1 DEF SoundMark
    <3>3. MemoryInv(d)
      BY DEF DInv
    <3>4. Written(color[d], d)
      BY <3>2, <3>3 DEF MemoryInv
    <3> QED
      BY <3>1, <3>2, <3>4
  <2> QED
    BY <1>7, <1>8, <2>1 DEF Names
<1>10. PICK hash \in Values \cup {ZERO} : hash = fingerprint(f.query, prev.run[f.query].value)
  BY <1>4, <1>5, SessionRuns DEF fingerprint
<1>11. hash = fingerprint(q, Value(q))
  BY <1>4, <1>8, <1>10 DEF Unchanged, Value
<1>12. /\ UNCHANGED <<cache, active, panicked, asked>>
       /\ Return(w) /\ ret' = [ret EXCEPT ![w] = IF color'[q] = Red THEN Failed ELSE color'[q]]
       /\ try_set_color(q, TRUE, f.edges, hash)
  BY <1>1, <1>4, <1>10 DEF promote, Answer
<1>13. \A e \in Frames : Calls(e, f) => /\ e.pc = "marked" /\ Target(e) = q
                                       /\ ~(e.op = "mark" /\ e.pc = "forced")
  BY <1>2, <1>4 DEF Calls, Target
<1>14. CASE color[q] # Unknown
  <2>1. UNCHANGED <<color, encoded>>
    BY <1>12, <1>14 DEF try_set_color
  <2>2. MemorySame
    BY <1>2, <1>12, <2>1 DEF MemorySame, Remembers
  <2>3. PICK u \in Nat : u = IF color[q] = Red THEN Failed ELSE color[q]
    BY <1>5 DEF DInv, DTyped, Failed
  <2>4. ret' = [ret EXCEPT ![w] = u]
    BY <1>12, <2>1, <2>3
  <2>5. \A e \in Frames : Calls(e, f) => Answered(e, u)
    BY <1>13, <1>14, <2>3 DEF Answered, Green
  <2> QED
    BY <1>1, <1>2, <1>12, <2>2, <2>4, <2>5, Returns
<1>15. CASE color[q] = Unknown
  <2>1. PICK e \in Node : e = [node |-> q, edges |-> f.edges, hash |-> hash]
    BY <1>5, <1>6 DEF Node
  <2>2. PICK c \in Nat : c = Len(encoded) + 1
    BY LenProperties DEF DInv, DTyped
  <2>3. Writes(q, e, c)
    <3>1. encoded \in Seq(Node)
      BY DEF DInv, DTyped, Node
    <3>2. encoded' = Append(encoded, e)
      BY <1>12, <1>15, <2>1 DEF try_set_color
    <3>3. Len(encoded') = c
      BY <2>2, <3>1, <3>2, AppendProperties
    <3>4. color' = [color EXCEPT ![q] = c]
      BY <1>12, <1>15, <3>3 DEF try_set_color, bump_index
    <3> QED
      BY <1>12, <3>2, <3>4 DEF Writes
  <2>4. MayWrite(q, e, c)
    <3>1. e.node = q /\ e.edges = f.edges /\ e.hash = hash
      BY <2>1
    <3>2. ~ \E k \in DOMAIN encoded : encoded[k].node = q
      BY <1>4, <1>5, <1>15 DEF MemoryInv
    <3> QED
      BY <1>4, <1>8, <1>9, <1>11, <1>15, <2>2, <3>1, <3>2 DEF MayWrite
  <2>5. /\ \A p \in Queries : Ran(p)' => Ran(p) \/ (p = q /\ c \in {Red, Unknown})
        /\ color'[q] = c
    BY <1>5, <2>3, <2>4, Writing
  <2>6. c # Unknown /\ c # Red
    <3>1. Len(encoded) \in Nat
      BY LenProperties DEF DInv, DTyped
    <3> QED
      BY <2>2, <3>1, DepAssumption DEF Unknown
  <2>7. OthersQuiet(w)
    BY <2>5, <2>6, QuietSame
  <2>8. ret' = [ret EXCEPT ![w] = c]
    BY <1>12, <2>5, <2>6
  <2>9. DTyped
    BY DEF DInv
  <2>10. PICK t \in Seq(Frames) : /\ Restacked(w, t) /\ Above(stack[w], t)
                                  /\ Len(t) = Len(stack[w]) - 1
    BY <1>2, <1>12, <2>9, ReturnShape
  <2>11. PICK s \in Seq(Frames) : s = stack[w]
    BY <1>2, TopFrame
  <2>12. PICK n \in Nat \ {0} : n = Len(s) /\ n - 1 = Len(t) /\ s[n] = f
    BY <1>1, <1>2, <2>10, <2>11, TopFrame
  <2>13. MoveTo(stack[w], t) /\ SameJob(stack[w], t)
    BY <1>2, <2>10, <2>11, <2>12 DEF MoveTo, Above, SameJob
  <2>14. \A i \in Len(stack[w]) .. Len(t) : \A h \in Frames : h = t[i] => Sound(h)'
    BY <2>11, <2>12
  <2>15. ASSUME Len(t) > 0 PROVE Answered(t[Len(t)], c)'
    <3>1. n - 1 \in 1 .. Len(s) - 1 /\ n - 1 \in 1 .. Len(s) /\ (n - 1) + 1 = n
      BY <2>12, <2>15
    <3>2. PICK h \in Frames : h = s[n - 1]
      BY <3>1, ElementOfSeq
    <3>3. t[Len(t)] = h
      BY <2>10, <2>11, <2>12, <3>1, <3>2 DEF Above
    <3>4. StackOK(s, ret[w])
      BY <2>11 DEF DInv
    <3>5. Calls(h, f)
      BY <2>12, <3>1, <3>2, <3>4 DEF StackOK
    <3>6. h.pc = "marked" /\ Target(h) = q
      BY <1>13, <3>5
    <3>7. Target(h)' = Target(h)
      BY DEF Target, Edge
    <3>8. Green(q)' /\ color'[q] = c
      BY <2>5, <2>6 DEF Green
    <3>9. Answered(h, c)'
      BY <3>6, <3>7, <3>8 DEF Answered
    <3> QED
      BY <3>3, <3>9
  <2>16. ~panicked' /\ UNCHANGED asked
    BY <1>2, <1>12
  <2> QED
    BY <1>2, <1>5, <2>16, <2>3, <2>4, <2>7, <2>8, <2>10, <2>13, <2>14, <2>15, MovedWriting
<1> QED
  BY <1>14, <1>15

-----------------------------------------------------------------------------
(* The theorems. *)

\* The invariant holds before anything is asked.
LEMMA DInitInv == DepInit => DInv
<1> SUFFICES ASSUME DepInit PROVE DInv
  OBVIOUS
<1>1. Session /\ ~panicked
  BY DEF DepInit, Session
<1>2. DTyped
  BY DEF DepInit, DTyped, Unknown, Nobody, Failed, Vacant
<1>3. \A w \in Workers : StackOK(stack[w], ret[w])
  <2> SUFFICES ASSUME NEW w \in Workers PROVE StackOK(stack[w], ret[w])
    OBVIOUS
  <2>1. stack[w] = <<>>
    BY DEF DepInit
  <2>2. StackOK(<<>>, ret[w])
    BY DEF StackOK, Ordered
  <2> QED
    BY <2>1, <2>2
<1>4. JobsActive
  <2> SUFFICES ASSUME NEW q \in Queries, NEW w \in Workers PROVE active[q] # w /\ ~HasJob(stack[w], q)
    BY DEF JobsActive
  <2>1. stack[w] = <<>> /\ active[q] = Nobody
    BY DEF DepInit
  <2>2. ~HasJob(<<>>, q)
    BY DEF HasJob
  <2> QED
    BY <2>1, <2>2, DepAssumption
<1>5. encoded = <<>> /\ DOMAIN encoded = {}
  BY DEF DepInit
<1>6. NodesExact
  BY <1>5 DEF NodesExact
<1>7. ASSUME NEW q \in Queries PROVE MemoryInv(q)
  <2>1. color[q] = Unknown /\ cache[q] = Vacant /\ active[q] = Nobody
    BY DEF DepInit
  <2>2. Unknown # Red
    BY DepAssumption DEF Unknown
  <2> QED
    BY <1>5, <2>1, <2>2 DEF MemoryInv, Green, Ran
<1> QED
  BY <1>1, <1>2, <1>3, <1>4, <1>6, <1>7 DEF DInv

\* The invariant is about the variables of the model.
LEMMA Stutter ==
  ASSUME DInv, UNCHANGED DepVars
  PROVE  DInv'
<1>1. Remembers /\ UNCHANGED <<stack, ret, asked>>
  BY DEF DInv, DepVars, memory, Remembers
<1>2. Grow /\ NodesExact' /\ (\A q \in Queries : MemoryInv(q)') /\ \A q : Ran(q)' <=> Ran(q)
  BY <1>1, SameGrows
<1>3. Session /\ Session' /\ ~panicked' /\ DTyped' /\ JobsActive'
  BY <1>1 DEF DInv, Session, Remembers, DTyped, JobsActive, HasJob
<1>4. ASSUME NEW v \in Workers PROVE StackOK(stack[v], ret[v])'
  <2>1. PICK s \in Seq(Frames) : s = stack[v]
    BY DEF DInv, DTyped
  <2>2. PICK r : r = ret[v]
    OBVIOUS
  <2>3. PICK w : w = Nobody /\ w # v
    BY DepAssumption
  <2>4. OthersQuiet(w)
    BY <1>2, QuietSame
  <2>5. Quiet(s, Len(s))'
    BY <2>1, <2>3, <2>4 DEF OthersQuiet, Quiet
  <2>6. StackOK(s, r)
    BY <2>1, <2>2 DEF DInv
  <2>7. StackOK(s, r)'
    BY <1>2, <1>3, <2>5, <2>6, StackKept
  <2> QED
    BY <1>1, <2>1, <2>2, <2>7
<1> QED
  BY <1>2, <1>3, <1>4 DEF DInv

\* Every step of every worker keeps the invariant.
LEMMA DNextInv ==
  ASSUME DInv, [DepNext]_DepVars
  PROVE  DInv'
<1>1. CASE DepNext
  <2>1. PICK w \in Workers : WorkerStep(w)
    BY <1>1 DEF DepNext
  <2>2. UNCHANGED <<setup, prev, clean>>
    BY <2>1 DEF WorkerStep
  <2>3. CASE execute_query_incr_inner(w)
    BY <2>2, <2>3, AskKeeps
  <2>4. CASE ensure_can_skip_execution(w)
    BY <2>2, <2>4, EnsureKeeps
  <2>5. CASE try_execute_query(w)
    BY <2>2, <2>5, CallKeeps
  <2>6. CASE execute_job_incr(w)
    BY <2>2, <2>6, ExecuteKeeps
  <2>7. CASE invoke_provider_fn(w)
    BY <2>2, <2>7, InvokeKeeps
  <2>8. CASE alloc_and_color_node(w)
    BY <2>2, <2>8, AllocKeeps
  <2>9. CASE incremental_verify_ich(w)
    BY <2>2, <2>9, VerifyKeeps
  <2>10. CASE complete(w)
    BY <2>2, <2>10, CompleteKeeps
  <2>11. CASE look(w)
    BY <2>2, <2>11, LookKeeps
  <2>12. CASE look_marked(w)
    BY <2>2, <2>12, LookMarkedKeeps
  <2>13. CASE look_forced(w)
    BY <2>2, <2>13, LookForcedKeeps
  <2>14. CASE promote(w)
    BY <2>2, <2>14, PromoteKeeps
  <2> QED
    BY <2>1, <2>3, <2>4, <2>5, <2>6, <2>7, <2>8, <2>9, <2>10, <2>11, <2>12, <2>13, <2>14 DEF WorkerStep
<1>2. CASE UNCHANGED DepVars
  BY <1>2, Stutter
<1> QED
  BY <1>1, <1>2

\* The inductive invariant.
THEOREM DepInvariant == DepSpec => []DInv
<1>1. DepInit => DInv
  BY DInitInv
<1>2. DInv /\ [DepNext]_DepVars => DInv'
  BY DNextInv
<1> QED
  BY <1>1, <1>2, PTL DEF DepSpec

\* Every cached result is that of a clean build.
THEOREM CachedResultsClean == DepSpec => []ResultsClean
<1>1. DInv => ResultsClean
  BY DEF DInv, MemoryInv, ResultsClean, GreenUnchanged, Unchanged, Value
<1> QED
  BY <1>1, DepInvariant, PTL

\* No query runs that a clean build does not run.
THEOREM RunsOnlyNeeded == DepSpec => []OnlyNeededRun
<1>1. ASSUME DInv, NEW q \in Queries, active[q] # Nobody PROVE q \in clean.nodes
  <2>1. PICK w \in Workers : active[q] = w
    BY <1>1 DEF DInv, DTyped
  <2>2. PICK i \in 1 .. Len(stack[w]) : stack[w][i].op = "job" /\ stack[w][i].query = q
    BY <1>1, <2>1 DEF DInv, JobsActive, HasJob
  <2>3. PICK f : f = stack[w][i]
    OBVIOUS
  <2>4. Sound(f)
    BY <1>1, <2>3 DEF DInv, StackOK
  <2> QED
    BY <2>2, <2>3, <2>4 DEF Sound
<1>2. DInv => OnlyNeededRun
  BY <1>1 DEF OnlyNeededRun
<1> QED
  BY <1>2, DepInvariant, PTL

\* The invariant implies the type invariant.
LEMMA DTypeInv ==
  ASSUME DInv
  PROVE  DepTypeOK
<1>1. encoded \in Seq([node : Queries, edges : Seq(Nat), hash : Values \cup {ZERO}])
  BY DEF DInv, DTyped
<1>2. DOMAIN encoded = 1 .. Len(encoded) /\ Len(encoded) \in Nat
  BY <1>1, LenProperties
<1>3. \A q \in Queries : Green(q) => Written(color[q], q)
  BY DEF DInv, MemoryInv
<1>4. color \in [Queries -> 0 .. Len(encoded) \cup {Red}]
  <2>1. color \in [Queries -> Nat \cup {Red}]
    BY DEF DInv, DTyped
  <2>2. ASSUME NEW q \in Queries PROVE color[q] \in 0 .. Len(encoded) \cup {Red}
    <3>1. CASE Green(q)
      BY <1>2, <1>3, <3>1 DEF Written
    <3>2. CASE ~Green(q)
      <4>1. color[q] = Unknown \/ color[q] = Red
        BY <3>2 DEF Green
      <4>2. Unknown \in 0 .. Len(encoded)
        BY <1>2 DEF Unknown
      <4> QED
        BY <4>1, <4>2
    <3> QED
      BY <3>1, <3>2
  <2> QED
    BY <2>1, <2>2
<1>5. \A q \in Queries : cache[q] # Vacant => Written(cache[q].index, q)
  BY DEF DInv, MemoryInv
<1>6. ASSUME NEW q \in Queries, NEW w \in Workers
      PROVE  active[q] = w <=> \E i \in DOMAIN stack[w] : stack[w][i].op = "job" /\ stack[w][i].query = q
  <2>1. stack[w] \in Seq(Frames)
    BY DEF DInv, DTyped
  <2>2. DOMAIN stack[w] = 1 .. Len(stack[w])
    BY <2>1, LenProperties
  <2> QED
    BY <2>2 DEF DInv, JobsActive, HasJob
<1> QED
  BY <1>3, <1>4, <1>5, <1>6 DEF DepTypeOK

\* The new graph is that of a clean build.
THEOREM GraphIsExact == DepSpec => []GraphExact
<1>1. ASSUME DInv PROVE GraphExact
  <2>1. DepTypeOK
    BY <1>1, DTypeInv
  <2>2. \A i, j \in DOMAIN encoded : encoded[i].node = encoded[j].node => i = j
    BY <1>1 DEF DInv, NodesExact
  <2>3. ASSUME NEW i \in DOMAIN encoded
        PROVE  LET e == encoded[i]
                   run == clean.run[e.node] IN
               /\ e.hash = fingerprint(e.node, run.value)
               /\ [k \in DOMAIN e.edges |-> encoded[e.edges[k]].node] = run.reads
    <3>1. PICK e \in Node : e = encoded[i]
      BY <1>1, ElementOfSeq, LenProperties DEF DInv, DTyped, Node
    <3>2. e.hash = fingerprint(e.node, Value(e.node)) /\ Names(e.edges, clean.run[e.node].reads)
      BY <1>1, <3>1 DEF DInv, NodesExact
    <3>3. PICK q \in Queries : q = e.node
      BY DEF Node
    <3>4. PICK r \in Seq(1 .. q - 1) : r = clean.run[q].reads
      BY <1>1, SessionNodes DEF DInv
    <3>5. PICK s \in Seq(Nat) : s = e.edges
      BY DEF Node
    <3>6. DOMAIN r = 1 .. Len(r) /\ r = [k \in DOMAIN r |-> r[k]] /\ DOMAIN s = 1 .. Len(s)
      BY LenProperties
    <3>7. Len(s) = Len(r) /\ \A k \in 1 .. Len(s) : encoded[s[k]].node = r[k]
      BY <3>2, <3>3, <3>4, <3>5 DEF Names, Written
    <3>8. [k \in DOMAIN s |-> encoded[s[k]].node] = r
      BY <3>6, <3>7
    <3> QED
      BY <3>1, <3>2, <3>3, <3>4, <3>5, <3>8 DEF Value
  <2> QED
    BY <2>1, <2>2, <2>3 DEF GraphExact
<1> QED
  BY <1>1, DepInvariant, PTL

\* A worker that waits for another one's job.
WaitsFor(w) == Top(w, "call") /\ cache[Frame(w).query] = Vacant /\ active[Frame(w).query] # Nobody

\* Whoever waits, waits for a worker that asks for a smaller query, or for none.
LEMMA WaitsForSmaller ==
  ASSUME DInv, NEW w \in Workers, WaitsFor(w)
  PROVE  \E v \in Workers : /\ stack[v] # <<>>
                            /\ WaitsFor(v) => Frame(v).query < Frame(w).query
<1>1. PICK f \in Frames : f = Frame(w)
  BY TopFrame DEF WaitsFor, Top
<1>2. PICK q \in Queries : q = f.query
  BY FrameTypes
<1>3. PICK v \in Workers : active[q] = v
  BY <1>1, <1>2 DEF WaitsFor, DInv, DTyped
<1>4. PICK s \in Seq(Frames) : s = stack[v]
  BY DEF DInv, DTyped
<1>5. PICK i \in 1 .. Len(s) : s[i].op = "job" /\ s[i].query = q
  BY <1>3, <1>4 DEF DInv, JobsActive, HasJob
<1>6. Len(s) \in Nat /\ stack[v] # <<>>
  BY <1>4, <1>5, LenProperties
<1>7. ASSUME WaitsFor(v) PROVE Frame(v).query < q
  <2>1. Frame(v) = s[Len(s)] /\ s[Len(s)].op = "call"
    BY <1>4, <1>6, <1>7, TopFrame DEF WaitsFor, Top
  <2>2. i < Len(s) /\ Len(s) \in 1 .. Len(s)
    BY <1>5, <1>6, <2>1
  <2>3. Ordered(s)
    BY <1>4 DEF DInv, StackOK
  <2> QED
    BY <1>5, <2>1, <2>2, <2>3 DEF Ordered
<1> QED
  BY <1>1, <1>2, <1>6, <1>7

\* Some worker with an open question does not wait, and no assertion fails.
THEOREM NobodyGetsStuck == DepSpec => []NobodyStuck
<1>1. ASSUME DInv, NEW u \in Workers, stack[u] # <<>>,
             \A w \in Workers : stack[w] # <<>> => WaitsFor(w)
      PROVE  FALSE
  <2> DEFINE Asked == {Frame(w).query : w \in {x \in Workers : stack[x] # <<>>}}
  <2>1. Asked \subseteq Nat
    BY <1>1, TopFrame, FrameTypes
  <2>2. Asked # {}
    BY <1>1
  <2>3. PICK m \in Asked : \A t \in Asked : m <= t
    BY <2>1, <2>2, LeastNat
  <2>4. PICK w \in Workers : stack[w] # <<>> /\ Frame(w).query = m
    BY <2>3
  <2>5. PICK v \in Workers : stack[v] # <<>> /\ (WaitsFor(v) => Frame(v).query < Frame(w).query)
    BY <1>1, <2>4, WaitsForSmaller
  <2>6. Frame(v).query \in Asked /\ Frame(v).query < m
    BY <1>1, <2>4, <2>5
  <2> HIDE DEF Asked
  <2>7. Frame(v).query \in Nat /\ m \in Nat /\ m <= Frame(v).query
    BY <2>1, <2>3, <2>6
  <2> QED
    BY <2>6, <2>7
<1>2. DInv => NobodyStuck
  <2> SUFFICES ASSUME DInv PROVE NobodyStuck
    OBVIOUS
  <2>1. ~panicked
    BY DEF DInv
  <2> DEFINE open == {w \in Workers : stack[w] # <<>>}
  <2>2. open # {} => \E w \in open : ~WaitsFor(w)
    BY <1>1
  <2> QED
    BY <2>1, <2>2 DEF NobodyStuck, WaitsFor
<1> QED
  BY <1>2, DepInvariant, PTL

\* What the memory holds is final: a color, a node of the new graph, a result.
MemoryFinal ==
  /\ \A q \in Queries : /\ color[q] # Unknown => color'[q] = color[q]
                        /\ cache[q] # Vacant => cache'[q] = cache[q]
  /\ \A i \in DOMAIN encoded : i \in DOMAIN encoded' /\ encoded'[i] = encoded[i]

\* try_set_color leaves a node that has a color, and appends to the graph.
LEMMA ColorOnce ==
  ASSUME DTyped, NEW q \in Queries, NEW green, NEW edges, NEW hash, UNCHANGED cache,
         \/ try_set_color(q, green, edges, hash)
         \/ UNCHANGED color /\ encoded' = Append(encoded, [node |-> q, edges |-> edges, hash |-> hash])
  PROVE  MemoryFinal
<1>1. \A p \in Queries : color[p] # Unknown => color'[p] = color[p]
  BY DEF try_set_color, DTyped
<1>2. UNCHANGED encoded \/ encoded' = Append(encoded, [node |-> q, edges |-> edges, hash |-> hash])
  BY DEF try_set_color
<1>3. ASSUME NEW i \in DOMAIN encoded PROVE i \in DOMAIN encoded' /\ encoded'[i] = encoded[i]
  <2>2. PICK e : e = [node |-> q, edges |-> edges, hash |-> hash]
    OBVIOUS
  <2> DEFINE S == Node \cup {e}
  <2>1. encoded \in Seq(S) /\ e \in S
    <3>1. encoded \in Seq(Node)
      BY DEF DTyped, Node
    <3>2. PICK n \in Nat : n = Len(encoded) /\ encoded \in [1 .. n -> Node]
      BY <3>1, LenProperties
    <3>3. encoded \in [1 .. n -> S]
      BY <3>2
    <3> QED
      BY <3>3
  <2> HIDE DEF S
  <2>3. DOMAIN encoded = 1 .. Len(encoded) /\ Len(encoded) \in Nat
    BY <2>1, LenProperties
  <2>4. CASE encoded' = Append(encoded, e)
    <3>1. encoded' \in Seq(S) /\ Len(encoded') = Len(encoded) + 1
      BY <2>1, <2>4, AppendProperties
    <3>2. DOMAIN encoded' = 1 .. Len(encoded) + 1
      BY <3>1, LenProperties
    <3>3. encoded'[i] = encoded[i]
      BY <2>1, <2>3, <2>4, AppendProperties
    <3> QED
      BY <2>3, <3>2, <3>3
  <2> QED
    BY <1>2, <2>2, <2>4
<1> QED
  BY <1>1, <1>3 DEF MemoryFinal

\* A job that completes when its query has a result has computed the same one,
\* and has the same node.
LEMMA CompleteFinal ==
  ASSUME DInv, NEW w \in Workers, complete(w)
  PROVE  MemoryFinal
<1>1. PICK f : f = Frame(w)
  OBVIOUS
<1>2. /\ stack[w] # <<>> /\ f.op = "job" /\ f.pc = "complete"
      /\ cache' = [cache EXCEPT ![f.query] = [value |-> f.value, index |-> f.index]]
      /\ UNCHANGED <<color, encoded>>
  BY <1>1 DEF complete, Top
<1>3. f \in Frames /\ f \in JobFrame /\ Sound(f) /\ SoundJob(f)
  BY <1>1, <1>2, TopFrame, FrameTypes DEF Sound
<1>4. PICK q \in Queries : q = f.query
  BY <1>3, FrameTypes
<1>5. f.value = Value(q) /\ Written(f.index, q)
  BY <1>2, <1>3, <1>4 DEF SoundJob
<1>6. ASSUME cache[q] # Vacant PROVE cache[q] = [value |-> f.value, index |-> f.index]
  <2>1. cache[q].value = Value(q) /\ Written(cache[q].index, q)
    BY <1>6 DEF DInv, MemoryInv
  <2>2. cache[q].index = f.index
    BY <1>5, <2>1 DEF DInv, NodesExact, Written
  <2>3. cache[q] \in [value : Values \cup {0}, index : Nat]
    BY DEF DInv, DTyped, Vacant
  <2> QED
    BY <1>5, <2>1, <2>2, <2>3
<1>7. \A p \in Queries : cache[p] # Vacant => cache'[p] = cache[p]
  BY <1>2, <1>4, <1>6 DEF DInv, DTyped
<1> QED
  BY <1>2, <1>7 DEF MemoryFinal

\* Every step leaves what is known as it is.
LEMMA StepFinal ==
  ASSUME DInv, [DepNext]_DepVars
  PROVE  MemoryFinal
<1>1. ASSUME UNCHANGED <<color, encoded, cache>> PROVE MemoryFinal
  BY <1>1 DEF MemoryFinal
<1>2. CASE UNCHANGED DepVars
  BY <1>1, <1>2 DEF DepVars, memory
<1>3. CASE DepNext
  <2>1. PICK w \in Workers : WorkerStep(w)
    BY <1>3 DEF DepNext
  <2>2. CASE alloc_and_color_node(w)
    <3>1. PICK f : f = Frame(w)
      OBVIOUS
    <3>2. /\ stack[w] # <<>> /\ f.op = "job" /\ UNCHANGED cache
      BY <2>2, <3>1 DEF alloc_and_color_node, Top
    <3>3. f.query \in Queries
      BY <3>1, <3>2, TopFrame, FrameTypes
    <3>4. PICK hash : hash = fingerprint(f.query, Result(setup.now, f.query, f.vals))
      OBVIOUS
    <3>5. \/ try_set_color(f.query, is_green(f.query, hash), f.reads, hash)
          \/ /\ UNCHANGED color
             /\ encoded' = Append(encoded, [node |-> f.query, edges |-> f.reads, hash |-> hash])
      BY <2>2, <3>1, <3>4 DEF alloc_and_color_node
    <3> QED
      BY <3>2, <3>3, <3>5, ColorOnce DEF DInv
  <2>3. CASE promote(w)
    <3>1. PICK f : f = Frame(w)
      OBVIOUS
    <3>2. /\ stack[w] # <<>> /\ f.op = "mark" /\ UNCHANGED cache
      BY <2>3, <3>1 DEF promote, Top
    <3>3. f.query \in Queries
      BY <3>1, <3>2, TopFrame, FrameTypes
    <3>4. PICK hash : hash = fingerprint(f.query, prev.run[f.query].value)
      OBVIOUS
    <3>5. try_set_color(f.query, TRUE, f.edges, hash)
      BY <2>3, <3>1, <3>4 DEF promote
    <3> QED
      BY <3>2, <3>3, <3>5, ColorOnce DEF DInv
  <2>4. CASE complete(w)
    BY <2>4, CompleteFinal
  <2>5. CASE execute_query_incr_inner(w) \/ invoke_provider_fn(w) \/ look(w) \/ look_marked(w)
    BY <1>1, <2>5 DEF execute_query_incr_inner, invoke_provider_fn, look, look_marked, memory
  <2>6. CASE ensure_can_skip_execution(w) \/ execute_job_incr(w)
    BY <1>1, <2>6 DEF ensure_can_skip_execution, execute_job_incr
  <2>7. CASE incremental_verify_ich(w) \/ look_forced(w)
    BY <1>1, <2>7 DEF incremental_verify_ich, look_forced
  <2>8. CASE try_execute_query(w)
    BY <1>1, <2>8 DEF try_execute_query, memory
  <2> QED
    BY <2>1, <2>2, <2>3, <2>4, <2>5, <2>6, <2>7, <2>8 DEF WorkerStep
<1> QED
  BY <1>2, <1>3

\* A color, a node of the new graph and a cached result are never replaced,
\* although two workers may mark and run the same query.
THEOREM MemoryIsFinal == DepSpec => [][MemoryFinal]_DepVars
<1>1. DInv /\ [DepNext]_DepVars => [MemoryFinal]_DepVars
  BY StepFinal
<1> QED
  BY <1>1, DepInvariant, PTL DEF DepSpec

=============================================================================

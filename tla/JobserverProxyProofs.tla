------------------------ MODULE JobserverProxyProofs ------------------------
(***************************************************************************)
(* Proofs about JobserverProxy, for every finite set of threads and every  *)
(* number of tokens.  The three invariants of the runs are inductive only  *)
(* together: release_thread's `used - 1` needs UsedByWorkers,              *)
(* acquire_thread's test of `used` needs WaitersHaveSource, and the        *)
(* hand-over to the head of the queue needs that no thread waits twice.    *)
(***************************************************************************)
EXTENDS JobserverProxy, FiniteSetTheorems, TLAPS

Locs == {"idle", "wait", "work", "release_raw"}

\* The set At(loc), of given program counters.
AtOf(p, loc) == {t \in Threads : p[t] = loc}

WaitsOnce == \A i, j \in DOMAIN waiting : waiting[i] = waiting[j] => i = j

Inv ==
  /\ TypeOK
  /\ TokensConserved
  /\ UsedByWorkers
  /\ WaitersHaveSource
  /\ WaitsOnce

-----------------------------------------------------------------------------
\* A number of threads is a natural number.
LEMMA CountType ==
  ASSUME NEW p, NEW loc
  PROVE  Cardinality(AtOf(p, loc)) \in Nat
<1>1. AtOf(p, loc) \subseteq Threads
  BY DEF AtOf
<1>2. IsFiniteSet(AtOf(p, loc))
  BY <1>1, FS_Subset, ConstantsAssumption
<1> QED
  BY <1>2, FS_CardinalityType

\* One thread changes place: the threads at loc grow by one if it arrives
\* there and shrink by one if it was there.
LEMMA CountMove ==
  ASSUME NEW p, NEW q, NEW loc, NEW t \in Threads,
         \A s \in Threads \ {t} : q[s] = p[s]
  PROVE  Cardinality(AtOf(q, loc)) + (IF p[t] = loc THEN 1 ELSE 0)
           = Cardinality(AtOf(p, loc)) + (IF q[t] = loc THEN 1 ELSE 0)
<1> DEFINE R == AtOf(p, loc) \ {t}
<1>1. R \subseteq Threads /\ t \notin R
  BY DEF AtOf
<1>2. IsFiniteSet(R)
  BY <1>1, FS_Subset, ConstantsAssumption
<1>3. Cardinality(R \cup {t}) = Cardinality(R) + 1 /\ Cardinality(R) \in Nat
  BY <1>1, <1>2, FS_AddElement, FS_CardinalityType
<1>4. AtOf(p, loc) = IF p[t] = loc THEN R \cup {t} ELSE R
  BY DEF AtOf
<1>5. AtOf(q, loc) = IF q[t] = loc THEN R \cup {t} ELSE R
  BY DEF AtOf
<1> HIDE DEF R
<1> QED
  BY <1>3, <1>4, <1>5

\* Taking the first thread out of the queue takes out that thread only.
LEMMA HeadLeaves ==
  ASSUME waiting \in Seq(Threads), waiting # <<>>, WaitsOnce
  PROVE  /\ Head(waiting) = waiting[1] /\ Head(waiting) \in Threads
         /\ Tail(waiting) \in Seq(Threads)
         /\ Len(waiting) \in Nat /\ Len(waiting) > 0
         /\ Len(Tail(waiting)) = Len(waiting) - 1
         /\ \A i, j \in DOMAIN Tail(waiting) :
              Tail(waiting)[i] = Tail(waiting)[j] => i = j
         /\ \A t \in Threads :
              (\E i \in DOMAIN Tail(waiting) : Tail(waiting)[i] = t)
                <=> (t # Head(waiting) /\ \E i \in DOMAIN waiting : waiting[i] = t)
<1> DEFINE n == Len(waiting)
           T == Tail(waiting)
<1>1. n \in Nat /\ n > 0 /\ DOMAIN waiting = 1 .. n /\ Head(waiting) = waiting[1]
  OBVIOUS
<1>2. T \in Seq(Threads) /\ Len(T) = n - 1 /\ DOMAIN T = 1 .. n - 1
  OBVIOUS
<1>3. \A i \in 1 .. n - 1 : T[i] = waiting[i + 1]
  BY <1>1
<1>4. Head(waiting) \in Threads
  BY <1>1
<1>5. \A i, j \in DOMAIN T : T[i] = T[j] => i = j
  BY <1>1, <1>2, <1>3 DEF WaitsOnce
<1>6. ASSUME NEW t \in Threads
      PROVE  (\E i \in DOMAIN T : T[i] = t)
               <=> (t # Head(waiting) /\ \E i \in DOMAIN waiting : waiting[i] = t)
  <2>1. ASSUME NEW i \in DOMAIN T, T[i] = t
        PROVE  t # Head(waiting) /\ \E k \in DOMAIN waiting : waiting[k] = t
    <3>1. i + 1 \in DOMAIN waiting /\ waiting[i + 1] = t /\ i + 1 # 1
      BY <1>1, <1>2, <1>3, <2>1
    <3>2. 1 \in DOMAIN waiting
      BY <1>1
    <3> QED
      BY <1>1, <3>1, <3>2 DEF WaitsOnce
  <2>2. ASSUME NEW i \in DOMAIN waiting, waiting[i] = t, t # Head(waiting)
        PROVE  \E k \in DOMAIN T : T[k] = t
    <3>1. i \in 2 .. n
      BY <1>1, <2>2
    <3>2. i - 1 \in DOMAIN T /\ T[i - 1] = t
      BY <1>1, <1>2, <1>3, <2>2, <3>1
    <3> QED
      BY <3>2
  <2> QED
    BY <2>1, <2>2
<1> QED
  BY <1>1, <1>2, <1>4, <1>5, <1>6

-----------------------------------------------------------------------------
\* The numbers that the invariants speak of, with one name for each.
LEMMA Counts ==
  ASSUME TypeOK
  PROVE  /\ Cardinality(AtOf(pc, "work")) \in Nat
         /\ Cardinality(AtOf(pc, "release_raw")) \in Nat
         /\ UsedByWorkers <=> used = Cardinality(AtOf(pc, "work"))
         /\ UsedByWorkers' <=> used' = Cardinality(AtOf(pc', "work"))
         /\ TokensConserved <=>
              pipe + others + (IF used = 0 THEN 0 ELSE used - 1)
                + (Cardinality(AtOf(pc, "release_raw")) + (IF helper = "idle" THEN 0 ELSE 1))
                = Tokens
         /\ TokensConserved' <=>
              pipe' + others' + (IF used' = 0 THEN 0 ELSE used' - 1)
                + (Cardinality(AtOf(pc', "release_raw")) + (IF helper' = "idle" THEN 0 ELSE 1))
                = Tokens
<1>1. At("work") = AtOf(pc, "work") /\ At("release_raw") = AtOf(pc, "release_raw")
  BY DEF At, AtOf
<1>2. At("work")' = AtOf(pc', "work") /\ At("release_raw")' = AtOf(pc', "release_raw")
  BY DEF At, AtOf
<1> QED
  BY <1>1, <1>2, CountType DEF UsedByWorkers, TokensConserved

\* The process starts with its implicit token, used by the main thread.
LEMMA InitInv == Init => Inv
<1> SUFFICES ASSUME Init PROVE Inv
  OBVIOUS
<1>1. AtOf(pc, "work") = {Main} /\ AtOf(pc, "release_raw") = {}
  BY ConstantsAssumption DEF Init, AtOf
<1>2. Cardinality(AtOf(pc, "work")) = 1 /\ Cardinality(AtOf(pc, "release_raw")) = 0
  BY <1>1, FS_Singleton, FS_EmptySet
<1>3. TypeOK
  BY ConstantsAssumption DEF Init, TypeOK
<1>4. pipe \in Nat /\ others = Tokens - pipe /\ Tokens \in Nat /\ used = 1 /\ helper = "idle"
  BY ConstantsAssumption DEF Init
<1>5. UsedByWorkers /\ TokensConserved
  BY <1>2, <1>3, <1>4, Counts
<1>6. WaitersHaveSource /\ WaitsOnce
  BY DEF Init, WaitersHaveSource, WaitsOnce
<1> QED
  BY <1>3, <1>5, <1>6 DEF Inv

\* The queue part of the invariant follows from the queue and the program
\* counters of the threads that wait.
LEMMA QueueKept ==
  ASSUME Inv, UNCHANGED <<pending, waiting>>,
         \A t \in Threads : pc'[t] = "wait" <=> pc[t] = "wait",
         pending > 0 => used' > 0
  PROVE  WaitersHaveSource' /\ WaitsOnce'
BY DEF Inv, TypeOK, WaitersHaveSource, WaitsOnce

\* notify_one: the first thread of the queue, and no other, comes to work.
LEMMA NotifyStep ==
  ASSUME Inv, pending > 0, NEW p, NotifyOne(p), pending' = pending - 1, used' > 0,
         p \in [Threads -> Locs],
         \A t \in Threads : p[t] = "wait" <=> pc[t] = "wait"
  PROVE  /\ pc' \in [Threads -> Locs] /\ waiting' \in Seq(Threads) /\ pending' \in Nat
         /\ WaitersHaveSource' /\ WaitsOnce'
         /\ Cardinality(AtOf(pc', "work")) = Cardinality(AtOf(p, "work")) + 1
         /\ Cardinality(AtOf(pc', "release_raw")) = Cardinality(AtOf(p, "release_raw"))
<1> DEFINE h == Head(waiting)
<1>1. waiting \in Seq(Threads) /\ waiting # <<>> /\ WaitsOnce /\ pending = Len(waiting)
  BY DEF Inv, TypeOK, WaitersHaveSource
<1>2. pc' = [p EXCEPT ![h] = "work"] /\ waiting' = Tail(waiting)
  BY <1>1 DEF NotifyOne
<1>3. /\ h \in Threads /\ h = waiting[1] /\ Len(waiting) \in Nat /\ Len(waiting) > 0
      /\ waiting' \in Seq(Threads) /\ Len(waiting') = Len(waiting) - 1
  BY <1>1, <1>2, HeadLeaves
<1>4. /\ \A i, j \in DOMAIN waiting' : waiting'[i] = waiting'[j] => i = j
      /\ \A t \in Threads : (\E i \in DOMAIN waiting' : waiting'[i] = t)
           <=> (t # h /\ \E i \in DOMAIN waiting : waiting[i] = t)
  BY <1>1, <1>2, HeadLeaves
<1>5. p[h] = "wait"
  <2>1. 1 \in DOMAIN waiting
    BY <1>1, <1>3
  <2> QED
    BY <1>3, <2>1 DEF Inv, WaitersHaveSource
<1> HIDE DEF h
<1>6. pc' \in [Threads -> Locs] /\ pending' \in Nat
  BY <1>1, <1>2, <1>3 DEF Locs
<1>7. WaitsOnce'
  BY <1>4 DEF WaitsOnce
<1>8. \A t \in Threads : pc'[t] = "wait" <=> (t # h /\ pc[t] = "wait")
  BY <1>2, <1>3
<1>9. \A t \in Threads : pc'[t] = "wait" <=> \E i \in DOMAIN waiting' : waiting'[i] = t
  BY <1>4, <1>8 DEF Inv, WaitersHaveSource
<1>10. WaitersHaveSource'
  BY <1>1, <1>3, <1>9 DEF WaitersHaveSource
<1>11. \A s \in Threads \ {h} : pc'[s] = p[s]
  BY <1>2
<1>12. pc'[h] = "work"
  BY <1>2, <1>3
<1>13. /\ Cardinality(AtOf(pc', "work")) = Cardinality(AtOf(p, "work")) + 1
       /\ Cardinality(AtOf(pc', "release_raw")) = Cardinality(AtOf(p, "release_raw"))
  BY <1>3, <1>5, <1>11, <1>12, CountMove, CountType
<1> QED
  BY <1>3, <1>6, <1>7, <1>10, <1>13
-----------------------------------------------------------------------------
\* acquire_thread: a thread comes to work on the token that nobody used, or
\* joins the queue while some other thread works.
LEMMA AcquireStep ==
  ASSUME Inv, NEW t \in Threads, acquire_thread(t)
  PROVE  Inv'
<1> USE DEF Locs
<1>1. CASE used = 0
  <2>1. /\ pending = 0 /\ pc[t] = "idle" /\ used' = 1 /\ pc' = [pc EXCEPT ![t] = "work"]
        /\ UNCHANGED <<requests, pending, waiting, helper, pipe, others>>
    BY <1>1 DEF acquire_thread, Inv, TypeOK, WaitersHaveSource
  <2>2. TypeOK'
    BY <2>1 DEF Inv, TypeOK
  <2>3. WaitersHaveSource' /\ WaitsOnce'
    BY <2>1, QueueKept DEF Inv, TypeOK
  <2>0. pc[t] = "idle" /\ pc'[t] = "work" /\ \A s \in Threads \ {t} : pc'[s] = pc[s]
    BY <2>1 DEF Inv, TypeOK
  <2>4. /\ Cardinality(AtOf(pc', "work")) = Cardinality(AtOf(pc, "work")) + 1
        /\ Cardinality(AtOf(pc', "release_raw")) = Cardinality(AtOf(pc, "release_raw"))
    BY <2>0, CountMove, CountType
  <2>5. UsedByWorkers' /\ TokensConserved'
    BY <1>1, <2>1, <2>4, Counts DEF Inv
  <2> QED
    BY <2>2, <2>3, <2>5 DEF Inv
<1>2. CASE used # 0
  <2>1. /\ pc[t] = "idle" /\ pc' = [pc EXCEPT ![t] = "wait"] /\ requests' = requests + 1
        /\ pending' = pending + 1 /\ waiting' = Append(waiting, t)
        /\ UNCHANGED <<used, helper, pipe, others>>
    BY <1>2 DEF acquire_thread
  <2>2. TypeOK'
    BY <2>1 DEF Inv, TypeOK
  <2>3. /\ waiting \in Seq(Threads) /\ Len(waiting) \in Nat /\ DOMAIN waiting = 1 .. Len(waiting)
        /\ Len(waiting') = Len(waiting) + 1 /\ DOMAIN waiting' = 1 .. Len(waiting) + 1
        /\ waiting'[Len(waiting) + 1] = t
        /\ \A i \in 1 .. Len(waiting) : waiting'[i] = waiting[i]
    BY <2>1 DEF Inv, TypeOK
  <2>4. \A i \in DOMAIN waiting : waiting[i] # t
    BY <2>1, <2>3 DEF Inv, WaitersHaveSource
  <2>5. WaitsOnce'
    BY <2>3, <2>4 DEF Inv, WaitsOnce
  <2>6. ASSUME NEW s \in Threads
        PROVE  pc'[s] = "wait" <=> \E i \in DOMAIN waiting' : waiting'[i] = s
    <3>1. CASE s = t
      BY <2>1, <2>3, <3>1 DEF Inv, TypeOK
    <3>2. CASE s # t
      <4>1. pc'[s] = pc[s]
        BY <2>1, <3>2 DEF Inv, TypeOK
      <4>2. (\E i \in DOMAIN waiting' : waiting'[i] = s) <=> (\E i \in DOMAIN waiting : waiting[i] = s)
        BY <2>3, <3>2
      <4> QED
        BY <4>1, <4>2 DEF Inv, WaitersHaveSource
    <3> QED
      BY <3>1, <3>2
  <2>7. WaitersHaveSource'
    BY <1>2, <2>1, <2>3, <2>6 DEF Inv, TypeOK, WaitersHaveSource
  <2>0. pc[t] = "idle" /\ pc'[t] = "wait" /\ \A s \in Threads \ {t} : pc'[s] = pc[s]
    BY <2>1 DEF Inv, TypeOK
  <2>8. /\ Cardinality(AtOf(pc', "work")) = Cardinality(AtOf(pc, "work"))
        /\ Cardinality(AtOf(pc', "release_raw")) = Cardinality(AtOf(pc, "release_raw"))
    BY <2>0, CountMove, CountType
  <2>9. UsedByWorkers' /\ TokensConserved'
    BY <2>1, <2>8, Counts DEF Inv
  <2> QED
    BY <2>2, <2>5, <2>7, <2>9 DEF Inv
<1> QED
  BY <1>1, <1>2

\* release_thread: the token changes hands inside the process, or leaves it
\* unless it is the last one.
LEMMA ReleaseStep ==
  ASSUME Inv, NEW t \in Threads, release_thread(t)
  PROVE  Inv'
<1> USE DEF Locs
<1>1. pc[t] = "work" /\ UNCHANGED <<requests, helper, pipe, others>>
  BY DEF release_thread
<1>2. /\ used \in Nat /\ pending \in Nat /\ used = Cardinality(AtOf(pc, "work"))
      /\ pc \in [Threads -> Locs]
  BY Counts DEF Inv, TypeOK
<1>3. CASE pending > 0
  <2> DEFINE p == [pc EXCEPT ![t] = "idle"]
  <2>1. pending' = pending - 1 /\ NotifyOne(p) /\ used' = used
    BY <1>2, <1>3 DEF release_thread
  <2>2. /\ p \in [Threads -> Locs] /\ p[t] = "idle"
        /\ \A s \in Threads : p[s] = "wait" <=> pc[s] = "wait"
        /\ \A s \in Threads \ {t} : p[s] = pc[s]
    BY <1>1, <1>2
  <2>3. used' > 0
    BY <1>3, <2>1 DEF Inv, WaitersHaveSource
  <2> HIDE DEF p
  <2>4. /\ Cardinality(AtOf(p, "work")) + 1 = Cardinality(AtOf(pc, "work"))
        /\ Cardinality(AtOf(p, "release_raw")) = Cardinality(AtOf(pc, "release_raw"))
    BY <1>1, <2>2, CountMove, CountType
  <2>5. /\ pc' \in [Threads -> Locs] /\ waiting' \in Seq(Threads) /\ pending' \in Nat
        /\ WaitersHaveSource' /\ WaitsOnce'
        /\ Cardinality(AtOf(pc', "work")) = Cardinality(AtOf(p, "work")) + 1
        /\ Cardinality(AtOf(pc', "release_raw")) = Cardinality(AtOf(p, "release_raw"))
    BY <1>3, <2>1, <2>2, <2>3, NotifyStep
  <2>6. TypeOK'
    BY <1>1, <2>1, <2>5 DEF Inv, TypeOK
  <2>7. UsedByWorkers' /\ TokensConserved'
    BY <1>1, <2>1, <2>4, <2>5, Counts DEF Inv
  <2> QED
    BY <2>5, <2>6, <2>7 DEF Inv
<1>4. CASE pending = 0
  <2>1. /\ used' = used - 1 /\ UNCHANGED <<pending, waiting>>
        /\ pc' = [pc EXCEPT ![t] = IF used > 1 THEN "release_raw" ELSE "idle"]
    BY <1>4 DEF release_thread
  <2>2. pc' \in [Threads -> Locs] /\ \A s \in Threads \ {t} : pc'[s] = pc[s]
    BY <1>2, <2>1
  <2>3. pc'[t] = IF used > 1 THEN "release_raw" ELSE "idle"
    BY <1>2, <2>1
  <2>4. /\ Cardinality(AtOf(pc', "work")) + 1 = Cardinality(AtOf(pc, "work"))
        /\ Cardinality(AtOf(pc', "release_raw"))
             = Cardinality(AtOf(pc, "release_raw")) + (IF used > 1 THEN 1 ELSE 0)
    BY <1>1, <2>2, <2>3, CountMove, CountType
  <2>5. used > 0 /\ used' = Cardinality(AtOf(pc', "work")) /\ used' \in Nat
    BY <1>2, <2>1, <2>4, CountType
  <2>6. TypeOK'
    BY <1>1, <2>1, <2>2, <2>5 DEF Inv, TypeOK
  <2>7. WaitersHaveSource' /\ WaitsOnce'
    BY <1>1, <1>4, <2>1, <2>2, <2>3, QueueKept
  <2>8. UsedByWorkers'
    BY <2>5, Counts DEF Inv
  <2>9. TokensConserved'
    <3> DEFINE R(q) == Cardinality(AtOf(q, "release_raw"))
    <3>0. /\ pipe \in Nat /\ others \in Nat /\ R(pc) \in Nat /\ used' = used - 1
          /\ pipe' = pipe /\ others' = others /\ helper' = helper
      BY <1>1, <2>1, Counts DEF Inv, TypeOK
    <3>1. CASE used > 1
      <4>1. R(pc') = R(pc) + 1
        BY <2>4, <3>1
      <4>2. pipe + others + (used - 1) + (R(pc) + (IF helper = "idle" THEN 0 ELSE 1)) = Tokens
        BY <1>2, <3>1, Counts DEF Inv
      <4>3. pipe' + others' + (used' - 1) + (R(pc') + (IF helper' = "idle" THEN 0 ELSE 1)) = Tokens
        BY <1>2, <3>0, <4>1, <4>2
      <4> QED
        BY <1>2, <3>0, <3>1, <4>3, Counts DEF Inv
    <3>2. CASE used = 1
      BY <1>1, <1>2, <2>1, <2>4, <3>2, Counts DEF Inv, TypeOK
    <3> QED
      BY <1>2, <2>5, <3>1, <3>2
  <2> QED
    BY <2>6, <2>7, <2>8, <2>9 DEF Inv
<1> QED
  BY <1>2, <1>3, <1>4

\* release_raw: the token that was on its way arrives in the pipe.
LEMMA RawStep ==
  ASSUME Inv, NEW t \in Threads, release_raw(t)
  PROVE  Inv'
<1> USE DEF Locs
<1>1. /\ pipe' = pipe + 1 /\ pc' = [pc EXCEPT ![t] = "idle"]
      /\ UNCHANGED <<used, pending, waiting, requests, helper, others>>
  BY DEF release_raw
<1>2. pc[t] = "release_raw" /\ pc'[t] = "idle" /\ \A s \in Threads \ {t} : pc'[s] = pc[s]
  BY DEF release_raw, Inv, TypeOK
<1>3. /\ Cardinality(AtOf(pc', "work")) = Cardinality(AtOf(pc, "work"))
      /\ Cardinality(AtOf(pc', "release_raw")) + 1 = Cardinality(AtOf(pc, "release_raw"))
  BY <1>2, CountMove, CountType
<1>4. UsedByWorkers'
  BY <1>1, <1>3, Counts DEF Inv
<1>5. /\ used \in Nat /\ pipe \in Nat /\ others \in Nat /\ Tokens \in Nat
      /\ Cardinality(AtOf(pc', "release_raw")) \in Nat
  BY ConstantsAssumption, CountType DEF Inv, TypeOK
<1>6. TokensConserved'
  BY <1>1, <1>3, <1>5, Counts DEF Inv
<1>7. pipe' \in 0 .. Tokens
  BY <1>1, <1>5, <1>6, Counts DEF Inv
<1>8. TypeOK'
  BY <1>1, <1>7 DEF Inv, TypeOK
<1>9. WaitersHaveSource' /\ WaitsOnce'
  BY <1>1, <1>2, QueueKept DEF Inv, WaitersHaveSource
<1> QED
  BY <1>4, <1>6, <1>8, <1>9 DEF Inv

\* The callback of the helper thread: its token comes into use with a thread
\* that was waiting, or is dropped.
LEMMA CallbackStep ==
  ASSUME Inv, callback
  PROVE  Inv'
<1> USE DEF Locs
<1>1. helper = "token" /\ UNCHANGED <<requests, pipe, others>>
  BY DEF callback
<1>2. /\ used \in Nat /\ pending \in Nat /\ pipe \in Nat /\ others \in Nat
      /\ pc \in [Threads -> Locs]
  BY DEF Inv, TypeOK
<1>3. CASE pending > 0
  <2>1. /\ pending' = pending - 1 /\ NotifyOne(pc) /\ used' = used + 1 /\ helper' = "idle"
    BY <1>3 DEF callback
  <2>2. used > 0
    BY <1>3 DEF Inv, WaitersHaveSource
  <2>3. /\ pc' \in [Threads -> Locs] /\ waiting' \in Seq(Threads) /\ pending' \in Nat
        /\ WaitersHaveSource' /\ WaitsOnce'
        /\ Cardinality(AtOf(pc', "work")) = Cardinality(AtOf(pc, "work")) + 1
        /\ Cardinality(AtOf(pc', "release_raw")) = Cardinality(AtOf(pc, "release_raw"))
    BY <1>2, <1>3, <2>1, NotifyStep
  <2>4. TypeOK'
    BY <1>1, <2>1, <2>3 DEF Inv, TypeOK
  <2>5. UsedByWorkers' /\ TokensConserved'
    BY <1>1, <1>2, <2>1, <2>2, <2>3, Counts DEF Inv
  <2> QED
    BY <2>3, <2>4, <2>5 DEF Inv
<1>4. CASE pending = 0
  <2>1. helper' = "drop" /\ UNCHANGED <<used, pending, waiting, pc>>
    BY <1>4 DEF callback
  <2>2. TypeOK'
    BY <1>1, <2>1 DEF Inv, TypeOK
  <2>3. UsedByWorkers' /\ TokensConserved'
    BY <1>1, <2>1, Counts DEF Inv
  <2>4. WaitersHaveSource' /\ WaitsOnce'
    BY <1>4, <2>1, QueueKept
  <2> QED
    BY <2>2, <2>3, <2>4 DEF Inv
<1> QED
  BY <1>2, <1>3, <1>4

\* The helper's other steps and those of other processes move one token
\* between the pipe, the helper and the others.
LEMMA PipeStep ==
  ASSUME Inv, helper_acquire \/ drop_token \/ others_take \/ others_give
  PROVE  Inv'
<1>1. UNCHANGED <<used, pending, waiting, pc>>
  BY DEF helper_acquire, drop_token, others_take, others_give
<1>2. /\ used \in Nat /\ pipe \in Nat /\ others \in Nat /\ requests \in Nat /\ Tokens \in Nat
      /\ helper \in {"idle", "token", "drop"}
      /\ Cardinality(AtOf(pc, "release_raw")) \in Nat
  BY ConstantsAssumption, CountType DEF Inv, TypeOK
<1>3. /\ pipe' \in Nat /\ others' \in Nat /\ requests' \in Nat
      /\ helper' \in {"idle", "token", "drop"}
      /\ pipe' + others' + (IF helper' = "idle" THEN 0 ELSE 1)
           = pipe + others + (IF helper = "idle" THEN 0 ELSE 1)
  <2>1. CASE helper_acquire
    BY <1>2, <2>1 DEF helper_acquire
  <2>2. CASE drop_token
    BY <1>2, <2>2 DEF drop_token
  <2>3. CASE others_take
    BY <1>2, <2>3 DEF others_take
  <2>4. CASE others_give
    BY <1>2, <2>4 DEF others_give
  <2> QED
    BY <2>1, <2>2, <2>3, <2>4
<1>4. UsedByWorkers' /\ TokensConserved'
  <2> DEFINE held == IF used = 0 THEN 0 ELSE used - 1
             raw  == Cardinality(AtOf(pc, "release_raw"))
  <2>1. PICK x \in Nat, y \in Nat : x = pipe' /\ y = others'
    BY <1>3
  <2>2. PICK m \in {0, 1} : m = IF helper = "idle" THEN 0 ELSE 1
    OBVIOUS
  <2>3. PICK n \in {0, 1} : n = IF helper' = "idle" THEN 0 ELSE 1
    OBVIOUS
  <2>4. pipe + others + held + (raw + m) = Tokens
    BY <2>2, Counts DEF Inv
  <2>5. x + y + n = pipe + others + m
    BY <1>3, <2>1, <2>2, <2>3
  <2>6. x + y + held + (raw + n) = Tokens
    BY <1>2, <2>4, <2>5
  <2> QED
    BY <1>1, <2>1, <2>3, <2>6, Counts DEF Inv
<1>5. pipe' \in 0 .. Tokens /\ others' \in 0 .. Tokens
  BY <1>1, <1>2, <1>3, <1>4, Counts DEF Inv
<1>6. TypeOK'
  BY <1>1, <1>3, <1>5 DEF Inv, TypeOK
<1>7. WaitersHaveSource' /\ WaitsOnce'
  BY <1>1, QueueKept DEF Inv, WaitersHaveSource
<1> QED
  BY <1>4, <1>6, <1>7 DEF Inv

\* Every step of a thread, of the helper and of other processes keeps Inv.
LEMMA InvStep == Inv /\ [Next]_vars => Inv'
<1> SUFFICES ASSUME Inv, [Next]_vars PROVE Inv'
  OBVIOUS
<1>1. ASSUME NEW t \in Threads, ThreadStep(t) \/ acquire_thread(t) PROVE Inv'
  BY <1>1, AcquireStep, ReleaseStep, RawStep DEF ThreadStep
<1>2. CASE HelperStep
  BY <1>2, CallbackStep, PipeStep DEF HelperStep
<1>3. CASE others_take \/ others_give
  BY <1>3, PipeStep
<1>4. CASE UNCHANGED vars
  BY <1>4 DEF vars, Inv, TypeOK, TokensConserved, UsedByWorkers, WaitersHaveSource, WaitsOnce, At
<1> QED
  BY <1>1, <1>2, <1>3, <1>4 DEF Next

-----------------------------------------------------------------------------
\* The proxy keeps its invariant, its typing included, whatever the threads,
\* the helper thread and the other processes of the build do.
THEOREM ProxyCorrect == Spec => []Inv
BY InitInv, InvStep, PTL DEF Spec

\* jobserver.rs neither loses a token nor makes one up.
THEOREM ProxyConservesTokens == Spec => []TokensConserved
<1>1. Inv => TokensConserved
  BY DEF Inv
<1> QED
  BY <1>1, ProxyCorrect, PTL

\* ProxyData::used is the number of threads that work.
THEOREM ProxyCountsWorkers == Spec => []UsedByWorkers
<1>1. Inv => UsedByWorkers
  BY DEF Inv
<1> QED
  BY <1>1, ProxyCorrect, PTL

\* ProxyData::pending is the number of threads that wait on the condition
\* variable, and they wait only while another thread holds a token.
THEOREM ProxyWaitersHaveSource == Spec => []WaitersHaveSource
<1>1. Inv => WaitersHaveSource
  BY DEF Inv
<1> QED
  BY <1>1, ProxyCorrect, PTL
\* The counters of ProxyData never become negative.
THEOREM ProxyTyped == Spec => []TypeOK
<1>1. Inv => TypeOK
  BY DEF Inv
<1> QED
  BY <1>1, ProxyCorrect, PTL
=============================================================================

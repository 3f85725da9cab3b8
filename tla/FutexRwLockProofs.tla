-------------------------- MODULE FutexRwLockProofs -------------------------
(***************************************************************************)
(* FutexRwLock, for every finite set of threads and every MAX_READERS:     *)
(* readers and writers exclude each other, the assertions that the         *)
(* unlocking code makes about the bits of the word hold, and no blocked    *)
(* thread is forgotten.                                                    *)
(*                                                                         *)
(* The assertions are not inductive: clear_readers takes the bit away from *)
(* the whole word, so that a thread about to do it has to be the only      *)
(* reader (ClearsAlone), which the bit itself guarantees by keeping others *)
(* out.  Neither is the last property; see Remembered below.               *)
(***************************************************************************)
EXTENDS FutexRwLock, FiniteSetTheorems, TLAPS

\* A thread that downgrades is alone until it has cleared the readers' bit.
ClearsAlone ==
  \A t \in Threads : pc[t] = "clear_readers" => Reading = {t} /\ state.rw

IInv == TypeOK /\ Exclusion /\ ClearsAlone /\ ReadersWaitBehindWriter

\* The readers can be counted.
LEMMA ReadingFinite ==
  /\ IsFiniteSet(Reading)
  /\ Cardinality(Reading) \in Nat
  /\ Cardinality(Reading) = 0 <=> Reading = {}
<1>1. Reading \subseteq Threads BY DEF Reading
<1>2. IsFiniteSet(Reading) BY <1>1, FS_Subset, ConstantsAssumption
<1> QED BY <1>2, FS_CardinalityType, FS_EmptySet

\* RwLock::new: an unlocked word and idle threads.
LEMMA InitIInv == Init => IInv
<1> SUFFICES ASSUME Init PROVE IInv
  OBVIOUS
<1>1. Reading = {} /\ Writing = {}
  BY DEF Init, Reading, Writing
<1>2. TypeOK
  BY ConstantsAssumption DEF Init, TypeOK, Words, Locs, Unlocked, WRITE_LOCKED
<1>3. Exclusion
  BY <1>1, ReadingFinite, ConstantsAssumption
    DEF Exclusion, Init, Unlocked, is_write_locked, WRITE_LOCKED
<1> QED BY <1>1, <1>2, <1>3 DEF IInv, ClearsAlone, ReadersWaitBehindWriter, Init

-----------------------------------------------------------------------------
(* Typing, the words and the places of the threads separately. *)

LocalOK ==
  /\ seen \in [Threads -> Words]
  /\ slept \in SUBSET Threads /\ others \in SUBSET Threads
  /\ calls \in [Threads -> Nat]

PlaceOK ==
  /\ current \in SUBSET Threads /\ readers \in SUBSET Threads /\ writers \in SUBSET Threads
  /\ \A t \in Threads : /\ t \in readers <=> pc[t] = "read_blocked"
                        /\ t \in writers <=> pc[t] = "write_blocked"
  /\ pc \in [Threads -> Locs]

\* The words that the code computes are words.
LEMMA WordUpdate ==
  ASSUME NEW s \in Words
  PROVE  /\ s.n \in Nat /\ s.rw \in BOOLEAN /\ s.ww \in BOOLEAN
         /\ s.n < MAX_READERS => [s EXCEPT !.n = s.n + 1] \in Words
         /\ s.n > 0 => [s EXCEPT !.n = s.n - 1] \in Words
         /\ [s EXCEPT !.n = 0] \in Words /\ [s EXCEPT !.n = 1] \in Words
         /\ [s EXCEPT !.n = WRITE_LOCKED] \in Words
         /\ [s EXCEPT !.rw = TRUE] \in Words /\ [s EXCEPT !.rw = FALSE] \in Words
         /\ [s EXCEPT !.ww = TRUE] \in Words /\ [s EXCEPT !.ww = FALSE] \in Words
         /\ \A b \in BOOLEAN : [n |-> WRITE_LOCKED, rw |-> s.rw, ww |-> b] \in Words
<1> USE ConstantsAssumption DEF Words, WRITE_LOCKED
<1>1. s.n \in Nat /\ s.rw \in BOOLEAN /\ s.ww \in BOOLEAN
  OBVIOUS
<1>2. s.n < MAX_READERS => [s EXCEPT !.n = s.n + 1] \in Words
  OBVIOUS
<1>3. s.n > 0 => [s EXCEPT !.n = s.n - 1] \in Words
  OBVIOUS
<1>4. /\ [s EXCEPT !.n = 0] \in Words /\ [s EXCEPT !.n = 1] \in Words
      /\ [s EXCEPT !.n = WRITE_LOCKED] \in Words
  OBVIOUS
<1>5. /\ [s EXCEPT !.rw = TRUE] \in Words /\ [s EXCEPT !.rw = FALSE] \in Words
      /\ [s EXCEPT !.ww = TRUE] \in Words /\ [s EXCEPT !.ww = FALSE] \in Words
  OBVIOUS
<1>6. \A b \in BOOLEAN : [n |-> WRITE_LOCKED, rw |-> s.rw, ww |-> b] \in Words
  OBVIOUS
<1> QED BY <1>1, <1>2, <1>3, <1>4, <1>5, <1>6

\* The word of a new lock, and those that wake_writer_or_readers expects.
LEMMA Fresh ==
  Unlocked \in Words /\ \A b, c \in BOOLEAN : [n |-> 0, rw |-> b, ww |-> c] \in Words
BY ConstantsAssumption DEF Unlocked, Words, WRITE_LOCKED

\* The words stay in their domain: a compare_exchange only counts up below
\* MAX_READERS, and read_unlock counts down what Exclusion says is there.
LEMMA WordStep ==
  TypeOK /\ Exclusion /\ [Next]_vars => state' \in Words
<1> SUFFICES ASSUME TypeOK, Exclusion, [Next]_vars PROVE state' \in Words
  OBVIOUS
<1>0. state \in Words
  BY DEF TypeOK
<1> DEFINE W(s) == s \in Words
<1>1. ASSUME NEW t \in Threads, Progress(t) PROVE W(state')
  <2>1. CASE try_lock(t)
    BY <2>1, <1>0, WordUpdate DEF try_lock, is_read_lockable
  <2>2. CASE read(t)
    BY <2>2, <1>0, WordUpdate DEF read, is_read_lockable
  <2>3. CASE write(t)
    BY <2>3, <1>0, WordUpdate DEF write
  <2>5. CASE read_contended(t)
    BY <2>5, <1>0, WordUpdate DEF read_contended, Exchanged, Changed, is_read_lockable,
                                  is_read_lockable_after_wakeup
  <2>7. CASE write_contended(t)
    BY <2>7, <1>0, WordUpdate DEF write_contended, Exchanged, Changed
  <2>11. CASE read_unlock(t)
    <3>1. pc[t] = "reading"
      BY <2>11 DEF read_unlock, Goto
    <3>2. t \in Reading
      BY <3>1 DEF Reading
    <3>3. Reading # {} /\ Writing = {}
      BY <3>2 DEF Exclusion
    <3>4. state.n = Cardinality(Reading)
      BY <3>3 DEF Exclusion
    <3>5. state.n > 0
      BY <3>3, <3>4, ReadingFinite
    <3> QED BY <2>11, <1>0, <3>5, WordUpdate DEF read_unlock
  <2>12. CASE write_unlock(t)
    BY <2>12, <1>0, WordUpdate DEF write_unlock
  <2>13. CASE clear_readers(t)
    BY <2>13, <1>0, WordUpdate DEF clear_readers
  <2>14. CASE wake_writer_or_readers(t)
    BY <2>14, <1>0, WordUpdate, Fresh DEF wake_writer_or_readers
  <2>15. CASE \/ spin_until(t) \/ read_wait(t) \/ load_seq(t) \/ check_state(t) \/ write_wait(t)
              \/ notify_writer(t) \/ wake_writer(t) \/ wake_all(t)
    BY <2>15, <1>0 DEF spin_until, read_wait, load_seq, check_state, write_wait,
                       notify_writer, wake_writer, wake_all
  <2> QED BY <1>1, <2>1, <2>2, <2>3, <2>5, <2>7, <2>11, <2>12, <2>13, <2>14, <2>15 DEF Progress
<1>2. ASSUME NEW t \in Threads, call(t) \/ downgrade(t) \/ interrupted(t) PROVE W(state')
  BY <1>2, <1>0, WordUpdate DEF call, downgrade, interrupted
<1>5. CASE UNCHANGED vars
  BY <1>5, <1>0 DEF vars
<1> QED BY <1>1, <1>2, <1>5 DEF Next

\* The kernel's queues are the threads that are blocked in it.
LEMMA PlaceStep == PlaceOK /\ [Next]_vars => PlaceOK'
<1> SUFFICES ASSUME PlaceOK, [Next]_vars PROVE PlaceOK'
  OBVIOUS
<1> USE DEF PlaceOK, Locs, Goto, kernelVars, Returns, Changed
<1>1. ASSUME NEW t \in Threads, Progress(t) PROVE PlaceOK'
  <2>1. CASE try_lock(t)
    BY <2>1 DEF try_lock
  <2>2. CASE read(t)
    BY <2>2 DEF read
  <2>3. CASE write(t)
    BY <2>3 DEF write
  <2>4. CASE spin_until(t)
    BY <2>4 DEF spin_until
  <2>5. CASE read_contended(t)
    BY <2>5 DEF read_contended
  <2>6. CASE read_wait(t)
    BY <2>6 DEF read_wait
  <2>7. CASE write_contended(t)
    BY <2>7 DEF write_contended
  <2>8. CASE load_seq(t)
    BY <2>8 DEF load_seq
  <2>9. CASE check_state(t)
    BY <2>9 DEF check_state
  <2>10. CASE write_wait(t)
    BY <2>10 DEF write_wait
  <2>11. CASE read_unlock(t)
    BY <2>11 DEF read_unlock, WakeFrom
  <2>12. CASE write_unlock(t)
    BY <2>12 DEF write_unlock, WakeFrom
  <2>13. CASE clear_readers(t)
    BY <2>13 DEF clear_readers
  <2>14. CASE wake_writer_or_readers(t)
    BY <2>14 DEF wake_writer_or_readers, WakeFrom
  <2>15. CASE notify_writer(t)
    BY <2>15 DEF notify_writer
  <2>16. CASE wake_writer(t)
    BY <2>16 DEF wake_writer
  <2>17. CASE wake_all(t)
    BY <2>17 DEF wake_all
  <2> QED BY <1>1, <2>1, <2>2, <2>3, <2>4, <2>5, <2>6, <2>7, <2>8, <2>9,
             <2>10, <2>11, <2>12, <2>13, <2>14, <2>15, <2>16, <2>17 DEF Progress
<1>2. ASSUME NEW t \in Threads, call(t) PROVE PlaceOK'
  BY <1>2 DEF call
<1>3. ASSUME NEW t \in Threads, downgrade(t) PROVE PlaceOK'
  BY <1>3 DEF downgrade
<1>4. ASSUME NEW t \in Threads, interrupted(t) PROVE PlaceOK'
  BY <1>4 DEF interrupted
<1>5. CASE UNCHANGED vars
  BY <1>5 DEF vars
<1> QED BY <1>1, <1>2, <1>3, <1>4, <1>5 DEF Next

\* What a thread has seen of the word is a word.
LEMMA LocalStep ==
  TypeOK /\ state' \in Words /\ [Next]_vars => LocalOK'
<1> SUFFICES ASSUME TypeOK, state' \in Words, [Next]_vars PROVE LocalOK'
  OBVIOUS
<1>0. state \in Words /\ LocalOK /\ readers \subseteq Threads
  BY DEF TypeOK, LocalOK
<1> USE <1>0, Fresh DEF LocalOK
<1>1. ASSUME NEW t \in Threads, Progress(t) PROVE LocalOK'
  <2>1. CASE read_contended(t)
    BY <2>1 DEF read_contended, Returns, Changed, localVars, kernelVars
  <2>2. CASE write_contended(t)
    BY <2>2 DEF write_contended, Returns, Changed, localVars, kernelVars
  <2>3. CASE spin_until(t) \/ check_state(t)
    BY <2>3 DEF spin_until, check_state
  <2>4. CASE read_wait(t) \/ load_seq(t) \/ wake_all(t)
    BY <2>4 DEF read_wait, load_seq, wake_all
  <2>5. CASE try_lock(t) \/ read(t) \/ write(t) \/ write_wait(t)
    BY <2>5 DEF try_lock, read, write, write_wait, localVars
  <2>6. CASE read_unlock(t) \/ write_unlock(t) \/ clear_readers(t)
    BY <2>6 DEF read_unlock, write_unlock, clear_readers, localVars
  <2>7. CASE wake_writer_or_readers(t) \/ notify_writer(t) \/ wake_writer(t)
    BY <2>7 DEF wake_writer_or_readers, notify_writer, wake_writer, localVars
  <2> QED BY <1>1, <2>1, <2>2, <2>3, <2>4, <2>5, <2>6, <2>7 DEF Progress
<1>2. ASSUME NEW t \in Threads, call(t) PROVE LocalOK'
  BY <1>2 DEF call, localVars
<1>3. ASSUME NEW t \in Threads, downgrade(t) PROVE LocalOK'
  BY <1>3 DEF downgrade, localVars
<1>4. ASSUME NEW t \in Threads, interrupted(t) PROVE LocalOK'
  BY <1>4 DEF interrupted
<1>5. CASE UNCHANGED vars
  BY <1>5 DEF vars
<1> QED BY <1>1, <1>2, <1>3, <1>4, <1>5 DEF Next

\* TypeOK is kept by every step.
LEMMA TypeStep == TypeOK /\ Exclusion /\ [Next]_vars => TypeOK'
<1> SUFFICES ASSUME TypeOK, Exclusion, [Next]_vars PROVE TypeOK'
  OBVIOUS
<1>1. state' \in Words BY WordStep
<1>2. LocalOK' BY <1>1, LocalStep
<1>3. PlaceOK' BY PlaceStep DEF TypeOK, PlaceOK
<1> QED BY <1>1, <1>2, <1>3 DEF TypeOK, LocalOK, PlaceOK

-----------------------------------------------------------------------------
(* Exclusion and the bits of the word, by the kinds of steps. *)

Holding == {"reading", "writing", "clear_readers", "downgrade_wake"}

\* No thread gets or loses the lock, or goes on inside downgrade.
Outside ==
  \A u \in Threads : pc'[u] = pc[u] \/ (pc[u] \notin Holding /\ pc'[u] \notin Holding)

\* Whom the safety properties speak of after such a step.
LEMMA OutsideSame ==
  ASSUME Outside
  PROVE  /\ Reading' = Reading /\ Writing' = Writing
         /\ \A u \in Threads : pc'[u] = "clear_readers" <=> pc[u] = "clear_readers"
BY DEF Outside, Holding, Reading, Writing

Safe == Exclusion /\ ClearsAlone /\ ReadersWaitBehindWriter

\* A step outside the lock that leaves the word alone.
LEMMA QuietStep ==
  ASSUME Safe, Outside, state' = state
  PROVE  Safe'
BY OutsideSame DEF Safe, Exclusion, ClearsAlone, ReadersWaitBehindWriter, is_write_locked

\* A reader or a writer sets the bit of its kind: a reader only if the word is
\* unlocked, locked by a writer, or has a waiting writer.
LEMMA BitStep ==
  ASSUME Safe, Outside, TypeOK, state'.n = state.n,
         state.rw => state'.rw, state.ww => state'.ww,
         state'.rw => state.rw \/ Reading = {} \/ state.ww
  PROVE  Safe'
BY OutsideSame DEF Safe, Exclusion, ClearsAlone, ReadersWaitBehindWriter, is_write_locked

\* wake_writer_or_readers clears bits of an unlocked word.
LEMMA ClearStep ==
  ASSUME Safe, Outside, state.n = 0, state'.n = 0
  PROVE  Safe'
<1>1. Reading = {} /\ Writing = {}
  BY ReadingFinite, ConstantsAssumption DEF Safe, Exclusion, is_write_locked, WRITE_LOCKED
<1>2. \A u \in Threads : pc[u] # "clear_readers"
  BY <1>1 DEF Reading
<1> QED BY <1>1, <1>2, OutsideSame
      DEF Safe, Exclusion, ClearsAlone, ReadersWaitBehindWriter, is_write_locked

\* A thread read-locks: neither bit of waiting readers nor a writer was there.
LEMMA ReadLockStep ==
  ASSUME Safe, TypeOK, NEW t \in Threads, pc[t] \notin Holding,
         pc' = [pc EXCEPT ![t] = "reading"],
         state.n < MAX_READERS, ~state.rw, state' = [state EXCEPT !.n = state.n + 1]
  PROVE  Safe'
<1>0. state \in Words /\ state.n \in Nat
  BY WordUpdate DEF TypeOK
<1>1. t \notin Reading /\ Reading' = Reading \cup {t}
  BY DEF Reading, TypeOK, Holding
<1>2. Writing' = Writing /\ Writing = {}
  BY <1>0, ConstantsAssumption DEF Writing, TypeOK, Holding, Safe, Exclusion, is_write_locked, WRITE_LOCKED
<1>3. \A u \in Threads : pc'[u] # "clear_readers"
  BY DEF TypeOK, Safe, ClearsAlone
<1>4. Cardinality(Reading') = Cardinality(Reading) + 1
  BY <1>1, ReadingFinite, FS_AddElement
<1>5. state'.n = state.n + 1 /\ state'.rw = FALSE
  BY <1>0 DEF Words
<1>6. state.n = Cardinality(Reading)
  BY <1>2 DEF Safe, Exclusion
<1>7. state'.n = Cardinality(Reading')
  BY <1>4, <1>5, <1>6
<1>8. ~is_write_locked(state)' /\ Writing' = {}
  BY <1>0, <1>2, <1>5, ConstantsAssumption DEF is_write_locked, WRITE_LOCKED
<1> QED BY <1>3, <1>5, <1>7, <1>8 DEF Safe, Exclusion, ClearsAlone, ReadersWaitBehindWriter

\* A thread write-locks an unlocked word.
LEMMA WriteLockStep ==
  ASSUME Safe, TypeOK, NEW t \in Threads, pc[t] \notin Holding,
         pc' = [pc EXCEPT ![t] = "writing"],
         state.n = 0, state'.n = WRITE_LOCKED
  PROVE  Safe'
<1>1. Reading = {} /\ Writing = {}
  BY ReadingFinite, ConstantsAssumption DEF Safe, Exclusion, is_write_locked, WRITE_LOCKED
<1>2. Reading' = {} /\ Writing' = {t}
  BY <1>1 DEF Reading, Writing, TypeOK, Holding
<1>3. \A u \in Threads : pc'[u] # "clear_readers"
  BY <1>2 DEF Reading
<1> QED BY <1>2, <1>3 DEF Safe, Exclusion, ClearsAlone, ReadersWaitBehindWriter, is_write_locked

\* The writer unlocks.
LEMMA WriteUnlockStep ==
  ASSUME Safe, TypeOK, NEW t \in Threads, pc[t] = "writing", NEW to, to \notin Holding,
         pc' = [pc EXCEPT ![t] = to], state'.n = 0
  PROVE  Safe'
<1>1. Writing = {t} /\ Reading = {}
  BY DEF Writing, Safe, Exclusion
<1>2. Writing' = {} /\ Reading' = {}
  BY <1>1 DEF Reading, Writing, TypeOK, Holding
<1>3. \A u \in Threads : pc'[u] # "clear_readers"
  BY <1>2 DEF Reading
<1>4. Cardinality(Reading') = 0
  BY <1>2, FS_EmptySet
<1> QED BY <1>2, <1>3, <1>4, ConstantsAssumption
      DEF Safe, Exclusion, ClearsAlone, ReadersWaitBehindWriter, is_write_locked, WRITE_LOCKED

\* A reader unlocks.
LEMMA ReadUnlockStep ==
  ASSUME Safe, TypeOK, NEW t \in Threads, pc[t] = "reading", NEW to, to \notin Holding,
         pc' = [pc EXCEPT ![t] = to], state' = [state EXCEPT !.n = state.n - 1]
  PROVE  Safe'
<1>0. state \in Words /\ state.n \in Nat
  BY WordUpdate DEF TypeOK
<1>1. t \in Reading /\ Reading' = Reading \ {t}
  BY DEF Reading, TypeOK, Holding
<1>2. Writing' = {} /\ Writing = {}
  BY <1>1 DEF Writing, TypeOK, Holding, Safe, Exclusion
<1>3. \A u \in Threads : pc[u] # "clear_readers"
  BY <1>1 DEF Safe, ClearsAlone
<1>4. \A u \in Threads : pc'[u] # "clear_readers"
  BY <1>3 DEF TypeOK, Holding
<1>5. Cardinality(Reading') = Cardinality(Reading) - 1
  BY <1>1, ReadingFinite, FS_RemoveElement
<1>6. state'.n = state.n - 1 /\ state'.rw = state.rw /\ state'.ww = state.ww
  BY <1>0 DEF Words
<1>7. state.n = Cardinality(Reading) /\ state.n # WRITE_LOCKED /\ state.n <= WRITE_LOCKED
  BY <1>0, <1>2 DEF Safe, Exclusion, is_write_locked, Words
<1>8. state'.n = Cardinality(Reading') /\ state'.n # WRITE_LOCKED
  BY <1>0, <1>5, <1>6, <1>7, ConstantsAssumption DEF WRITE_LOCKED
<1>9. state'.rw /\ Reading' # {} => state'.ww
  BY <1>1, <1>3, <1>6 DEF Safe, ReadersWaitBehindWriter
<1> QED BY <1>2, <1>4, <1>8, <1>9
      DEF Safe, Exclusion, ClearsAlone, ReadersWaitBehindWriter, is_write_locked

\* The writer becomes the only reader, and clears the bit before it reads.
LEMMA DowngradeStep ==
  ASSUME Safe, TypeOK, NEW t \in Threads, downgrade(t)
  PROVE  Safe'
<1>0. /\ pc[t] = "writing" /\ state \in Words
      /\ pc' = [pc EXCEPT ![t] = IF state.rw THEN "clear_readers" ELSE "reading"]
  BY DEF downgrade, Goto, TypeOK
<1>1. Writing = {t} /\ Reading = {}
  BY <1>0 DEF Writing, Safe, Exclusion
<1>2. Writing' = {} /\ Reading' = {t}
  BY <1>0, <1>1 DEF Reading, Writing, TypeOK
<1>3. state'.n = 1 /\ state'.rw = state.rw
  BY <1>0 DEF downgrade, Words
<1>4. Cardinality(Reading') = 1
  BY <1>2, FS_Singleton
<1>5. \A u \in Threads : pc'[u] = "clear_readers" <=> u = t /\ state.rw
  BY <1>0, <1>1 DEF Reading, TypeOK
<1> QED BY <1>2, <1>3, <1>4, <1>5, ConstantsAssumption
      DEF Safe, Exclusion, ClearsAlone, ReadersWaitBehindWriter, is_write_locked, WRITE_LOCKED

\* downgrade clears the bit of the waiting readers, alone in the lock.
LEMMA ClearReadersStep ==
  ASSUME Safe, TypeOK, NEW t \in Threads, clear_readers(t)
  PROVE  Safe'
<1>0. /\ pc[t] = "clear_readers" /\ pc' = [pc EXCEPT ![t] = "downgrade_wake"]
      /\ state \in Words /\ state' = [state EXCEPT !.rw = FALSE]
  BY DEF clear_readers, Goto, TypeOK
<1>1. Reading = {t}
  BY <1>0 DEF Safe, ClearsAlone
<1>2. Reading' = Reading /\ Writing' = Writing
  BY <1>0 DEF Reading, Writing, TypeOK
<1>3. \A u \in Threads : pc'[u] # "clear_readers"
  BY <1>0, <1>1 DEF Reading, TypeOK
<1>4. state'.n = state.n /\ state'.rw = FALSE
  BY <1>0 DEF Words
<1> QED BY <1>2, <1>3, <1>4
      DEF Safe, Exclusion, ClearsAlone, ReadersWaitBehindWriter, is_write_locked

\* Exclusion and the meaning of the bits are kept by every step.
LEMMA SafeStep == TypeOK /\ Safe /\ [Next]_vars => Safe'
<1> SUFFICES ASSUME TypeOK, Safe, [Next]_vars PROVE Safe'
  OBVIOUS
<1>0. state \in Words /\ state.n \in Nat /\ pc \in [Threads -> Locs]
  BY WordUpdate DEF TypeOK
<1>1. ASSUME NEW t \in Threads, Progress(t) PROVE Safe'
  <2>1. CASE try_lock(t)
    <3>1. CASE pc'[t] = "reading"
      BY <2>1, <3>1, <1>0, ReadLockStep DEF try_lock, Goto, is_read_lockable, Holding
    <3>2. CASE pc'[t] = "writing"
      <4>1. state.n = 0 /\ state' = [state EXCEPT !.n = WRITE_LOCKED]
        BY <2>1, <3>2, <1>0 DEF try_lock, Goto, is_unlocked
      <4>2. state'.n = WRITE_LOCKED
        BY <4>1, <1>0 DEF Words
      <4> QED BY <2>1, <3>2, <4>1, <4>2, <1>0, WriteLockStep DEF try_lock, Goto, Holding
    <3>3. CASE pc'[t] = "idle"
      <4>1. Outside /\ state' = state
        BY <2>1, <3>3, <1>0 DEF try_lock, Goto, Outside, Holding
      <4> QED BY <4>1, QuietStep
    <3> QED BY <2>1, <3>1, <3>2, <3>3, <1>0 DEF try_lock, Goto
  <2>2. CASE read(t)
    <3>1. CASE pc'[t] = "reading"
      BY <2>2, <3>1, <1>0, ReadLockStep DEF read, Goto, is_read_lockable, Holding
    <3>2. CASE pc'[t] # "reading"
      <4>1. Outside /\ state' = state
        BY <2>2, <3>2, <1>0 DEF read, Goto, Outside, Holding
      <4> QED BY <4>1, QuietStep
    <3> QED BY <3>1, <3>2
  <2>3. CASE write(t)
    <3>1. CASE pc'[t] = "writing"
      <4>1. state.n = 0 /\ state' = [state EXCEPT !.n = WRITE_LOCKED]
        BY <2>3, <3>1, <1>0 DEF write, Goto, Unlocked
      <4>2. state'.n = WRITE_LOCKED
        BY <4>1, <1>0 DEF Words
      <4> QED BY <2>3, <3>1, <4>1, <4>2, <1>0, WriteLockStep DEF write, Goto, Holding
    <3>2. CASE pc'[t] # "writing"
      <4>1. Outside /\ state' = state
        BY <2>3, <3>2, <1>0 DEF write, Goto, Outside, Holding
      <4> QED BY <4>1, QuietStep
    <3> QED BY <3>1, <3>2
  <2>4. CASE read_contended(t)
    <3> DEFINE lockable == \/ is_read_lockable(seen[t])
                           \/ t \in slept /\ is_read_lockable_after_wakeup(seen[t])
    <3>1. CASE /\ lockable /\ Exchanged(t, [seen[t] EXCEPT !.n = @ + 1])
               /\ Returns(t, "read_loop", "reading")
      <4>1. state.n < MAX_READERS /\ ~state.rw /\ state' = [state EXCEPT !.n = state.n + 1]
        BY <3>1 DEF Exchanged, is_read_lockable, is_read_lockable_after_wakeup
      <4> QED BY <3>1, <4>1, <1>0, ReadLockStep DEF Returns, Goto, Holding
    <3>2. CASE /\ ~lockable /\ seen[t].n # MAX_READERS /\ ~seen[t].rw
               /\ Exchanged(t, [seen[t] EXCEPT !.rw = TRUE])
               /\ Goto(t, "read_loop", "read_wait")
      <4>1. /\ state = seen[t] /\ state' = [state EXCEPT !.rw = TRUE]
            /\ ~is_read_lockable(state) /\ state.n # MAX_READERS /\ ~state.rw
        BY <3>2 DEF Exchanged
      <4>2. state'.n = state.n /\ state'.ww = state.ww /\ state'.rw
        BY <4>1, <1>0 DEF Words
      <4>3. state.ww \/ is_write_locked(state)
        BY <4>1, <1>0, ConstantsAssumption DEF is_read_lockable, is_write_locked, Words, WRITE_LOCKED
      <4>4. state.ww \/ Reading = {}
        BY <4>3 DEF Safe, Exclusion
      <4>5. Outside
        BY <3>2, <1>0 DEF Goto, Outside, Holding
      <4> QED BY <4>1, <4>2, <4>4, <4>5, BitStep
    <3>3. CASE state' = state /\ \E to \in {"idle", "read_wait", "read_loop"} : Goto(t, "read_loop", to)
      <4>1. Outside
        BY <3>3, <1>0 DEF Goto, Outside, Holding
      <4> QED BY <3>3, <4>1, QuietStep
    <3> QED BY <2>4, <3>1, <3>2, <3>3 DEF read_contended, Returns, Changed
  <2>5. CASE write_contended(t)
    <3>1. CASE /\ is_unlocked(seen[t])
               /\ Exchanged(t, [n |-> WRITE_LOCKED, rw |-> seen[t].rw, ww |-> seen[t].ww \/ t \in others])
               /\ Returns(t, "write_loop", "writing")
      <4>1. state.n = 0 /\ state'.n = WRITE_LOCKED
        BY <3>1 DEF Exchanged, is_unlocked
      <4> QED BY <3>1, <4>1, <1>0, WriteLockStep DEF Returns, Goto, Holding
    <3>2. CASE Exchanged(t, [seen[t] EXCEPT !.ww = TRUE]) /\ Goto(t, "write_loop", "load_seq")
      <4>1. state' = [state EXCEPT !.ww = TRUE]
        BY <3>2 DEF Exchanged
      <4>2. state'.n = state.n /\ state'.ww /\ state'.rw = state.rw
        BY <4>1, <1>0 DEF Words
      <4>3. Outside
        BY <3>2, <1>0 DEF Goto, Outside, Holding
      <4> QED BY <4>2, <4>3, BitStep
    <3>3. CASE state' = state /\ \E to \in {"load_seq", "write_loop"} : Goto(t, "write_loop", to)
      <4>1. Outside
        BY <3>3, <1>0 DEF Goto, Outside, Holding
      <4> QED BY <3>3, <4>1, QuietStep
    <3> QED BY <2>5, <3>1, <3>2, <3>3 DEF write_contended, Changed
  <2>6. CASE \/ spin_until(t) \/ read_wait(t) \/ load_seq(t) \/ check_state(t) \/ write_wait(t)
             \/ notify_writer(t)
    <3>1. state' = state /\ Outside
      BY <2>6, <1>0 DEF spin_until, read_wait, load_seq, check_state, write_wait,
                        notify_writer, Goto, Outside, Holding
    <3> QED BY <3>1, QuietStep
  <2>7. CASE wake_writer(t)
    <3>1. state' = state /\ \A w \in writers : pc[w] = "write_blocked"
      BY <2>7 DEF wake_writer, TypeOK
    <3>2. Outside
      BY <2>7, <3>1, <1>0 DEF wake_writer, Outside, Holding
    <3> QED BY <3>1, <3>2, QuietStep
  <2>8. CASE wake_all(t)
    <3>1. state' = state /\ \A w \in readers : w \in Threads /\ pc[w] = "read_blocked"
      BY <2>8 DEF wake_all, TypeOK
    <3> DEFINE Moves(u) ==
          \/ pc'[u] = pc[u]
          \/ pc[u] \notin Holding /\ pc'[u] \notin Holding
          \/ pc[u] = "downgrade_wake" /\ pc'[u] = "reading"
    <3>2. ASSUME NEW u \in Threads PROVE Moves(u)
      <4>1. CASE u = t
        <5>1. /\ pc[t] = "wake_all" => pc'[t] = "idle"
              /\ pc[t] = "downgrade_wake" => pc'[t] = "reading"
          BY <2>8, <3>1 DEF wake_all
        <5>2. pc[t] \in {"wake_all", "downgrade_wake"}
          BY <2>8 DEF wake_all
        <5> QED BY <4>1, <5>1, <5>2 DEF Holding
      <4>2. CASE u # t /\ u \in readers
        BY <2>8, <3>1, <4>2 DEF wake_all, Holding
      <4>3. CASE u # t /\ u \notin readers
        BY <2>8, <4>3 DEF wake_all
      <4> QED BY <4>1, <4>2, <4>3
    <3>3. /\ Reading' = Reading /\ Writing' = Writing
          /\ \A u \in Threads : pc'[u] = "clear_readers" <=> pc[u] = "clear_readers"
      BY <3>2 DEF Reading, Writing, Holding
    <3> QED BY <3>1, <3>3
          DEF Safe, Exclusion, ClearsAlone, ReadersWaitBehindWriter, is_write_locked
  <2>9. CASE read_unlock(t)
    <3>1. PICK to \in {"idle", "wake_only_writers", "wake_both", "wake_readers"} :
            pc' = [pc EXCEPT ![t] = to]
      BY <2>9 DEF read_unlock, Goto, WakeFrom
    <3> QED BY <2>9, <3>1, ReadUnlockStep DEF read_unlock, Goto, Holding
  <2>10. CASE write_unlock(t)
    <3>1. PICK to \in {"idle", "wake_only_writers", "wake_both", "wake_readers"} :
            pc' = [pc EXCEPT ![t] = to]
      BY <2>10 DEF write_unlock, Goto, WakeFrom
    <3>2. state'.n = 0
      BY <2>10, <1>0 DEF write_unlock, Words
    <3> QED BY <2>10, <3>1, <3>2, WriteUnlockStep DEF write_unlock, Goto, Holding
  <2>11. CASE clear_readers(t)
    BY <2>11, ClearReadersStep
  <2>12. CASE wake_writer_or_readers(t)
    <3>1. Outside
      BY <2>12, <1>0 DEF wake_writer_or_readers, WakeFrom, Outside, Holding
    <3>2. state' = state \/ (state.n = 0 /\ state'.n = 0)
      BY <2>12 DEF wake_writer_or_readers, Unlocked
    <3> QED BY <3>1, <3>2, QuietStep, ClearStep
  <2> QED BY <1>1, <2>1, <2>2, <2>3, <2>4, <2>5, <2>6, <2>7, <2>8, <2>9, <2>10, <2>11, <2>12
        DEF Progress
<1>2. ASSUME NEW t \in Threads, call(t) \/ interrupted(t) PROVE Safe'
  <2>1. state' = state /\ Outside
    BY <1>2, <1>0 DEF call, interrupted, Goto, Outside, Holding
  <2> QED BY <2>1, QuietStep
<1>3. ASSUME NEW t \in Threads, downgrade(t) PROVE Safe'
  BY <1>3, DowngradeStep
<1>4. CASE UNCHANGED vars
  <2>1. state' = state /\ Outside
    BY <1>4 DEF vars, Outside
  <2> QED BY <2>1, QuietStep
<1> QED BY <1>1, <1>2, <1>3, <1>4 DEF Next

\* The invariant holds in every execution, whatever the number of threads, of
\* calls and of readers that the word can count.
THEOREM RwLockCorrect == Spec => []IInv
<1>1. IInv /\ [Next]_vars => IInv'
  BY TypeStep, SafeStep DEF IInv, Safe
<1> QED BY <1>1, InitIInv, PTL DEF Spec

\* Readers and writers exclude each other, and the word says who is there.
THEOREM RwLockExclusive == Spec => []Exclusion
<1>1. IInv => Exclusion BY DEF IInv
<1> QED BY <1>1, RwLockCorrect, PTL

\* read_unlock's and downgrade's assumptions about the waiting bits hold.
THEOREM RwLockBits == Spec => []ReadersWaitBehindWriter
<1>1. IInv => ReadersWaitBehindWriter BY DEF IInv
<1> QED BY <1>1, RwLockCorrect, PTL

\* The reader count never leaves its 30 bits, and the queues of the two futexes
\* hold exactly the threads that block on them.
THEOREM RwLockTyped == Spec => []TypeOK
<1>1. IInv => TypeOK BY DEF IInv
<1> QED BY <1>1, RwLockCorrect, PTL

-----------------------------------------------------------------------------
(* No blocked thread is forgotten.  SleepersRemembered is not inductive: it *)
(* counts on threads that may have seen an older word.  WillMark and Cares  *)
(* single out the ones whose next steps do not depend on that.              *)

\* The word that a reader goes to sleep on has the readers' bit.
SleepsMarked(t) == pc[t] \in {"read_wait", "read_blocked"} => seen[t].rw

\* A writer that has loaded the notification counter knows of other writers.
KnowsOthers(t) == pc[t] \in {"check_state", "write_wait", "write_blocked"} => t \in others

\* A writer that sleeps, or is about to, on the present notification counter.
UpToDate(t) == t \in current /\ pc[t] \in {"write_wait", "write_blocked"}

\* A thread that will wake the readers.
WakesReaders(t) == pc[t] \in {"wake_all", "downgrade_wake"}

\* A thread that will make all counters loaded so far out of date.
Notifies(t) == pc[t] \in {"notify_writer", "notify_writer_first"}

\* A writer that will set the writers' bit before it sleeps again: it has not
\* seen a word on the strength of which it would leave that to others.
WillMark(t) ==
  /\ t \in others
  /\ pc[t] = "spin_write" \/ (pc[t] = "write_loop" /\ (is_unlocked(seen[t]) \/ ~seen[t].ww))

\* A thread that will not leave an unlocked word with a bit as it is.
Cares(t) ==
  \/ pc[t] \in {"spin_write", "write_loop", "load_seq", "check_state", "wake_only_writers"}
  \/ pc[t] = "write_wait" /\ t \notin current
  \/ pc[t] = "wake_both" /\ state.rw /\ state.ww
  \/ pc[t] \in {"notify_writer_first", "wake_writer_first", "wake_readers"} /\ state.rw /\ ~state.ww

Noisy == is_unlocked(state) /\ (state.rw \/ state.ww)

Remembered ==
  /\ \A t \in Threads : SleepsMarked(t) /\ KnowsOthers(t)
  /\ readers # {} => state.rw \/ \E t \in Threads : WakesReaders(t)
  /\ writers # {} => state.ww \/ \E t \in Threads : WillMark(t) \/ Waking(t)
  /\ (\E t \in Threads : UpToDate(t)) => state.ww \/ \E t \in Threads : WillMark(t) \/ Notifies(t)
  /\ Noisy => \E t \in Threads : Cares(t)

\* What a step of t alone, with the word changed or not, has to respect.
Respects(t) ==
  /\ \A u \in Threads \ {t} : /\ pc'[u] = pc[u] /\ seen'[u] = seen[u]
                              /\ u \in others' <=> u \in others
                              /\ u \in current' <=> u \in current
  /\ readers' \subseteq readers \cup {t} /\ writers' \subseteq writers \cup {t}
  /\ t \in readers' \ readers => state'.rw
  /\ t \in writers' \ writers => UpToDate(t)
  /\ state.rw => state'.rw \/ WakesReaders(t)'
  /\ WakesReaders(t) => WakesReaders(t)'
  /\ state.ww => state'.ww \/ Notifies(t)'
  /\ WillMark(t) => WillMark(t)' \/ state'.ww
  /\ Waking(t) => Waking(t)'
  /\ Notifies(t) => Notifies(t)'
  /\ UpToDate(t)' => UpToDate(t) \/ state'.ww
  /\ SleepsMarked(t)' /\ KnowsOthers(t)'
  /\ Noisy' => \/ Cares(t)'
               \/ Noisy /\ ~Cares(t) /\ \A u \in Threads \ {t} : Cares(u) => Cares(u)'

\* Such a step forgets nobody.
LEMMA RespectfulStep ==
  ASSUME Remembered, NEW t \in Threads, Respects(t)
  PROVE  Remembered'
<1>1. \A u \in Threads \ {t} : /\ SleepsMarked(u)' <=> SleepsMarked(u)
                               /\ KnowsOthers(u)' <=> KnowsOthers(u)
                               /\ UpToDate(u)' <=> UpToDate(u)
                               /\ WakesReaders(u)' <=> WakesReaders(u)
                               /\ Notifies(u)' <=> Notifies(u)
                               /\ Waking(u)' <=> Waking(u)
                               /\ WillMark(u)' <=> WillMark(u)
  BY DEF Respects, SleepsMarked, KnowsOthers, UpToDate, WakesReaders, Notifies, Waking, WillMark
<1>2. \A u \in Threads : SleepsMarked(u)' /\ KnowsOthers(u)'
  BY <1>1 DEF Respects, Remembered
<1>3. readers' # {} => state'.rw \/ \E u \in Threads : WakesReaders(u)'
  <2>1. CASE readers # {}
    <3>1. CASE state.rw
      BY <3>1 DEF Respects
    <3>2. CASE \E u \in Threads : WakesReaders(u)
      BY <1>1, <3>2 DEF Respects
    <3> QED
      BY <2>1, <3>1, <3>2 DEF Remembered
  <2>2. CASE readers = {}
    BY <2>2 DEF Respects
  <2> QED
    BY <2>1, <2>2
<1>4. (\E u \in Threads : UpToDate(u)')
        => state'.ww \/ \E u \in Threads : WillMark(u)' \/ Notifies(u)'
  <2>1. SUFFICES ASSUME \E u \in Threads : UpToDate(u)
                 PROVE  state'.ww \/ \E u \in Threads : WillMark(u)' \/ Notifies(u)'
    BY <1>1 DEF Respects
  <2>2. CASE state.ww
    BY <2>2 DEF Respects
  <2>3. CASE \E u \in Threads : WillMark(u) \/ Notifies(u)
    BY <1>1, <2>3 DEF Respects
  <2> QED
    BY <2>1, <2>2, <2>3 DEF Remembered
<1>5. writers' # {} => state'.ww \/ \E u \in Threads : WillMark(u)' \/ Waking(u)'
  <2>1. \A u \in Threads : Notifies(u)' => Waking(u)'
    BY DEF Notifies, Waking
  <2>2. CASE writers # {}
    <3>1. CASE state.ww
      BY <2>1, <3>1 DEF Respects
    <3>2. CASE \E u \in Threads : WillMark(u) \/ Waking(u)
      BY <1>1, <3>2 DEF Respects
    <3> QED
      BY <2>2, <3>1, <3>2 DEF Remembered
  <2>3. CASE writers = {} /\ writers' # {}
    <3>1. UpToDate(t)
      BY <2>3 DEF Respects
    <3>2. state.ww \/ \E u \in Threads : WillMark(u) \/ Notifies(u)
      BY <3>1 DEF Remembered
    <3>3. CASE state.ww
      BY <2>1, <3>3 DEF Respects
    <3>4. CASE \E u \in Threads : WillMark(u) \/ Notifies(u)
      BY <1>1, <2>1, <3>4 DEF Respects
    <3> QED
      BY <3>2, <3>3, <3>4
  <2> QED
    BY <2>2, <2>3
<1>6. Noisy' => \E u \in Threads : Cares(u)'
  BY DEF Respects, Remembered
<1> QED
  BY <1>2, <1>3, <1>4, <1>5, <1>6 DEF Remembered

\* A step of t to x that leaves the word and the queues alone.
Local(t, x) ==
  /\ x \in Locs /\ pc' = [pc EXCEPT ![t] = x]
  /\ state' = state /\ UNCHANGED <<readers, writers, current>>
  /\ \A u \in Threads \ {t} : seen'[u] = seen[u] /\ (u \in others' <=> u \in others)
  /\ ~WakesReaders(t) /\ ~Waking(t)
  /\ WillMark(t) => WillMark(t)' \/ state.ww
  /\ x = "write_wait" => state.ww
  /\ x # "write_blocked"
  /\ SleepsMarked(t)' /\ KnowsOthers(t)'
  /\ Noisy /\ Cares(t) => Cares(t)'

\* The word is left alone: nobody else's care depends on the step.
LEMMA CaresKept ==
  ASSUME state' = state, NEW u \in Threads, pc'[u] = pc[u], u \in current' <=> u \in current
  PROVE  (Noisy' <=> Noisy) /\ (Cares(u)' <=> Cares(u))
  BY DEF Noisy, Cares

\* Such a step forgets nobody.
LEMMA OwnStep ==
  ASSUME Remembered, TypeOK, NEW t \in Threads, NEW x, Local(t, x)
  PROVE  Remembered'
<1>1. pc'[t] = x /\ \A u \in Threads \ {t} : pc'[u] = pc[u]
  BY DEF TypeOK, Local
<1>2. \A u \in Threads \ {t} : Cares(u) => Cares(u)'
  BY <1>1, CaresKept DEF Local
<1>3. Noisy' <=> Noisy
  BY DEF Noisy, Local
<1>4. ~Notifies(t)
  BY DEF Notifies, Waking, Local
<1>5. UpToDate(t)' => state.ww
  BY <1>1 DEF UpToDate, Local
<1>6. Respects(t)
  BY <1>1, <1>2, <1>3, <1>4, <1>5 DEF Respects, Local
<1>7. Remembered'
  BY <1>6, RespectfulStep
<1>q. QED BY <1>7

\* The steps that leave the word and the queues alone.
LEMMA OwnSteps ==
  ASSUME Remembered, TypeOK, NEW t \in Threads, NEW x, Goto(t, pc[t], x), state' = state,
         UNCHANGED <<readers, writers, current>>,
         \/ call(t) \/ try_lock(t) \/ read(t) \/ write(t) \/ spin_until(t) \/ read_contended(t)
         \/ read_wait(t) \/ write_contended(t) \/ check_state(t) \/ write_wait(t)
  PROVE  Remembered'
<1> USE DEF Goto
<1>1. pc \in [Threads -> Locs] /\ pc'[t] = x /\ seen \in [Threads -> Words] /\ state \in Words
  BY DEF TypeOK
<1>2. seen[t] \in Words /\ \A s \in Words : s.n \in Nat /\ s.rw \in BOOLEAN /\ s.ww \in BOOLEAN
  BY <1>1, WordUpdate
<1>3. CASE call(t)
  <2>1. pc[t] = "idle" /\ x \in {"read", "write", "try"} /\ seen' = seen /\ others' = others
    BY <1>1, <1>3 DEF call, localVars
  <2>2. Local(t, x)
    BY <1>1, <2>1 DEF Local, Locs, WakesReaders, Waking, WillMark, SleepsMarked, KnowsOthers, Cares
  <2> QED BY <2>2, OwnStep
<1>4. CASE try_lock(t)
  <2>1. pc[t] = "try" /\ x \in {"idle", "reading", "writing"} /\ seen' = seen /\ others' = others
    BY <1>1, <1>4 DEF try_lock, localVars
  <2>2. Local(t, x)
    BY <1>1, <2>1 DEF Local, Locs, WakesReaders, Waking, WillMark, SleepsMarked, KnowsOthers, Cares
  <2> QED BY <2>2, OwnStep
<1>5. CASE read(t) \/ write(t)
  <2>1. /\ pc[t] \in {"read", "write"} /\ x \in {"spin_read", "spin_write", "reading", "writing"}
        /\ seen' = seen /\ others' = others
    BY <1>1, <1>5 DEF read, write, localVars
  <2>2. Local(t, x)
    BY <1>1, <2>1 DEF Local, Locs, WakesReaders, Waking, WillMark, SleepsMarked, KnowsOthers, Cares
  <2> QED BY <2>2, OwnStep
<1>6. CASE spin_until(t)
  <2>1. /\ \/ pc[t] = "spin_read" /\ x = "read_loop"
           \/ pc[t] = "spin_write" /\ x = "write_loop"
        /\ seen' = [seen EXCEPT ![t] = state] /\ others' = others
    BY <1>1, <1>6 DEF spin_until
  <2>2. WillMark(t) => WillMark(t)' \/ state.ww
    BY <1>1, <1>2, <2>1 DEF WillMark
  <2>3. Local(t, x)
    BY <1>1, <2>1, <2>2 DEF Local, Locs, WakesReaders, Waking, SleepsMarked, KnowsOthers, Cares
  <2> QED BY <2>3, OwnStep
<1>7. CASE read_contended(t)
  <2>1. /\ pc[t] = "read_loop" /\ x \in {"idle", "read_wait", "read_loop", "reading"}
        /\ \A u \in Threads \ {t} : seen'[u] = seen[u] /\ (u \in others' <=> u \in others)
    BY <1>1, <1>7 DEF read_contended, Returns, Changed, localVars
  <2>2. x = "read_wait" => seen'[t].rw
    <3>1. CASE seen' = [seen EXCEPT ![t] = [seen[t] EXCEPT !.rw = TRUE]]
      BY <1>1, <1>2, <3>1 DEF Words
    <3>2. CASE seen' = seen /\ seen[t].rw
      BY <3>2
    <3> QED BY <1>1, <1>7, <3>1, <3>2 DEF read_contended, Returns, Changed, localVars, Exchanged
  <2>3. SleepsMarked(t)'
    BY <1>1, <2>1, <2>2 DEF SleepsMarked
  <2>4. Local(t, x)
    BY <1>1, <2>1, <2>3 DEF Local, Locs, WakesReaders, Waking, WillMark, KnowsOthers, Cares
  <2> QED BY <2>4, OwnStep
<1>8. CASE read_wait(t)
  <2>1. pc[t] = "read_wait" /\ x = "spin_read" /\ seen' = seen /\ others' = others
    BY <1>1, <1>8 DEF read_wait, TypeOK
  <2>2. Local(t, x)
    BY <1>1, <2>1 DEF Local, Locs, WakesReaders, Waking, WillMark, SleepsMarked, KnowsOthers, Cares
  <2> QED BY <2>2, OwnStep
<1>9. CASE write_contended(t)
  <2>1. /\ pc[t] = "write_loop" /\ x \in {"write_loop", "load_seq"}
        /\ x = "write_loop" => seen' = [seen EXCEPT ![t] = state] /\ others' = others
        /\ x = "load_seq" => seen' = seen /\ others' = others
                             /\ ~is_unlocked(seen[t]) /\ (seen[t].ww \/ state.ww)
    <3>1. CASE x = "writing"
      <4>1. state'.n = WRITE_LOCKED /\ state.n = 0
        BY <1>1, <1>9, <3>1 DEF write_contended, Changed, Returns, Exchanged, is_unlocked
      <4> QED BY <4>1, ConstantsAssumption DEF WRITE_LOCKED
    <3>2. CASE Changed(t, "write_loop")
      BY <1>1, <3>2 DEF Changed
    <3>3. CASE /\ ~is_unlocked(seen[t])
               /\ \/ seen[t].ww /\ UNCHANGED state
                  \/ ~seen[t].ww /\ Exchanged(t, [seen[t] EXCEPT !.ww = TRUE])
               /\ Goto(t, "write_loop", "load_seq")
               /\ UNCHANGED localVars
      <4>1. seen[t].ww \/ state.ww
        BY <1>2, <3>3 DEF Exchanged, Words
      <4> QED BY <1>1, <3>3, <4>1 DEF localVars
    <3> QED BY <1>1, <1>9, <3>1, <3>2, <3>3 DEF write_contended, Returns
  <2>2. WillMark(t) => WillMark(t)' \/ state.ww
    BY <1>1, <1>2, <2>1 DEF WillMark
  <2>3. Local(t, x)
    BY <1>1, <2>1, <2>2 DEF Local, Locs, WakesReaders, Waking, SleepsMarked, KnowsOthers, Cares
  <2> QED BY <2>3, OwnStep
<1>10. CASE check_state(t)
  <2>1. /\ pc[t] = "check_state" /\ seen' = [seen EXCEPT ![t] = state] /\ others' = others
        /\ x \in {"write_loop", "write_wait"}
        /\ x = "write_wait" => state.ww /\ ~is_unlocked(state)
    BY <1>1, <1>10 DEF check_state
  <2>2. t \in others
    BY <2>1 DEF Remembered, KnowsOthers
  <2>3. Local(t, x)
    BY <1>1, <2>1, <2>2
      DEF Local, Locs, WakesReaders, Waking, WillMark, SleepsMarked, KnowsOthers, Cares, Noisy
  <2> QED BY <2>3, OwnStep
<1>11. CASE write_wait(t)
  <2>1. /\ pc[t] = "write_wait" /\ x = "spin_write" /\ seen' = seen /\ others' = others
    BY <1>1, <1>11 DEF write_wait, TypeOK, localVars
  <2>2. Local(t, x)
    BY <1>1, <2>1 DEF Local, Locs, WakesReaders, Waking, WillMark, SleepsMarked, KnowsOthers, Cares
  <2> QED BY <2>2, OwnStep
<1> QED
  BY <1>3, <1>4, <1>5, <1>6, <1>7, <1>8, <1>9, <1>10, <1>11

\* A step of t leaves the others where they are.
LEMMA OthersSame ==
  ASSUME TypeOK, NEW t \in Threads, NEW x, pc' = [pc EXCEPT ![t] = x]
  PROVE  pc'[t] = x /\ \A u \in Threads \ {t} : pc'[u] = pc[u]
BY DEF TypeOK

\* futex_wait puts a thread into a queue, a signal takes it out again, and
\* load_seq makes the notification counter known.
LEMMA QueueSteps ==
  ASSUME Remembered, TypeOK, NEW t \in Threads, NEW x, Goto(t, pc[t], x),
         \/ read_wait(t) /\ x = "read_blocked"
         \/ write_wait(t) /\ x = "write_blocked"
         \/ interrupted(t) \/ load_seq(t)
  PROVE  Remembered'
<1>1. /\ pc'[t] = x /\ \A u \in Threads \ {t} : pc'[u] = pc[u]
      /\ SleepsMarked(t) /\ KnowsOthers(t) /\ pc \in [Threads -> Locs]
  BY OthersSame DEF Goto, Remembered, TypeOK
<1>2. \A u \in Threads \ {t} : state' = state /\ (u \in current' <=> u \in current)
                               => (Cares(u)' <=> Cares(u))
  BY <1>1, CaresKept
<1>3. state' = state => (Noisy' <=> Noisy)
  BY DEF Noisy
<1> USE DEF WakesReaders, Waking, WillMark, Notifies, UpToDate, SleepsMarked, KnowsOthers
<1>4. CASE read_wait(t) /\ x = "read_blocked"
  <2>1. /\ pc[t] = "read_wait" /\ state = seen[t] /\ readers' = readers \cup {t}
        /\ state' = state /\ writers' = writers /\ seen' = seen /\ others' = others
        /\ current' = current
    BY <1>1, <1>4 DEF read_wait, Goto
  <2>2. ~Cares(t)
    BY <2>1 DEF Cares
  <2>3. Respects(t)
    BY <1>1, <1>2, <1>3, <1>4, <2>1, <2>2 DEF Respects
  <2> QED BY <2>3, RespectfulStep
<1>5. CASE write_wait(t) /\ x = "write_blocked"
  <2>1. /\ pc[t] = "write_wait" /\ t \in current /\ writers' = writers \cup {t}
        /\ state' = state /\ readers' = readers /\ seen' = seen /\ others' = others
        /\ current' = current
    BY <1>1, <1>5 DEF write_wait, Goto, localVars
  <2>2. ~Cares(t)
    BY <2>1 DEF Cares
  <2>3. Respects(t)
    BY <1>1, <1>2, <1>3, <1>5, <2>1, <2>2 DEF Respects
  <2> QED BY <2>3, RespectfulStep
<1>6. CASE interrupted(t)
  <2>1. /\ \/ pc[t] = "read_blocked" /\ x \in {"read_wait", "spin_read"}
           \/ pc[t] = "write_blocked" /\ x \in {"write_wait", "spin_write"}
        /\ state' = state /\ readers' = readers \ {t} /\ writers' = writers \ {t}
        /\ seen' = seen /\ others' = others /\ current' = current
    BY <1>1, <1>6 DEF interrupted, Goto
  <2>2. ~Cares(t)
    BY <2>1 DEF Cares
  <2>3. Respects(t)
    BY <1>1, <1>2, <1>3, <2>1, <2>2 DEF Respects
  <2> QED BY <2>3, RespectfulStep
<1>7. CASE load_seq(t)
  <2>1. /\ pc[t] = "load_seq" /\ x = "check_state" /\ state' = state
        /\ readers' = readers /\ writers' = writers /\ seen' = seen
        /\ others' = others \cup {t} /\ current' = current \cup {t}
    BY <1>1, <1>7 DEF load_seq, Goto
  <2>2. Cares(t)'
    BY <1>1, <2>1 DEF Cares
  <2>3. Respects(t)
    BY <1>1, <1>3, <2>1, <2>2 DEF Respects
  <2> QED BY <2>3, RespectfulStep
<1> QED
  BY <1>4, <1>5, <1>6, <1>7

\* A thread takes the lock, or marks a word that somebody holds: the bits stay,
\* and the word is not unlocked.
Takes(t, x) ==
  /\ pc' = [pc EXCEPT ![t] = x] /\ pc[t] \in {"try", "read", "write", "read_loop", "write_loop"}
  /\ x \in {"reading", "writing", "load_seq"}
  /\ state'.n # 0 /\ state'.rw = state.rw /\ (state.ww => state'.ww)
  /\ pc[t] = "write_loop" /\ t \in others => state'.ww
  /\ UNCHANGED kernelVars
  /\ \A u \in Threads \ {t} : seen'[u] = seen[u] /\ (u \in others' <=> u \in others)

\* Such a step forgets nobody: a writer that stands for others takes the bit
\* with it.
LEMMA TakeStep ==
  ASSUME Remembered, TypeOK, NEW t \in Threads, NEW x, Takes(t, x)
  PROVE  Remembered'
<1>1. pc'[t] = x /\ \A u \in Threads \ {t} : pc'[u] = pc[u]
  BY OthersSame DEF Takes
<1>2. ~Noisy'
  BY DEF Takes, Noisy, is_unlocked
<1>3. Respects(t)
  BY <1>1, <1>2
    DEF Takes, kernelVars, Respects, WakesReaders, Waking, WillMark, Notifies, UpToDate,
        SleepsMarked, KnowsOthers
<1> QED
  BY <1>3, RespectfulStep

\* The successful compare_exchanges of the locking code.
LEMMA LockSteps ==
  ASSUME Remembered, TypeOK, NEW t \in Threads, NEW x, Goto(t, pc[t], x), state' # state,
         try_lock(t) \/ read(t) \/ write(t) \/ read_contended(t) \/ write_contended(t)
  PROVE  Remembered'
<1> USE DEF Goto
<1>1. /\ pc'[t] = x /\ \A u \in Threads \ {t} : pc'[u] = pc[u]
      /\ state \in Words /\ seen \in [Threads -> Words] /\ pc \in [Threads -> Locs]
  BY OthersSame DEF TypeOK
<1>2. \A s \in Words : s.n \in Nat /\ s.rw \in BOOLEAN /\ s.ww \in BOOLEAN
  BY WordUpdate
<1>3. ASSUME NEW k \in Nat \ {0}, state' = [state EXCEPT !.n = k]
      PROVE  state'.n # 0 /\ state'.rw = state.rw /\ state'.ww = state.ww
  BY <1>1, <1>3 DEF Words
<1>4. state.n + 1 \in Nat \ {0} /\ WRITE_LOCKED \in Nat \ {0}
  BY <1>1, <1>2, ConstantsAssumption DEF WRITE_LOCKED
<1>5. CASE try_lock(t) \/ read(t) \/ write(t)
  <2>1. /\ \/ state' = [state EXCEPT !.n = state.n + 1]
           \/ state' = [state EXCEPT !.n = WRITE_LOCKED]
        /\ pc[t] \in {"try", "read", "write"} /\ x \in {"reading", "writing"}
        /\ UNCHANGED kernelVars /\ seen' = seen /\ others' = others
    BY <1>1, <1>5 DEF try_lock, read, write, localVars
  <2>2. state'.n # 0 /\ state'.rw = state.rw /\ state'.ww = state.ww
    BY <1>3, <1>4, <2>1
  <2>3. Takes(t, x)
    BY <2>1, <2>2 DEF Takes
  <2> QED BY <2>3, TakeStep
<1>6. CASE read_contended(t)
  <2> DEFINE lockable == \/ is_read_lockable(seen[t])
                         \/ t \in slept /\ is_read_lockable_after_wakeup(seen[t])
  <2>0. UNCHANGED kernelVars
    BY <1>6 DEF read_contended
  <2>1. CASE /\ Exchanged(t, [seen[t] EXCEPT !.n = @ + 1])
             /\ Returns(t, "read_loop", "reading")
    <3>1. /\ state' = [state EXCEPT !.n = state.n + 1]
          /\ pc[t] = "read_loop" /\ x = "reading"
          /\ seen' = [seen EXCEPT ![t] = Unlocked] /\ others' = others \ {t}
      BY <1>1, <2>1 DEF Exchanged, Returns
    <3>2. state'.n # 0 /\ state'.rw = state.rw /\ state'.ww = state.ww
      BY <1>3, <1>4, <3>1
    <3>3. Takes(t, x)
      BY <1>1, <2>0, <3>1, <3>2 DEF Takes
    <3> QED BY <3>3, TakeStep
  <2>2. CASE /\ ~lockable /\ ~seen[t].rw
             /\ Exchanged(t, [seen[t] EXCEPT !.rw = TRUE])
             /\ Goto(t, "read_loop", "read_wait")
             /\ seen' = [seen EXCEPT ![t] = state']
             /\ UNCHANGED <<slept, others>>
    <3>1. /\ state' = [state EXCEPT !.rw = TRUE] /\ ~is_read_lockable(state) /\ ~state.rw
          /\ pc[t] = "read_loop" /\ x = "read_wait" /\ others' = others
          /\ seen'[t] = state' /\ \A u \in Threads \ {t} : seen'[u] = seen[u]
      BY <1>1, <2>2 DEF Exchanged
    <3>2. state'.n = state.n /\ state'.rw /\ state'.ww = state.ww
      BY <1>1, <3>1 DEF Words
    <3>3. is_unlocked(state) => state.ww
      BY <1>1, <3>1, ConstantsAssumption DEF is_unlocked, is_read_lockable
    <3>4. Noisy' => Noisy /\ state.ww
      BY <3>2, <3>3 DEF Noisy, is_unlocked
    <3>5. current' = current /\ readers' = readers /\ writers' = writers
      BY <2>0 DEF kernelVars
    <3>6. \A u \in Threads \ {t} : Cares(u) /\ state.ww => Cares(u)'
      BY <1>1, <3>2, <3>5 DEF Cares
    <3>7. ~Cares(t)
      BY <3>1 DEF Cares
    <3>8. Respects(t)
      BY <1>1, <3>1, <3>2, <3>4, <3>5, <3>6, <3>7
        DEF Respects, WakesReaders, Waking, WillMark, Notifies, UpToDate, SleepsMarked, KnowsOthers
    <3> QED BY <3>8, RespectfulStep
  <2> QED BY <1>6, <2>1, <2>2 DEF read_contended, Changed
<1>7. CASE write_contended(t)
  <2>0. UNCHANGED kernelVars
    BY <1>7 DEF write_contended
  <2>1. CASE /\ Exchanged(t, [n |-> WRITE_LOCKED, rw |-> seen[t].rw, ww |-> seen[t].ww \/ t \in others])
             /\ Returns(t, "write_loop", "writing")
    <3>1. /\ state' = [n |-> WRITE_LOCKED, rw |-> state.rw, ww |-> state.ww \/ t \in others]
          /\ pc[t] = "write_loop" /\ x = "writing"
          /\ seen' = [seen EXCEPT ![t] = Unlocked] /\ others' = others \ {t}
      BY <1>1, <2>1 DEF Exchanged, Returns
    <3>2. /\ state'.n # 0 /\ state'.rw = state.rw /\ (state.ww => state'.ww)
          /\ t \in others => state'.ww
      BY <1>4, <3>1
    <3>3. Takes(t, x)
      BY <1>1, <2>0, <3>1, <3>2 DEF Takes
    <3> QED BY <3>3, TakeStep
  <2>2. CASE /\ ~is_unlocked(seen[t]) /\ Exchanged(t, [seen[t] EXCEPT !.ww = TRUE])
             /\ Goto(t, "write_loop", "load_seq")
             /\ UNCHANGED localVars
    <3>1. /\ state' = [state EXCEPT !.ww = TRUE] /\ ~is_unlocked(state)
          /\ pc[t] = "write_loop" /\ x = "load_seq" /\ others' = others /\ seen' = seen
      BY <1>1, <2>2 DEF Exchanged, localVars
    <3>2. state'.n = state.n /\ state'.ww /\ state'.rw = state.rw
      BY <1>1, <3>1 DEF Words
    <3>3. state'.n # 0
      BY <3>1, <3>2 DEF is_unlocked
    <3>4. Takes(t, x)
      BY <2>0, <3>1, <3>2, <3>3 DEF Takes
    <3> QED BY <3>4, TakeStep
  <2> QED BY <1>7, <2>1, <2>2 DEF write_contended, Changed
<1> QED
  BY <1>5, <1>6, <1>7

\* A word is told by its parts.
LEMMA WordParts ==
  ASSUME NEW s \in Words, s.n = 0
  PROVE  /\ (~s.rw /\ s.ww) => s = [n |-> 0, rw |-> FALSE, ww |-> TRUE]
         /\ (s.rw /\ s.ww) => s = [n |-> 0, rw |-> TRUE, ww |-> TRUE]
         /\ (s.rw /\ ~s.ww) => s = [n |-> 0, rw |-> TRUE, ww |-> FALSE]
<1>1. s = [n |-> s.n, rw |-> s.rw, ww |-> s.ww] /\ s.rw \in BOOLEAN /\ s.ww \in BOOLEAN
  BY DEF Words
<1> QED
  BY <1>1

\* The thread that finds a bit in the word that it has unlocked is at the
\* right place to act on it.
LEMMA WakesRight ==
  ASSUME NEW t \in Threads, state' \in Words, pc'[t] = WakeFrom(state')
  PROVE  /\ Noisy' => Cares(t)'
         /\ pc'[t] \in {"wake_only_writers", "wake_both", "wake_readers", "idle"}
<1>1. state'.n \in Nat /\ state'.rw \in BOOLEAN /\ state'.ww \in BOOLEAN
  BY WordUpdate
<1>2. pc'[t] \in {"wake_only_writers", "wake_both", "wake_readers", "idle"}
  BY DEF WakeFrom
<1>3. ASSUME Noisy' PROVE Cares(t)'
  <2>1. state'.n = 0 /\ (state'.rw \/ state'.ww)
    BY <1>3 DEF Noisy, is_unlocked
  <2>2. CASE state'.ww /\ ~state'.rw
    BY <2>1, <2>2 DEF WakeFrom, Cares
  <2>3. CASE state'.ww /\ state'.rw
    BY <2>1, <2>3 DEF WakeFrom, Cares
  <2>4. CASE ~state'.ww /\ state'.rw
    BY <2>1, <2>4 DEF WakeFrom, Cares
  <2> QED
    BY <2>1, <2>2, <2>3, <2>4
<1> QED
  BY <1>2, <1>3

\* The holder of the lock lets it go, or keeps it as a reader.
LEMMA UnlockSteps ==
  ASSUME Remembered, IInv, TypeOK', NEW t \in Threads,
         read_unlock(t) \/ write_unlock(t) \/ downgrade(t) \/ clear_readers(t)
  PROVE  Remembered'
<1>0. PICK x : Goto(t, pc[t], x)
  BY DEF read_unlock, write_unlock, downgrade, clear_readers, Goto
<1>1. /\ pc'[t] = x /\ \A u \in Threads \ {t} : pc'[u] = pc[u]
      /\ state \in Words /\ state' \in Words /\ pc \in [Threads -> Locs]
  BY <1>0, OthersSame DEF Goto, IInv, TypeOK
<1>2. UNCHANGED kernelVars /\ seen' = seen /\ others' = others
  BY DEF read_unlock, write_unlock, downgrade, clear_readers, localVars
<1>3. ASSUME pc[t] \in {"reading", "writing", "clear_readers"},
             x \in {"idle", "wake_only_writers", "wake_both", "wake_readers", "reading",
                    "clear_readers", "downgrade_wake"},
             state.rw => state'.rw \/ x = "downgrade_wake",
             state.ww => state'.ww,
             Noisy' => Cares(t)'
      PROVE  Remembered'
  <2>1. Respects(t)
    BY <1>1, <1>2, <1>3
      DEF kernelVars, Respects, WakesReaders, Waking, WillMark, Notifies, UpToDate,
          SleepsMarked, KnowsOthers
  <2> QED BY <2>1, RespectfulStep
<1>4. CASE read_unlock(t)
  <2>1. /\ pc[t] = "reading" /\ state' = [state EXCEPT !.n = state.n - 1]
        /\ x = IF is_unlocked(state') /\ state.ww THEN WakeFrom(state') ELSE "idle"
    BY <1>1, <1>4 DEF read_unlock, Goto
  <2>2. state'.rw = state.rw /\ state'.ww = state.ww
    BY <1>1, <2>1 DEF Words
  <2>3. t \in Reading
    BY <2>1 DEF Reading
  <2>4. \A u \in Threads : pc[u] # "clear_readers"
    BY <2>1, <2>3 DEF IInv, ClearsAlone
  <2>5. state.rw => state.ww
    BY <2>3, <2>4 DEF IInv, ReadersWaitBehindWriter
  <2>6. CASE is_unlocked(state') /\ state.ww
    BY <1>1, <1>3, <2>1, <2>2, <2>6, WakesRight
  <2>7. CASE ~(is_unlocked(state') /\ state.ww)
    <3>1. ~Noisy'
      BY <2>2, <2>5, <2>7 DEF Noisy, is_unlocked
    <3> QED BY <1>1, <1>3, <2>1, <2>2, <2>7, <3>1
  <2> QED BY <2>6, <2>7
<1>5. CASE write_unlock(t)
  <2>1. pc[t] = "writing" /\ state' = [state EXCEPT !.n = 0] /\ x = WakeFrom(state')
    BY <1>1, <1>5 DEF write_unlock, Goto
  <2>2. state'.rw = state.rw /\ state'.ww = state.ww
    BY <1>1, <2>1 DEF Words
  <2> QED BY <1>1, <1>3, <2>1, <2>2, WakesRight
<1>6. CASE downgrade(t)
  <2>1. /\ pc[t] = "writing" /\ state' = [state EXCEPT !.n = 1]
        /\ x \in {"clear_readers", "reading"}
    BY <1>1, <1>6 DEF downgrade, Goto
  <2>2. state'.rw = state.rw /\ state'.ww = state.ww /\ state'.n = 1
    BY <1>1, <2>1 DEF Words
  <2>3. ~Noisy'
    BY <2>2 DEF Noisy, is_unlocked
  <2> QED BY <1>3, <2>1, <2>2, <2>3
<1>7. CASE clear_readers(t)
  <2>1. /\ pc[t] = "clear_readers" /\ state' = [state EXCEPT !.rw = FALSE]
        /\ x = "downgrade_wake"
    BY <1>1, <1>7 DEF clear_readers, Goto
  <2>2. state'.ww = state.ww /\ state'.n = state.n
    BY <1>1, <2>1 DEF Words
  <2>3. Reading # {} /\ Writing = {}
    BY <2>1 DEF IInv, ClearsAlone, Exclusion, Reading
  <2>4. state.n # 0
    BY <2>3, ReadingFinite DEF IInv, Exclusion
  <2>5. ~Noisy'
    BY <2>2, <2>4 DEF Noisy, is_unlocked
  <2> QED BY <1>3, <2>1, <2>2, <2>5
<1> QED
  BY <1>4, <1>5, <1>6, <1>7

\* The compare_exchanges of wake_writer_or_readers.
LEMMA WakeSteps ==
  ASSUME Remembered, TypeOK, TypeOK', NEW t \in Threads, wake_writer_or_readers(t)
  PROVE  Remembered'
<1>0. PICK x : pc' = [pc EXCEPT ![t] = x]
  BY DEF wake_writer_or_readers
<1>1. /\ pc'[t] = x /\ \A u \in Threads \ {t} : pc'[u] = pc[u]
      /\ state \in Words /\ state' \in Words /\ pc \in [Threads -> Locs]
  BY <1>0, OthersSame DEF TypeOK
<1>2. UNCHANGED kernelVars /\ seen' = seen /\ others' = others
  BY DEF wake_writer_or_readers, localVars
<1>3. ASSUME pc[t] \in {"wake_only_writers", "wake_both", "wake_readers"},
             x \in {"idle", "wake_only_writers", "wake_both", "wake_readers",
                    "notify_writer", "notify_writer_first", "wake_all"},
             state.rw => state'.rw \/ x = "wake_all",
             state.ww => state'.ww \/ x \in {"notify_writer", "notify_writer_first"},
             Noisy' => Cares(t)' \/ (state' = state /\ ~Cares(t))
      PROVE  Remembered'
  <2>1. current' = current /\ readers' = readers /\ writers' = writers
    BY <1>2 DEF kernelVars
  <2>2. state' = state => (Noisy' <=> Noisy) /\ \A u \in Threads \ {t} : Cares(u)' <=> Cares(u)
    BY <1>1, <2>1, CaresKept DEF Noisy
  <2>3. Respects(t)
    BY <1>1, <1>2, <1>3, <2>1, <2>2
      DEF Respects, WakesReaders, Waking, WillMark, Notifies, UpToDate, SleepsMarked, KnowsOthers
  <2> QED BY <2>3, RespectfulStep
<1>4. CASE pc[t] = "wake_only_writers"
  <2> DEFINE s == [n |-> 0, rw |-> FALSE, ww |-> TRUE]
  <2>1. /\ state = s => state' = Unlocked /\ x = "notify_writer"
        /\ state # s => state' = state /\ x = WakeFrom(state)
    BY <1>1, <1>4 DEF wake_writer_or_readers
  <2>2. CASE state = s
    <3>1. ~state.rw /\ ~Noisy' /\ x = "notify_writer"
      BY <2>1, <2>2 DEF Noisy, Unlocked, is_unlocked
    <3> QED BY <1>3, <1>4, <3>1
  <2>3. CASE state # s
    <3>1. x = WakeFrom(state')
      BY <2>1, <2>3
    <3> QED BY <1>1, <1>3, <1>4, <2>1, <2>3, <3>1, WakesRight
  <2> QED BY <2>2, <2>3
<1>5. CASE pc[t] = "wake_both"
  <2> DEFINE s == [n |-> 0, rw |-> TRUE, ww |-> TRUE]
  <2>1. /\ state = s => state' = [s EXCEPT !.ww = FALSE] /\ x = "notify_writer_first"
        /\ state # s => state' = state /\ x = "idle"
    BY <1>1, <1>5 DEF wake_writer_or_readers
  <2>2. CASE state = s
    <3>1. state'.rw /\ ~state'.ww /\ x = "notify_writer_first"
      BY <2>1, <2>2
    <3>2. Cares(t)'
      BY <1>1, <3>1 DEF Cares
    <3> QED BY <1>3, <1>5, <3>1, <3>2
  <2>3. CASE state # s
    <3>1. Noisy => ~Cares(t)
      BY <1>1, <1>5, <2>3, WordParts DEF Noisy, Cares, is_unlocked
    <3>2. Noisy' => Noisy
      BY <2>1, <2>3 DEF Noisy
    <3> QED BY <1>3, <1>5, <2>1, <2>3, <3>1, <3>2
  <2> QED BY <2>2, <2>3
<1>6. CASE pc[t] = "wake_readers"
  <2> DEFINE s == [n |-> 0, rw |-> TRUE, ww |-> FALSE]
  <2>1. /\ state = s => state' = Unlocked /\ x = "wake_all"
        /\ state # s => state' = state /\ x = "idle"
    BY <1>1, <1>6 DEF wake_writer_or_readers
  <2>2. CASE state = s
    <3>1. ~state.ww /\ ~Noisy' /\ x = "wake_all"
      BY <2>1, <2>2 DEF Noisy, Unlocked, is_unlocked
    <3> QED BY <1>3, <1>6, <3>1
  <2>3. CASE state # s
    <3>1. Noisy => ~Cares(t)
      BY <1>1, <1>6, <2>3, WordParts DEF Noisy, Cares, is_unlocked
    <3>2. Noisy' => Noisy
      BY <2>1, <2>3 DEF Noisy
    <3> QED BY <1>3, <1>6, <2>1, <2>3, <3>1, <3>2
  <2> QED BY <2>2, <2>3
<1> QED
  BY <1>4, <1>5, <1>6 DEF wake_writer_or_readers

\* A notification puts all loaded counters out of date: no writer can go to
\* sleep on one of them any more.
LEMMA NotifyStep ==
  ASSUME Remembered, TypeOK, NEW t \in Threads, notify_writer(t)
  PROVE  Remembered'
<1>1. PICK x \in {"wake_writer", "wake_writer_first"} :
        /\ pc' = [pc EXCEPT ![t] = x] /\ Notifies(t)
        /\ pc[t] = "notify_writer_first" => x = "wake_writer_first"
  BY DEF notify_writer, Goto, Notifies
<1>2. pc'[t] = x /\ \A u \in Threads \ {t} : pc'[u] = pc[u]
  BY <1>1, OthersSame
<1>3. /\ current' = {} /\ state' = state /\ readers' = readers /\ writers' = writers
      /\ seen' = seen /\ others' = others
  BY DEF notify_writer, localVars
<1>4. \A u \in Threads : /\ SleepsMarked(u)' /\ KnowsOthers(u)'
                         /\ WakesReaders(u) => WakesReaders(u)'
                         /\ WillMark(u) => WillMark(u)'
                         /\ Waking(u) => Waking(u)'
                         /\ ~UpToDate(u)'
  BY <1>1, <1>2, <1>3
    DEF Remembered, SleepsMarked, KnowsOthers, WakesReaders, WillMark, Waking, UpToDate, Notifies
<1>5. \A u \in Threads : Cares(u) => Cares(u)'
  BY <1>1, <1>2, <1>3 DEF Cares, Notifies
<1>6. Noisy' <=> Noisy
  BY <1>3 DEF Noisy
<1> QED
  BY <1>3, <1>4, <1>5, <1>6 DEF Remembered

\* A writer that is woken sets the writers' bit again before it sleeps, or
\* takes the lock with it: it stands for all writers that still sleep.
LEMMA WakeWriterStep ==
  ASSUME Remembered, TypeOK, NEW t \in Threads, wake_writer(t)
  PROVE  Remembered'
<1>1. /\ state' = state /\ current' = current /\ readers' = readers
      /\ seen' = seen /\ others' = others /\ pc \in [Threads -> Locs]
      /\ pc[t] \in {"wake_writer", "wake_writer_first"}
  BY DEF wake_writer, localVars, TypeOK
<1>2. Noisy' <=> Noisy
  BY <1>1 DEF Noisy
<1>3. CASE writers = {} /\ writers' = {}
           /\ pc' = [pc EXCEPT ![t] = IF @ = "wake_writer" THEN "idle" ELSE "wake_readers"]
  <2>1. PICK x \in {"idle", "wake_readers"} :
          /\ pc' = [pc EXCEPT ![t] = x]
          /\ pc[t] = "wake_writer_first" => x = "wake_readers"
    BY <1>1, <1>3
  <2>2. pc'[t] = x /\ \A u \in Threads \ {t} : pc'[u] = pc[u]
    BY <2>1, OthersSame
  <2>3. \A u \in Threads : /\ SleepsMarked(u)' /\ KnowsOthers(u)'
                           /\ WakesReaders(u) => WakesReaders(u)'
                           /\ WillMark(u) => WillMark(u)'
                           /\ Notifies(u) => Notifies(u)'
                           /\ UpToDate(u)' => UpToDate(u)
    BY <1>1, <2>1, <2>2
      DEF Remembered, SleepsMarked, KnowsOthers, WakesReaders, WillMark, UpToDate, Notifies
  <2>4. \A u \in Threads : Cares(u) => Cares(u)'
    BY <1>1, <2>1, <2>2 DEF Cares
  <2> QED BY <1>1, <1>2, <1>3, <2>3, <2>4 DEF Remembered
<1>4. ASSUME NEW w \in writers, writers' = writers \ {w},
             pc' = [pc EXCEPT ![t] = "idle", ![w] = "spin_write"]
      PROVE  Remembered'
  <2>1. w \in Threads /\ pc[w] = "write_blocked" /\ w # t
    BY <1>1, <1>4 DEF TypeOK
  <2>2. /\ pc'[t] = "idle" /\ pc'[w] = "spin_write"
        /\ \A u \in Threads \ {t, w} : pc'[u] = pc[u]
    BY <1>1, <1>4, <2>1
  <2>3. w \in others
    BY <2>1 DEF Remembered, KnowsOthers
  <2>4. WillMark(w)' /\ Cares(w)'
    BY <1>1, <2>2, <2>3 DEF WillMark, Cares
  <2>5. \A u \in Threads : /\ SleepsMarked(u)' /\ KnowsOthers(u)'
                           /\ WakesReaders(u) => WakesReaders(u)'
    BY <1>1, <2>1, <2>2 DEF Remembered, SleepsMarked, KnowsOthers, WakesReaders
  <2> QED BY <1>1, <2>1, <2>4, <2>5 DEF Remembered
<1> QED
  BY <1>3, <1>4 DEF wake_writer

\* futex_wake_all leaves no reader behind.
LEMMA WakeAllStep ==
  ASSUME Remembered, TypeOK, NEW t \in Threads, wake_all(t)
  PROVE  Remembered'
<1>1. /\ state' = state /\ current' = current /\ writers' = writers /\ readers' = {}
      /\ seen' = seen /\ others' = others /\ pc[t] \in {"wake_all", "downgrade_wake"}
  BY DEF wake_all
<1>2. ASSUME NEW u \in Threads
      PROVE  \/ pc'[u] = pc[u]
             \/ /\ pc[u] \in {"wake_all", "downgrade_wake", "read_blocked"}
                /\ pc'[u] \in {"idle", "reading", "spin_read"}
  <2>1. CASE u = t
    BY <1>1, <2>1 DEF wake_all
  <2>2. CASE u # t /\ u \in readers
    BY <2>2 DEF wake_all, TypeOK
  <2>3. CASE u # t /\ u \notin readers
    BY <2>3 DEF wake_all
  <2> QED BY <2>1, <2>2, <2>3
<1>3. \A u \in Threads : /\ SleepsMarked(u)' /\ KnowsOthers(u)'
                         /\ WillMark(u) => WillMark(u)'
                         /\ Notifies(u) => Notifies(u)'
                         /\ Waking(u) => Waking(u)'
                         /\ UpToDate(u)' => UpToDate(u)
  BY <1>1, <1>2
    DEF Remembered, SleepsMarked, KnowsOthers, WillMark, Waking, UpToDate, Notifies
<1>4. \A u \in Threads : Cares(u) => Cares(u)'
  BY <1>1, <1>2 DEF Cares
<1>5. Noisy' <=> Noisy
  BY <1>1 DEF Noisy
<1> QED
  BY <1>1, <1>3, <1>4, <1>5 DEF Remembered

\* No step forgets a blocked thread.
LEMMA RememberedStep == IInv /\ IInv' /\ Remembered /\ [Next]_vars => Remembered'
<1> SUFFICES ASSUME IInv, IInv', Remembered, [Next]_vars PROVE Remembered'
  OBVIOUS
<1>0. TypeOK /\ TypeOK'
  BY DEF IInv
<1>1. CASE UNCHANGED vars
  BY <1>1 DEF vars, Remembered, SleepsMarked, KnowsOthers, WakesReaders, WillMark, Waking,
              UpToDate, Notifies, Cares, Noisy
<1>2. ASSUME NEW t \in Threads, Progress(t) \/ call(t) \/ downgrade(t) \/ interrupted(t)
      PROVE  Remembered'
  <2>1. CASE \/ call(t) \/ try_lock(t) \/ read(t) \/ write(t) \/ spin_until(t)
             \/ read_contended(t) \/ write_contended(t) \/ check_state(t)
    <3>1. PICK x : Goto(t, pc[t], x)
      BY <2>1 DEF call, try_lock, read, write, spin_until, read_contended, write_contended,
                  check_state, Returns, Changed, Goto
    <3>2. UNCHANGED <<readers, writers, current>>
      BY <2>1 DEF call, try_lock, read, write, spin_until, read_contended, write_contended,
                  check_state, kernelVars
    <3>3. CASE state' = state
      BY <1>0, <2>1, <3>1, <3>2, <3>3, OwnSteps
    <3>4. CASE state' # state
      <4>1. try_lock(t) \/ read(t) \/ write(t) \/ read_contended(t) \/ write_contended(t)
        BY <2>1, <3>4 DEF call, spin_until, check_state
      <4> QED BY <1>0, <3>1, <3>4, <4>1, LockSteps
    <3> QED BY <3>3, <3>4
  <2>2. CASE read_wait(t)
    <3>1. CASE Goto(t, "read_wait", "read_blocked")
      <4>1. Goto(t, pc[t], "read_blocked")
        BY <3>1 DEF Goto
      <4> QED BY <1>0, <2>2, <4>1, QueueSteps
    <3>2. CASE Goto(t, "read_wait", "spin_read") /\ readers' = readers
      <4>1. /\ Goto(t, pc[t], "spin_read") /\ state' = state
            /\ UNCHANGED <<readers, writers, current>>
        BY <2>2, <3>2 DEF read_wait, Goto
      <4> QED BY <1>0, <2>2, <4>1, OwnSteps
    <3> QED BY <2>2, <3>1, <3>2 DEF read_wait
  <2>3. CASE write_wait(t)
    <3>1. CASE Goto(t, "write_wait", "write_blocked")
      <4>1. Goto(t, pc[t], "write_blocked")
        BY <3>1 DEF Goto
      <4> QED BY <1>0, <2>3, <4>1, QueueSteps
    <3>2. CASE Goto(t, "write_wait", "spin_write") /\ writers' = writers
      <4>1. /\ Goto(t, pc[t], "spin_write") /\ state' = state
            /\ UNCHANGED <<readers, writers, current>>
        BY <2>3, <3>2 DEF write_wait, Goto
      <4> QED BY <1>0, <2>3, <4>1, OwnSteps
    <3> QED BY <2>3, <3>1, <3>2 DEF write_wait
  <2>4. CASE interrupted(t) \/ load_seq(t)
    <3>1. PICK x : Goto(t, pc[t], x)
      BY <2>4 DEF interrupted, load_seq, Goto
    <3> QED BY <1>0, <2>4, <3>1, QueueSteps
  <2>5. CASE read_unlock(t) \/ write_unlock(t) \/ downgrade(t) \/ clear_readers(t)
    BY <1>0, <2>5, UnlockSteps
  <2>6. CASE wake_writer_or_readers(t)
    BY <1>0, <2>6, WakeSteps
  <2>7. CASE notify_writer(t)
    BY <1>0, <2>7, NotifyStep
  <2>8. CASE wake_writer(t)
    BY <1>0, <2>8, WakeWriterStep
  <2>9. CASE wake_all(t)
    BY <1>0, <2>9, WakeAllStep
  <2> QED BY <1>2, <2>1, <2>2, <2>3, <2>4, <2>5, <2>6, <2>7, <2>8, <2>9 DEF Progress
<1> QED
  BY <1>1, <1>2 DEF Next

\* What the invariant says of blocked threads.  Where a bit is set the word is
\* not left alone; where none is, somebody wakes or marks.
LEMMA RememberedSleepers ==
  ASSUME IInv, Remembered
  PROVE  SleepersRemembered
<1> DEFINE Active(t) ==
      \/ Waking(t) \/ pc[t] \in {"wake_only_writers", "wake_both", "wake_readers", "wake_all"}
      \/ pc[t] \in {"spin_write", "write_loop", "load_seq", "check_state"}
      \/ pc[t] = "write_wait" /\ t \notin current
<1>1. \A t \in Threads : Cares(t) \/ Waking(t) \/ WillMark(t) \/ pc[t] = "wake_all" => Active(t)
  BY DEF Cares, Waking, WillMark
<1>2. ASSUME is_unlocked(state) PROVE \A t \in Threads : pc[t] # "downgrade_wake"
  <2>1. SUFFICES ASSUME NEW t \in Threads, pc[t] = "downgrade_wake" PROVE FALSE
    OBVIOUS
  <2>2. Reading # {}
    BY <2>1 DEF Reading
  <2>3. Writing = {} /\ state.n = Cardinality(Reading)
    BY <2>2 DEF IInv, Exclusion
  <2> QED BY <1>2, <2>2, <2>3, ReadingFinite DEF is_unlocked
<1>3. ASSUME readers \cup writers # {}, is_unlocked(state)
      PROVE  \E t \in Threads : Active(t)
  <2>1. CASE state.rw \/ state.ww
    <3>1. Noisy
      BY <1>3, <2>1 DEF Noisy
    <3> QED BY <1>1, <3>1 DEF Remembered
  <2>2. CASE ~state.rw /\ ~state.ww /\ readers # {}
    <3>1. \E t \in Threads : WakesReaders(t)
      BY <2>2 DEF Remembered
    <3> QED BY <1>1, <1>2, <1>3, <3>1 DEF WakesReaders
  <2>3. CASE ~state.ww /\ writers # {}
    BY <1>1, <2>3 DEF Remembered
  <2> QED BY <1>3, <2>1, <2>2, <2>3
<1>4. readers # {} => state.rw \/ \E t \in Threads : pc[t] \in {"wake_all", "downgrade_wake"}
  BY DEF Remembered, WakesReaders
<1>5. writers # {} => state.ww \/ \E t \in Threads : Marks(t) \/ Waking(t)
  <2>1. \A t \in Threads : WillMark(t) => Marks(t)
    BY DEF WillMark, Marks
  <2> QED BY <2>1 DEF Remembered
<1> QED
  BY <1>3, <1>4, <1>5 DEF SleepersRemembered

\* No blocked reader or writer is forgotten, whatever the number of threads:
\* the bits that unlocking goes by are right, or somebody is about to put them
\* right, and an unlocked lock with blocked threads is never left alone.
THEOREM RwLockSleepersRemembered == Spec => []SleepersRemembered
<1>1. Init => Remembered
  BY DEF Init, Remembered, SleepsMarked, KnowsOthers, UpToDate, Noisy, Unlocked
<1>2. IInv /\ [Next]_vars => IInv'
  BY TypeStep, SafeStep DEF IInv, Safe
<1>3. IInv /\ Remembered => SleepersRemembered
  BY RememberedSleepers
<1> QED
  BY <1>1, <1>2, <1>3, InitIInv, RememberedStep, PTL DEF Spec
=============================================================================

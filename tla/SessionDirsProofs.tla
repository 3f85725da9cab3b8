------------------------- MODULE SessionDirsProofs --------------------------
(***************************************************************************)
(* Proofs about SessionDirs, for every set of processes and every number   *)
(* of sessions: a directory in use is left alone, the newest published     *)
(* directory is complete and is only superseded, and a collection that     *)
(* meets nobody leaves nothing else.                                       *)
(*                                                                         *)
(* None of them is inductive.  The invariant Inv says of each process      *)
(* which locks it holds (exactly those of its own session until it is      *)
(* published, of its candidates and of the directory it deletes), what it  *)
(* knows of the directory it owns, copies from or deletes, and that all    *)
(* that it ever saw published is still there or superseded (Known): that   *)
(* is why two collections that disagree about which session is the newest  *)
(* never delete it together.                                               *)
(*                                                                         *)
(* A step of p disturbs only what p has locked (Frame), so that the        *)
(* others' parts of the invariant are kept once for all (OthersKept); a    *)
(* lemma per action shows Frame and the part of p.                         *)
(***************************************************************************)
EXTENDS SessionDirs, WellFoundedInduction, TLAPS

\* The paths of session directories, and the steps that use a source, delete a
\* directory, or collect.
Paths == Sess \X {"working", "finalized"}
Reading == {"read_source", "link"}
Removing == {"rm", "unlink", "drop"}
Collecting == {"inspect", "flock", "delete", "rm", "unlink", "drop"}

\* The record of a process.
Fields == {"pc", "cur", "tried", "src", "names", "final", "todo", "opened",
           "cands", "victim", "back"}

ProcType(r) ==
  /\ DOMAIN r = Fields
  /\ r.pc \in SessPcs /\ r.cur \in 0 .. MaxSessions /\ r.src \in 0 .. MaxSessions
  /\ r.names \subseteq Files /\ r.final \in BOOLEAN
  /\ r.todo \subseteq Paths /\ r.opened \in Paths \cup {NoPath}
  /\ r.cands \subseteq Sess /\ r.victim \in Paths \cup {NoPath}
  /\ r.back \in {"none", "inspect", "delete"}

\* Which fields of a process are in scope at which step.
Scoped(r) ==
  /\ r.pc # "prepare" => r.cur \in Sess
  /\ r.pc \in {"lock_source", "read_source", "link", "discard", "discard_lock"}
       => r.src \in Sess
  /\ r.final => r.pc \in Collecting \cup {"list", "collected"}
  /\ r.pc \notin Collecting => r.todo = {} /\ r.cands = {}
  /\ IF r.pc = "flock" THEN r.opened \in Paths ELSE r.opened = NoPath
  /\ IF r.pc \in Removing THEN r.victim \in Paths /\ r.back # "none"
                          ELSE r.victim = NoPath /\ r.back = "none"
  /\ r.pc = "delete" => r.todo = {}
  /\ r.back = "delete" => r.todo = {} /\ r.victim[2] = "finalized"

\* A collection meets a session once, and never its own unpublished one.
Apart(r) ==
  /\ \A d, e \in r.todo : d[1] = e[1] => d = e
  /\ \A d \in r.todo : d[1] \notin r.cands /\ d[1] # r.opened[1] /\ d[1] # r.victim[1]
  /\ r.opened[1] \notin r.cands /\ r.victim[1] \notin r.cands
  /\ r.pc \in Collecting /\ ~r.final =>
       /\ \A d \in r.todo : d[1] # r.cur
       /\ r.cur \notin r.cands /\ r.cur # r.opened[1] /\ r.cur # r.victim[1]

\* A process owns its session until it has published it, and locks it; and it
\* locks what it collects.
Owns(r) == ~r.final /\ r.pc # "prepare"
Holds(r, s) == (Owns(r) /\ s = r.cur) \/ s \in r.cands \/ s = r.victim[1]
Shares(r, s) == r.pc \in Reading /\ s = r.src

LocksOf(p) ==
  \A s \in Sess : /\ ex[s] = p <=> Holds(proc[p], s)
                  /\ p \in sh[s] <=> Shares(proc[p], s)

\* The directory it owns.
OwnDir(r) ==
  Owns(r) =>
    /\ r.cur \in lockfile
    /\ r.pc \in {"create_dir", "discard_lock"} => dir[r.cur] = "none"
    /\ r.pc = "release" => dir[r.cur] # "none"
    /\ r.pc \notin {"create_dir", "discard_lock", "release"} => dir[r.cur] = "working"

\* The directory it has deleted, or found gone.
VictimGone(r) ==
  /\ r.pc = "unlink" => dir[r.victim[1]] = "none"
  /\ r.pc = "drop" => dir[r.victim[1]] # r.victim[2]

\* The directory it copies from.
SourceLocked(r) ==
  /\ r.pc \in Reading => r.src \in lockfile
  /\ r.pc = "link" => /\ dir[r.src] = "finalized"
                      /\ \A f \in r.names : file[r.src][f] # 0

\* The files it has saved are new inodes.
SavedIn(s, f) == file[s][f] = s /\ data[f][s] = s
Saved(r) ==
  /\ r.pc \in {"save_index", "finalize"} => SavedIn(r.cur, "dep_graph")
  /\ r.pc = "finalize" => SavedIn(r.cur, "work_products")

\* A published session that is not older than s, or newer than s, is there.
Reached(s) == \E t \in Finalized : t >= s
Passed(s) == \E t \in Finalized : t > s

\* What is listed as published was, so it is there or superseded; what is
\* going to be deleted is superseded.
Known(r) ==
  /\ \A s \in Sess : s \in r.cands \/ <<s, "finalized">> \in r.todo
                       \/ <<s, "finalized">> = r.opened => Reached(s)
  /\ r.pc = "delete" \/ r.back = "delete" => \A s \in r.cands : Passed(s)
  /\ r.victim[2] = "finalized" => Passed(r.victim[1])

\* What it has listed was named earlier.
Named(r) == (\A d \in r.todo : d[1] < next) /\ r.opened[1] < next

\* All that the invariant says of a process.
ProcInv(p) ==
  /\ Scoped(proc[p])
  /\ Apart(proc[p])
  /\ LocksOf(p)
  /\ OwnDir(proc[p])
  /\ VictimGone(proc[p])
  /\ SourceLocked(proc[p])
  /\ Saved(proc[p])
  /\ Known(proc[p])
  /\ Named(proc[p])

\* Nothing has a number that is not given yet.
Fresh ==
  \A s \in Sess : s >= next =>
    ex[s] = None /\ sh[s] = {} /\ dir[s] = "none" /\ s \notin lockfile

\* A directory is never without its lock file.
DirsLocked == \A s \in Sess : dir[s] # "none" => s \in lockfile

\* What a collection that meets nobody has still to delete.
Remaining(r) ==
  \A s \in Sess \ {r.cur} : dir[s] # "none" =>
    /\ r.pc \in {"inspect", "flock"} \/ r.back = "inspect" =>
         \/ <<s, dir[s]>> \in r.todo
         \/ <<s, dir[s]>> = r.opened
         \/ <<s, dir[s]>> = r.victim
         \/ dir[s] = "finalized" /\ s \in r.cands
    /\ r.pc \in {"delete", "collected"} \/ r.back = "delete" =>
         /\ dir[s] = "finalized"
         /\ \/ s \in r.cands
            \/ <<s, dir[s]>> = r.victim
            \/ \A t \in Finalized \ {r.cur} : t <= s

\* The ghost: while it names a process no other one runs.
Quiet ==
  \A p \in Procs : quiet = p =>
    /\ \A q \in Procs \ {p} : proc[q] = Start
    /\ Remaining(proc[p])

\* Typing, with the types of all the fields of a process.
DiskTyped ==
  /\ dir \in [Sess -> {"none", "working", "finalized"}]
  /\ lockfile \subseteq Sess
  /\ ex \in [Sess -> Procs \cup {None}]
  /\ sh \in [Sess -> SUBSET Procs]
  /\ file \in [Sess -> [Files -> 0 .. MaxSessions]]
  /\ data \in [Files -> [Sess -> 0 .. MaxSessions]]
  /\ \A s \in Sess : ex[s] # None => sh[s] = {}

Typed ==
  /\ DiskTyped
  /\ next \in 1 .. MaxSessions + 1
  /\ DOMAIN proc = Procs
  /\ \A p \in Procs : ProcType(proc[p])
  /\ quiet \in Procs \cup {None}

\* The inductive invariant.
Inv ==
  /\ Typed
  /\ \A p \in Procs : ProcInv(p)
  /\ Fresh /\ DirsLocked /\ NewestComplete
  /\ Quiet

\* A step of p changes the fields of p only; or not even those of its
\* collection.
Moves(p) ==
  /\ DOMAIN proc' = Procs /\ DOMAIN proc'[p] = Fields
  /\ \A q \in Procs \ {p} : proc'[q] = proc[q]

KeepsScan(p) ==
  /\ proc'[p].todo = proc[p].todo /\ proc'[p].opened = proc[p].opened
  /\ proc'[p].cands = proc[p].cands
  /\ proc'[p].victim = proc[p].victim /\ proc'[p].back = proc[p].back

KeepsSource(p) ==
  /\ proc'[p].cur = proc[p].cur /\ proc'[p].final = proc[p].final
  /\ proc'[p].src = proc[p].src /\ proc'[p].names = proc[p].names

\* What a step of p leaves to the others: their locks and fields, what they
\* have locked, and a published session that is not older than any before.
Frame(p) ==
  /\ Moves(p)
  /\ \A q \in Procs \ {p}, s \in Sess :
       (ex'[s] = q <=> ex[s] = q) /\ (q \in sh'[s] <=> q \in sh[s])
  /\ \A s \in Sess : ex[s] # p =>
       /\ dir'[s] = dir[s]
       /\ s \in lockfile => s \in lockfile'
       /\ dir[s] # "none" => file'[s] = file[s]
       /\ \A f \in Files : data'[f][s] = data[f][s]
  /\ next <= next'
  /\ \A t \in Finalized : \E u \in Finalized' : u >= t

-----------------------------------------------------------------------------
\* The fields of a process after a step.
LEMMA BecomeFields ==
  ASSUME Typed, NEW p \in Procs, NEW r, DOMAIN r \subseteq Fields, Become(p, r)
  PROVE  /\ Moves(p)
         /\ proc'[p].pc = IF "pc" \in DOMAIN r THEN r.pc ELSE proc[p].pc
         /\ proc'[p].cur = IF "cur" \in DOMAIN r THEN r.cur ELSE proc[p].cur
         /\ proc'[p].tried = IF "tried" \in DOMAIN r THEN r.tried ELSE proc[p].tried
         /\ proc'[p].src = IF "src" \in DOMAIN r THEN r.src ELSE proc[p].src
         /\ proc'[p].names = IF "names" \in DOMAIN r THEN r.names ELSE proc[p].names
         /\ proc'[p].final = IF "final" \in DOMAIN r THEN r.final ELSE proc[p].final
         /\ proc'[p].todo = IF "todo" \in DOMAIN r THEN r.todo ELSE proc[p].todo
         /\ proc'[p].opened = IF "opened" \in DOMAIN r THEN r.opened ELSE proc[p].opened
         /\ proc'[p].cands = IF "cands" \in DOMAIN r THEN r.cands ELSE proc[p].cands
         /\ proc'[p].victim = IF "victim" \in DOMAIN r THEN r.victim ELSE proc[p].victim
         /\ proc'[p].back = IF "back" \in DOMAIN r THEN r.back ELSE proc[p].back
<1>1. DOMAIN proc = Procs /\ DOMAIN proc[p] = Fields
  BY DEF Typed, ProcType
<1>2. proc'[p] = [x \in Fields |-> IF x \in DOMAIN r THEN r[x] ELSE proc[p][x]]
  BY <1>1 DEF Become
<1> QED
  BY <1>1, <1>2 DEF Become, Moves, Fields

\* A step of p keeps what the invariant says of another process q: what q has
\* locked is as it was, and what q saw published is there or superseded.
LEMMA OthersKept ==
  ASSUME Inv, Typed', NEW p \in Procs, Frame(p), NEW q \in Procs \ {p}
  PROVE  ProcInv(q)'
<1> DEFINE r == proc[q]
<1>1. proc'[q] = r /\ ProcType(r) /\ ProcInv(q)
  BY DEF Frame, Moves, Inv, Typed
<1>2. ASSUME NEW s \in Sess, Holds(r, s)
      PROVE  /\ dir'[s] = dir[s]
             /\ s \in lockfile => s \in lockfile'
             /\ dir[s] # "none" => file'[s] = file[s]
             /\ \A f \in Files : data'[f][s] = data[f][s]
  <2>1. ex[s] # p
    BY <1>1, <1>2 DEF ProcInv, LocksOf
  <2> QED
    BY <2>1 DEF Frame
<1>3. ASSUME NEW s \in Sess, Shares(r, s)
      PROVE  /\ dir'[s] = dir[s]
             /\ s \in lockfile => s \in lockfile'
             /\ dir[s] # "none" => file'[s] = file[s]
  <2>1. sh[s] # {}
    BY <1>1, <1>3 DEF ProcInv, LocksOf
  <2>2. ex[s] # p
    BY <2>1, SessionAssumption DEF Inv, Typed, DiskTyped
  <2> QED
    BY <2>2 DEF Frame
<1>4. Scoped(proc[q])' /\ Apart(proc[q])'
  BY <1>1 DEF ProcInv, Scoped, Apart
<1>5. LocksOf(q)'
  BY <1>1 DEF ProcInv, LocksOf, Holds, Shares, Owns, Frame
<1>6. OwnDir(proc[q])' 
  BY <1>1, <1>2 DEF ProcInv, OwnDir, Holds, Owns, Scoped
<1>7. VictimGone(proc[q])'
  <2>1. r.pc \in Removing => r.victim[1] \in Sess
    BY <1>1 DEF ProcInv, Scoped, Paths
  <2> QED
    BY <1>1, <1>2, <2>1 DEF ProcInv, VictimGone, Holds, Removing
<1>8. SourceLocked(proc[q])'
  BY <1>1, <1>3 DEF ProcInv, SourceLocked, Shares, Scoped, Reading
<1>9. Saved(proc[q])'
  <2>1. r.pc \in {"save_index", "finalize"} => Owns(r) /\ r.cur \in Sess
    BY <1>1 DEF ProcInv, Owns, Scoped, Collecting
  <2> QED
    BY <1>1, <1>2, <2>1 DEF ProcInv, Saved, SavedIn, Holds, OwnDir, Files
<1>10. Known(proc[q])'
  <2>1. \A t \in Finalized : \E u \in Finalized' : u >= t
    BY DEF Frame
  <2>2. Finalized \subseteq Nat /\ Finalized' \subseteq Nat /\ Sess \subseteq Nat
    BY DEF Finalized, Sess
  <2>3. \A s \in Sess : (Reached(s) => Reached(s)') /\ (Passed(s) => Passed(s)')
    BY <2>1, <2>2 DEF Reached, Passed
  <2>4. r.cands \subseteq Sess /\ (r.victim[2] = "finalized" => r.victim[1] \in Sess)
    BY <1>1 DEF ProcType, Paths, NoPath
  <2> QED
    BY <1>1, <2>3, <2>4 DEF ProcInv, Known
<1>11. Named(proc[q])'
  <2>1. next <= next' /\ next \in Nat /\ next' \in Nat
    BY DEF Frame, Inv, Typed
  <2>2. r.todo \subseteq Paths /\ r.opened[1] \in Nat
    BY <1>1 DEF ProcType, Paths, NoPath, Sess
  <2> QED
    BY <1>1, <2>1, <2>2 DEF ProcInv, Named, Paths, Sess
<1> QED
  BY <1>4, <1>5, <1>6, <1>7, <1>8, <1>9, <1>10, <1>11 DEF ProcInv

\* So the invariant is kept if the part of p and the parts of the disk are.
LEMMA StepKept ==
  ASSUME Inv, NEW p \in Procs, Typed', Frame(p), ProcInv(p)',
         Fresh', DirsLocked', NewestComplete', Quiet'
  PROVE  Inv'
<1>1. \A q \in Procs : ProcInv(q)'
  BY OthersKept
<1> QED
  BY <1>1 DEF Inv

\* A set of natural numbers has a least element.
LEMMA LeastNat ==
  ASSUME NEW S, S \subseteq Nat, S # {}
  PROVE  \E m \in S : \A t \in S : m <= t
<1> DEFINE R == {ss \in Nat \X Nat : ss[1] < ss[2]}
<1>1. IsWellFoundedOn(R, Nat)
  BY NatLessThanWellFounded DEF OpToRel
<1>2. \A a, b \in Nat : a < b => <<a, b>> \in R
  OBVIOUS
<1> HIDE DEF R
<1>3. PICK m \in S : \A y \in S : ~(<<y, m>> \in R)
  BY <1>1, WFMin
<1>4. ASSUME NEW t \in S PROVE m <= t
  <2>1. t \in Nat /\ m \in Nat /\ ~(t < m)
    BY <1>2, <1>3
  <2> QED
    BY <2>1
<1> QED
  BY <1>4

\* Max is a greatest session.
LEMMA MaxSession ==
  ASSUME NEW S, S \subseteq Sess, S # {}
  PROVE  Max(S) \in S /\ \A t \in S : t <= Max(S)
<1> DEFINE n == MaxSessions
           D == {d \in Nat : n - d \in S}
<1>1. PICK s \in S : TRUE
  OBVIOUS
<1>2. n \in Nat /\ S \subseteq 1 .. n
  BY SessionAssumption DEF Sess
<1>3. D \subseteq Nat /\ n - s \in D
  BY <1>2
<1>4. PICK d \in D : \A e \in D : d <= e
  BY <1>3, LeastNat
<1>5. n - d \in S /\ d \in Nat
  BY <1>4
<1>6. ASSUME NEW t \in S PROVE n - d >= t
  <2>1. n - t \in D /\ t \in Nat
    BY <1>2
  <2> QED
    BY <1>2, <1>4, <1>5, <2>1
<1>7. \E x \in S : \A y \in S : x >= y
  BY <1>5, <1>6
<1>8. Max(S) \in S /\ \A y \in S : Max(S) >= y
  BY <1>7 DEF Max
<1> QED
  BY <1>2, <1>8

\* The newest published session is complete after a step that empties a
\* published directory, or deletes it, only if a newer one is there, and that
\* publishes only what is saved.
LEMMA NewestKept ==
  ASSUME Inv,
         \A t \in Finalized : \E u \in Finalized' : u >= t,
         \A s \in Finalized' :
           \/ /\ s \in Finalized
              /\ \A f \in Files : /\ data'[f][s] = data[f][s]
                                  /\ \/ file'[s][f] = file[s][f]
                                     \/ file'[s][f] = 0 /\ Passed(s)'
           \/ \A f \in Files : SavedIn(s, f)'
  PROVE  NewestComplete'
<1>1. Finalized \subseteq Sess /\ Finalized' \subseteq Sess /\ Sess \subseteq Nat \ {0}
  BY DEF Finalized, Sess
<1>0. (\A t \in Finalized : t \in Nat) /\ (\A t \in Finalized' : t \in Nat)
  BY <1>1
<1>2. PublishedUnchanged'
  BY <1>1 DEF Inv, NewestComplete, PublishedUnchanged, SavedIn
<1>3. ASSUME Finalized' # {}, NEW f \in Files
      PROVE  file'[Max(Finalized')][f] # 0
  <2>1. PICK m \in Finalized' : m = Max(Finalized') /\ \A t \in Finalized' : t <= m
    BY <1>1, <1>3, MaxSession
  <2>2. ~Passed(m)'
    BY <1>0, <2>1 DEF Passed
  <2>3. CASE SavedIn(m, f)'
    BY <1>1, <2>1, <2>3 DEF SavedIn
  <2>4. CASE m \in Finalized /\ file'[m][f] = file[m][f]
    <3>1. Max(Finalized) \in Finalized /\ \A t \in Finalized : t <= Max(Finalized)
      BY <1>1, <2>4, MaxSession
    <3>2. PICK u \in Finalized' : u >= Max(Finalized)
      BY <3>1
    <3>3. m = Max(Finalized)
      BY <1>0, <2>1, <2>4, <3>1, <3>2
    <3> QED
      BY <2>1, <2>4, <3>3 DEF Inv, NewestComplete
  <2> QED
    BY <2>1, <2>2, <2>3, <2>4
<1> QED
  BY <1>2, <1>3 DEF NewestComplete

\* In particular after a step that leaves the published directories alone.
LEMMA NewestSame ==
  ASSUME Inv, Typed', Finalized' = Finalized,
         \A s \in Finalized : file'[s] = file[s] /\ \A f \in Files : data'[f][s] = data[f][s]
  PROVE  /\ NewestComplete'
         /\ \A t \in Finalized : \E u \in Finalized' : u >= t
<1>1. \A t \in Finalized : \E u \in Finalized' : u >= t
  BY DEF Finalized, Sess
<1> QED
  BY <1>1, NewestKept

\* A process that another one's collection has not met is not live.
LEMMA QuietElse ==
  ASSUME Inv, NEW p \in Procs, proc[p] # Start,
         \A q \in Procs \ {p} : proc'[q] = proc[q],
         quiet' \in {quiet, p, None},
         quiet' = p => /\ \A q \in Procs \ {p} : proc[q] = Start
                       /\ Remaining(proc[p])'
  PROVE  Quiet'
BY SessionAssumption DEF Inv, Quiet

\* A step of p is well typed if the record of p and the disk are.
LEMMA TypedStep ==
  ASSUME Inv, NEW p \in Procs, Moves(p), ProcType(proc'[p]), DiskTyped',
         next' \in 1 .. MaxSessions + 1, quiet' \in Procs \cup {None}
  PROVE  Typed'
BY DEF Inv, Typed, Moves

\* The facts about the process that steps.
LEMMA Actor ==
  ASSUME Inv, NEW p \in Procs
  PROVE  /\ Typed /\ DiskTyped /\ ProcType(proc[p]) /\ ProcInv(p)
         /\ next \in 1 .. MaxSessions + 1 /\ quiet \in Procs \cup {None}
         /\ Scoped(proc[p]) /\ Apart(proc[p]) /\ LocksOf(p) /\ OwnDir(proc[p])
BY DEF Inv, Typed, ProcInv

\* A step outside of a collection keeps the part of the invariant that is
\* about collections.
LEMMA PlainStep ==
  ASSUME Inv, NEW p \in Procs, Typed', Frame(p), KeepsScan(p),
         proc[p].pc \notin Collecting, proc'[p].pc \notin Collecting \cup {"collected"},
         quiet' \in {quiet, None}, proc[p] # Start \/ quiet' = None,
         proc'[p].final => proc'[p].pc = "list",
         proc'[p].pc # "prepare" => proc'[p].cur \in Sess,
         proc'[p].pc \in {"lock_source", "read_source", "link", "discard", "discard_lock"}
           => proc'[p].src \in Sess,
         LocksOf(p)', OwnDir(proc[p])', SourceLocked(proc[p])', Saved(proc[p])',
         Fresh', DirsLocked', NewestComplete'
  PROVE  Inv'
<1>1. ProcType(proc[p]) /\ Scoped(proc[p]) /\ next' \in Nat \ {0}
  BY Actor DEF Typed
<1>2. /\ proc'[p].todo = {} /\ proc'[p].cands = {} /\ proc'[p].opened = NoPath
      /\ proc'[p].victim = NoPath /\ proc'[p].back = "none"
  BY <1>1 DEF Scoped, KeepsScan, Collecting, Removing
<1>3. Scoped(proc[p])' /\ Apart(proc[p])'
  BY <1>2 DEF Scoped, Apart, Collecting, Removing
<1>4. VictimGone(proc[p])' /\ Known(proc[p])' /\ Named(proc[p])'
  BY <1>1, <1>2 DEF VictimGone, Known, Named, NoPath, Collecting, Sess
<1>5. ProcInv(p)'
  BY <1>3, <1>4 DEF ProcInv
<1>6. Remaining(proc[p])'
  BY <1>2 DEF Remaining, Collecting
<1>7. Quiet'
  <2>1. CASE quiet' = None
    BY <2>1, SessionAssumption DEF Quiet
  <2>2. CASE quiet' = quiet /\ proc[p] # Start
    <3>1. quiet = p => \A q \in Procs \ {p} : proc[q] = Start
      BY DEF Inv, Quiet
    <3> QED
      BY <1>6, <2>2, <3>1, QuietElse DEF Frame, Moves
  <2> QED
    BY <2>1, <2>2
<1> QED
  BY <1>5, <1>7, StepKept

\* What a process knows of the session it owns.
LEMMA Owner ==
  ASSUME Inv, NEW p \in Procs,
         proc[p].pc \notin Collecting \cup {"prepare", "list", "collected"} \/ Owns(proc[p])
  PROVE  /\ Owns(proc[p]) /\ ~proc[p].final
         /\ proc[p].cur \in Sess /\ proc[p].cur < next /\ proc[p].cur \in lockfile
         /\ ex[proc[p].cur] = p /\ sh[proc[p].cur] = {}
         /\ proc[p].pc \in {"create_dir", "discard_lock"} => dir[proc[p].cur] = "none"
         /\ proc[p].pc = "release" => dir[proc[p].cur] # "none"
         /\ proc[p].pc \notin {"create_dir", "discard_lock", "release"}
              => dir[proc[p].cur] = "working"
<1> DEFINE r == proc[p]
<1>1. /\ Typed /\ DiskTyped /\ ProcType(r) /\ Scoped(r) /\ LocksOf(p) /\ OwnDir(r)
  BY Actor
<1>2. Owns(r) /\ ~r.final /\ r.cur \in Sess
  BY <1>1 DEF Scoped, Owns
<1>3. ex[r.cur] = p
  BY <1>1, <1>2 DEF LocksOf, Holds
<1>4. ex[r.cur] # None
  BY <1>3, SessionAssumption
<1>5. r.cur < next /\ sh[r.cur] = {}
  BY <1>1, <1>2, <1>4 DEF Inv, Fresh, Typed, DiskTyped, Sess
<1> QED
  BY <1>1, <1>2, <1>3, <1>4, <1>5 DEF OwnDir

\* An empty directory is a directory.
LEMMA NoFilesType == NoFiles \in [Files -> 0 .. MaxSessions]
BY SessionAssumption DEF NoFiles

\* lock_directory: the number is new, so nobody else has locked or seen it.
LEMMA lock_directory_step ==
  ASSUME Inv, NEW p \in Procs, lock_directory(p)
  PROVE  Inv' /\ Frame(p)
<1> DEFINE r == proc[p]
<1>1. /\ Typed /\ DiskTyped /\ ProcType(r) /\ Scoped(r) /\ LocksOf(p)
      /\ r.pc = "prepare" /\ next \in Sess
  BY Actor, SessionAssumption DEF lock_directory, At, Sess
<1>2. /\ Moves(p) /\ KeepsScan(p)
      /\ proc'[p].pc = "create_dir" /\ proc'[p].cur = next
      /\ proc'[p].src = r.src /\ proc'[p].names = r.names /\ proc'[p].final = r.final
  BY <1>1, BecomeFields DEF lock_directory, KeepsScan, Fields
<1>3. /\ dir' = dir /\ sh' = sh /\ file' = file /\ data' = data
      /\ lockfile' = lockfile \cup {next} /\ ex' = [ex EXCEPT ![next] = p]
      /\ next' = next + 1 /\ quiet' = None
  BY DEF lock_directory
<1>4. ex[next] = None /\ sh[next] = {} /\ dir[next] = "none" /\ next \notin lockfile
  BY <1>1 DEF Inv, Fresh, Sess
<1>5. Typed'
  <2>1. ProcType(proc'[p])
    BY <1>1, <1>2 DEF ProcType, SessPcs, Sess, Moves, KeepsScan
  <2>2. DiskTyped'
    BY <1>1, <1>3, <1>4 DEF DiskTyped
  <2> QED
    BY <1>1, <1>2, <1>3, <2>1, <2>2, TypedStep, SessionAssumption DEF Sess
<1>6. NewestComplete' /\ \A t \in Finalized : \E u \in Finalized' : u >= t
  BY <1>3, <1>5, NewestSame DEF Finalized
<1>7. Frame(p)
  BY <1>1, <1>2, <1>3, <1>4, <1>6, SessionAssumption DEF Frame, DiskTyped, Sess
<1>8. LocksOf(p)'
  BY <1>1, <1>2, <1>3, <1>4
  DEF KeepsScan, DiskTyped, Scoped, LocksOf, Holds, Shares, Owns, Collecting, Removing, Reading
<1>9. OwnDir(proc[p])' /\ SourceLocked(proc[p])' /\ Saved(proc[p])'
  BY <1>1, <1>2, <1>3, <1>4 DEF OwnDir, SourceLocked, Saved, Reading
<1>10. Fresh' /\ DirsLocked'
  BY <1>1, <1>3, <1>4 DEF Inv, Fresh, DirsLocked, DiskTyped, Sess
<1> QED
  BY <1>1, <1>2, <1>3, <1>5, <1>6, <1>7, <1>8, <1>9, <1>10, PlainStep DEF Scoped, Collecting

\* create_dir: the directory of a locked session appears.
LEMMA create_dir_step ==
  ASSUME Inv, NEW p \in Procs, create_dir(p)
  PROVE  Inv' /\ Frame(p)
<1> DEFINE r == proc[p]
<1>1. /\ Typed /\ DiskTyped /\ ProcType(r) /\ Scoped(r) /\ LocksOf(p)
      /\ r.pc = "create_dir" /\ next \in 1 .. MaxSessions + 1 /\ quiet \in Procs \cup {None}
  BY Actor DEF create_dir, Goto, At
<1>2. Moves(p) /\ KeepsScan(p) /\ KeepsSource(p) /\ proc'[p].pc = "find_source"
  BY <1>1, BecomeFields DEF create_dir, Goto, KeepsScan, KeepsSource, Fields
<1>3. /\ lockfile' = lockfile /\ ex' = ex /\ sh' = sh /\ file' = file /\ data' = data
      /\ dir' = [dir EXCEPT ![r.cur] = "working"]
      /\ next' = next /\ quiet' = quiet
  BY DEF create_dir
<1>4. /\ ~r.final /\ r.cur \in Sess /\ r.cur < next /\ r.cur \in lockfile
      /\ ex[r.cur] = p /\ dir[r.cur] = "none"
  BY <1>1, Owner DEF Collecting
<1>5. Typed'
  <2>1. ProcType(proc'[p])
    BY <1>1, <1>2, SessionAssumption DEF ProcType, SessPcs, Moves, KeepsScan, KeepsSource
  <2>2. DiskTyped'
    BY <1>1, <1>2, <1>3, <1>4, SessionAssumption DEF DiskTyped, Sess
  <2> QED
    BY <1>1, <1>2, <1>3, <2>1, <2>2, TypedStep
<1>6. NewestComplete' /\ \A t \in Finalized : \E u \in Finalized' : u >= t
  <2>1. /\ Finalized' = Finalized
        /\ \A s \in Finalized : file'[s] = file[s] /\ \A f \in Files : data'[f][s] = data[f][s]
    BY <1>1, <1>3, <1>4 DEF Finalized, DiskTyped
  <2> QED
    BY <1>5, <2>1, NewestSame
<1>7. Frame(p)
  <2>1. \A q \in Procs \ {p}, s \in Sess :
          (ex'[s] = q <=> ex[s] = q) /\ (q \in sh'[s] <=> q \in sh[s])
    BY <1>1, <1>3, <1>4, SessionAssumption DEF DiskTyped
  <2>2. \A s \in Sess : ex[s] # p =>
          /\ dir'[s] = dir[s]
          /\ s \in lockfile => s \in lockfile'
          /\ dir[s] # "none" => file'[s] = file[s]
          /\ \A f \in Files : data'[f][s] = data[f][s]
    BY <1>1, <1>3, <1>4 DEF DiskTyped
  <2>3. next <= next'
    BY <1>1, <1>3
  <2> QED
    BY <1>2, <1>6, <2>1, <2>2, <2>3 DEF Frame
<1>8. LocksOf(p)'
  BY <1>1, <1>2, <1>3, <1>4, SessionAssumption
  DEF KeepsScan, KeepsSource, LocksOf, Holds, Shares, Owns, Reading, DiskTyped
<1>9. OwnDir(proc[p])' /\ SourceLocked(proc[p])' /\ Saved(proc[p])'
  BY <1>1, <1>2, <1>3, <1>4
  DEF KeepsSource, OwnDir, Owns, SourceLocked, Saved, Reading, DiskTyped
<1>10. Fresh' /\ DirsLocked'
  BY <1>1, <1>2, <1>3, <1>4 DEF Inv, Fresh, DirsLocked, DiskTyped, Sess
<1> QED
  BY <1>1, <1>2, <1>3, <1>4, <1>5, <1>6, <1>7, <1>8, <1>9, <1>10, PlainStep
  DEF Start, KeepsSource, Collecting

\* discard: only the session's own working directory goes.
LEMMA discard_step ==
  ASSUME Inv, NEW p \in Procs, discard(p)
  PROVE  Inv' /\ Frame(p)
<1> DEFINE r == proc[p]
<1>1. /\ Typed /\ DiskTyped /\ ProcType(r) /\ Scoped(r) /\ LocksOf(p)
      /\ r.pc = "discard" /\ next \in 1 .. MaxSessions + 1 /\ quiet \in Procs \cup {None}
  BY Actor DEF discard, Goto, At
<1>2. Moves(p) /\ KeepsScan(p) /\ KeepsSource(p) /\ proc'[p].pc = "discard_lock"
  BY <1>1, BecomeFields DEF discard, Goto, KeepsScan, KeepsSource, Fields
<1>3. /\ lockfile' = lockfile /\ ex' = ex /\ sh' = sh /\ data' = data
      /\ dir' = [dir EXCEPT ![r.cur] = "none"]
      /\ file' = [file EXCEPT ![r.cur] = NoFiles]
      /\ next' = next /\ quiet' = quiet
  BY DEF discard
<1>4. /\ ~r.final /\ r.cur \in Sess /\ r.cur < next /\ r.cur \in lockfile
      /\ ex[r.cur] = p /\ dir[r.cur] = "working" /\ r.src \in Sess
  BY <1>1, Owner DEF Scoped, Collecting
<1>5. Typed'
  <2>1. ProcType(proc'[p])
    BY <1>1, <1>2, SessionAssumption DEF ProcType, SessPcs, Moves, KeepsScan, KeepsSource
  <2>2. DiskTyped'
    BY <1>1, <1>2, <1>3, <1>4, NoFilesType DEF DiskTyped
  <2> QED
    BY <1>1, <1>2, <1>3, <2>1, <2>2, TypedStep
<1>6. NewestComplete' /\ \A t \in Finalized : \E u \in Finalized' : u >= t
  <2>1. /\ Finalized' = Finalized
        /\ \A s \in Finalized : file'[s] = file[s] /\ \A f \in Files : data'[f][s] = data[f][s]
    BY <1>1, <1>3, <1>4 DEF Finalized, DiskTyped
  <2> QED
    BY <1>5, <2>1, NewestSame
<1>7. Frame(p)
  <2>1. \A q \in Procs \ {p}, s \in Sess :
          (ex'[s] = q <=> ex[s] = q) /\ (q \in sh'[s] <=> q \in sh[s])
    BY <1>1, <1>3, <1>4, SessionAssumption DEF DiskTyped
  <2>2. \A s \in Sess : ex[s] # p =>
          /\ dir'[s] = dir[s]
          /\ s \in lockfile => s \in lockfile'
          /\ dir[s] # "none" => file'[s] = file[s]
          /\ \A f \in Files : data'[f][s] = data[f][s]
    BY <1>1, <1>3, <1>4 DEF DiskTyped
  <2>3. next <= next'
    BY <1>1, <1>3
  <2> QED
    BY <1>2, <1>6, <2>1, <2>2, <2>3 DEF Frame
<1>8. LocksOf(p)'
  BY <1>1, <1>2, <1>3, <1>4, SessionAssumption
  DEF KeepsScan, KeepsSource, LocksOf, Holds, Shares, Owns, Reading, DiskTyped
<1>9. OwnDir(proc[p])' /\ SourceLocked(proc[p])' /\ Saved(proc[p])'
  BY <1>1, <1>2, <1>3, <1>4
  DEF KeepsSource, OwnDir, Owns, SourceLocked, Saved, Reading, DiskTyped
<1>10. Fresh' /\ DirsLocked'
  BY <1>1, <1>2, <1>3, <1>4 DEF Inv, Fresh, DirsLocked, DiskTyped, Sess
<1> QED
  BY <1>1, <1>2, <1>3, <1>4, <1>5, <1>6, <1>7, <1>8, <1>9, <1>10, PlainStep
  DEF Start, KeepsSource, Collecting

\* save_dep_graph: a new inode, so that no published file changes.
LEMMA save_dep_graph_step ==
  ASSUME Inv, NEW p \in Procs, save_dep_graph(p)
  PROVE  Inv' /\ Frame(p)
<1> DEFINE r == proc[p]
<1>1. /\ Typed /\ DiskTyped /\ ProcType(r) /\ Scoped(r) /\ LocksOf(p)
      /\ r.pc = "compile" /\ next \in 1 .. MaxSessions + 1 /\ quiet \in Procs \cup {None}
  BY Actor DEF save_dep_graph, Goto, At
<1>2. Moves(p) /\ KeepsScan(p) /\ KeepsSource(p) /\ proc'[p].pc = "save_index"
  BY <1>1, BecomeFields DEF save_dep_graph, Goto, KeepsScan, KeepsSource, Fields
<1>3. /\ dir' = dir /\ lockfile' = lockfile /\ ex' = ex /\ sh' = sh
      /\ file' = [file EXCEPT ![r.cur] = [f \in Files |-> IF f = "dep_graph" THEN r.cur ELSE file[r.cur][f]]]
      /\ data' = [f \in Files |-> IF f = "dep_graph" THEN [data[f] EXCEPT ![r.cur] = r.cur] ELSE data[f]]
      /\ next' = next /\ quiet' = quiet
  BY DEF save_dep_graph, save_in
<1>4. /\ ~r.final /\ r.cur \in Sess /\ r.cur < next /\ r.cur \in lockfile
      /\ ex[r.cur] = p /\ dir[r.cur] = "working"
  BY <1>1, Owner DEF Collecting
<1>5. Typed'
  <2>1. ProcType(proc'[p])
    BY <1>1, <1>2, SessionAssumption DEF ProcType, SessPcs, Moves, KeepsScan, KeepsSource
  <2>2. DiskTyped'
    BY <1>1, <1>2, <1>3, <1>4, SessionAssumption DEF DiskTyped, Sess
  <2> QED
    BY <1>1, <1>2, <1>3, <2>1, <2>2, TypedStep
<1>6. NewestComplete' /\ \A t \in Finalized : \E u \in Finalized' : u >= t
  <2>1. /\ Finalized' = Finalized
        /\ \A s \in Finalized : file'[s] = file[s] /\ \A f \in Files : data'[f][s] = data[f][s]
    BY <1>1, <1>3, <1>4 DEF Finalized, DiskTyped
  <2> QED
    BY <1>5, <2>1, NewestSame
<1>7. Frame(p)
  <2>1. \A q \in Procs \ {p}, s \in Sess :
          (ex'[s] = q <=> ex[s] = q) /\ (q \in sh'[s] <=> q \in sh[s])
    BY <1>1, <1>3, <1>4, SessionAssumption DEF DiskTyped
  <2>2. \A s \in Sess : ex[s] # p =>
          /\ dir'[s] = dir[s]
          /\ s \in lockfile => s \in lockfile'
          /\ dir[s] # "none" => file'[s] = file[s]
          /\ \A f \in Files : data'[f][s] = data[f][s]
    BY <1>1, <1>3, <1>4 DEF DiskTyped
  <2>3. next <= next'
    BY <1>1, <1>3
  <2> QED
    BY <1>2, <1>6, <2>1, <2>2, <2>3 DEF Frame
<1>8. LocksOf(p)'
  BY <1>1, <1>2, <1>3, <1>4, SessionAssumption
  DEF KeepsScan, KeepsSource, LocksOf, Holds, Shares, Owns, Reading, DiskTyped
<1>9. OwnDir(proc[p])' /\ SourceLocked(proc[p])' /\ Saved(proc[p])'
  BY <1>1, <1>2, <1>3, <1>4
  DEF KeepsSource, OwnDir, Owns, SourceLocked, Saved, Reading, DiskTyped, SavedIn, Files
<1>10. Fresh' /\ DirsLocked'
  BY <1>1, <1>2, <1>3, <1>4 DEF Inv, Fresh, DirsLocked, DiskTyped, Sess
<1> QED
  BY <1>1, <1>2, <1>3, <1>4, <1>5, <1>6, <1>7, <1>8, <1>9, <1>10, PlainStep
  DEF Start, KeepsSource, Collecting

\* finalize_release: the lock of the session is dropped, and from now on it may
\* be collected like any other.
LEMMA finalize_release_step ==
  ASSUME Inv, NEW p \in Procs, finalize_release(p)
  PROVE  Inv' /\ Frame(p)
<1> DEFINE r == proc[p]
<1>1. /\ Typed /\ DiskTyped /\ ProcType(r) /\ Scoped(r) /\ LocksOf(p)
      /\ r.pc = "release" /\ next \in 1 .. MaxSessions + 1 /\ quiet \in Procs \cup {None}
  BY Actor DEF finalize_release, At
<1>2. /\ Moves(p) /\ KeepsScan(p) /\ proc'[p].pc = "list" /\ proc'[p].final = TRUE
      /\ proc'[p].cur = r.cur /\ proc'[p].src = r.src /\ proc'[p].names = r.names
  BY <1>1, BecomeFields DEF finalize_release, KeepsScan, KeepsSource, Fields
<1>3. /\ dir' = dir /\ lockfile' = lockfile /\ sh' = sh /\ file' = file /\ data' = data
      /\ ex' = [ex EXCEPT ![r.cur] = None]
      /\ next' = next /\ quiet' = quiet
  BY DEF finalize_release
<1>4. /\ ~r.final /\ r.cur \in Sess /\ r.cur < next /\ r.cur \in lockfile
      /\ ex[r.cur] = p /\ dir[r.cur] # "none"
  BY <1>1, Owner DEF Collecting
<1>5. Typed'
  <2>1. ProcType(proc'[p])
    BY <1>1, <1>2, SessionAssumption DEF ProcType, SessPcs, Moves, KeepsScan, KeepsSource
  <2>2. DiskTyped'
    BY <1>1, <1>2, <1>3, <1>4, SessionAssumption DEF DiskTyped, Sess
  <2> QED
    BY <1>1, <1>2, <1>3, <2>1, <2>2, TypedStep
<1>6. NewestComplete' /\ \A t \in Finalized : \E u \in Finalized' : u >= t
  <2>1. /\ Finalized' = Finalized
        /\ \A s \in Finalized : file'[s] = file[s] /\ \A f \in Files : data'[f][s] = data[f][s]
    BY <1>1, <1>3, <1>4 DEF Finalized, DiskTyped
  <2> QED
    BY <1>5, <2>1, NewestSame
<1>7. Frame(p)
  <2>1. \A q \in Procs \ {p}, s \in Sess :
          (ex'[s] = q <=> ex[s] = q) /\ (q \in sh'[s] <=> q \in sh[s])
    BY <1>1, <1>3, <1>4, SessionAssumption DEF DiskTyped
  <2>2. \A s \in Sess : ex[s] # p =>
          /\ dir'[s] = dir[s]
          /\ s \in lockfile => s \in lockfile'
          /\ dir[s] # "none" => file'[s] = file[s]
          /\ \A f \in Files : data'[f][s] = data[f][s]
    BY <1>1, <1>3, <1>4 DEF DiskTyped
  <2>3. next <= next'
    BY <1>1, <1>3
  <2> QED
    BY <1>2, <1>6, <2>1, <2>2, <2>3 DEF Frame
<1>8. LocksOf(p)'
  BY <1>1, <1>2, <1>3, <1>4, SessionAssumption
  DEF KeepsScan, KeepsSource, LocksOf, Holds, Shares, Owns, Reading, DiskTyped, Scoped, Collecting, Removing, NoPath, Sess
<1>9. OwnDir(proc[p])' /\ SourceLocked(proc[p])' /\ Saved(proc[p])'
  BY <1>1, <1>2, <1>3, <1>4
  DEF KeepsSource, OwnDir, Owns, SourceLocked, Saved, Reading, DiskTyped
<1>10. Fresh' /\ DirsLocked'
  BY <1>1, <1>2, <1>3, <1>4 DEF Inv, Fresh, DirsLocked, DiskTyped, Sess
<1> QED
  BY <1>1, <1>2, <1>3, <1>4, <1>5, <1>6, <1>7, <1>8, <1>9, <1>10, PlainStep
  DEF Start, KeepsSource, Collecting

\* discard_lock: the lock file goes after its directory.
LEMMA discard_lock_step ==
  ASSUME Inv, NEW p \in Procs, discard_lock(p)
  PROVE  Inv' /\ Frame(p)
<1> DEFINE r == proc[p]
<1>1. /\ Typed /\ DiskTyped /\ ProcType(r) /\ Scoped(r) /\ LocksOf(p)
      /\ r.pc = "discard_lock" /\ next \in 1 .. MaxSessions + 1 /\ quiet \in Procs \cup {None}
  BY Actor DEF discard_lock, At
<1>2. /\ Moves(p) /\ KeepsScan(p) /\ proc'[p].pc = "prepare" /\ proc'[p].final = r.final
      /\ proc'[p].cur = r.cur /\ proc'[p].src = 0 /\ proc'[p].names = {}
  BY <1>1, BecomeFields DEF discard_lock, KeepsScan, KeepsSource, Fields
<1>3. /\ dir' = dir /\ sh' = sh /\ file' = file /\ data' = data
      /\ lockfile' = lockfile \ {r.cur}
      /\ ex' = [ex EXCEPT ![r.cur] = None]
      /\ next' = next /\ quiet' = quiet
  BY DEF discard_lock
<1>4. /\ ~r.final /\ r.cur \in Sess /\ r.cur < next /\ r.cur \in lockfile
      /\ ex[r.cur] = p /\ dir[r.cur] = "none"
  BY <1>1, Owner DEF Collecting
<1>5. Typed'
  <2>1. ProcType(proc'[p])
    BY <1>1, <1>2, SessionAssumption DEF ProcType, SessPcs, Moves, KeepsScan, KeepsSource
  <2>2. DiskTyped'
    BY <1>1, <1>2, <1>3, <1>4, SessionAssumption DEF DiskTyped, Sess
  <2> QED
    BY <1>1, <1>2, <1>3, <2>1, <2>2, TypedStep
<1>6. NewestComplete' /\ \A t \in Finalized : \E u \in Finalized' : u >= t
  <2>1. /\ Finalized' = Finalized
        /\ \A s \in Finalized : file'[s] = file[s] /\ \A f \in Files : data'[f][s] = data[f][s]
    BY <1>1, <1>3, <1>4 DEF Finalized, DiskTyped
  <2> QED
    BY <1>5, <2>1, NewestSame
<1>7. Frame(p)
  <2>1. \A q \in Procs \ {p}, s \in Sess :
          (ex'[s] = q <=> ex[s] = q) /\ (q \in sh'[s] <=> q \in sh[s])
    BY <1>1, <1>3, <1>4, SessionAssumption DEF DiskTyped
  <2>2. \A s \in Sess : ex[s] # p =>
          /\ dir'[s] = dir[s]
          /\ s \in lockfile => s \in lockfile'
          /\ dir[s] # "none" => file'[s] = file[s]
          /\ \A f \in Files : data'[f][s] = data[f][s]
    BY <1>1, <1>3, <1>4 DEF DiskTyped
  <2>3. next <= next'
    BY <1>1, <1>3
  <2> QED
    BY <1>2, <1>6, <2>1, <2>2, <2>3 DEF Frame
<1>8. LocksOf(p)'
  BY <1>1, <1>2, <1>3, <1>4, SessionAssumption
  DEF KeepsScan, KeepsSource, LocksOf, Holds, Shares, Owns, Reading, DiskTyped, Scoped, Collecting, Removing, NoPath, Sess
<1>9. OwnDir(proc[p])' /\ SourceLocked(proc[p])' /\ Saved(proc[p])'
  BY <1>1, <1>2, <1>3, <1>4
  DEF KeepsSource, OwnDir, Owns, SourceLocked, Saved, Reading, DiskTyped
<1>10. Fresh' /\ DirsLocked'
  BY <1>1, <1>2, <1>3, <1>4 DEF Inv, Fresh, DirsLocked, DiskTyped, Sess
<1> QED
  BY <1>1, <1>2, <1>3, <1>4, <1>5, <1>6, <1>7, <1>8, <1>9, <1>10, PlainStep
  DEF Start, KeepsSource, Collecting

\* save_work_product_index: now both files are the session's own ones.
LEMMA save_work_product_index_step ==
  ASSUME Inv, NEW p \in Procs, save_work_product_index(p)
  PROVE  Inv' /\ Frame(p)
<1> DEFINE r == proc[p]
<1>1. /\ Typed /\ DiskTyped /\ ProcType(r) /\ Scoped(r) /\ LocksOf(p)
      /\ r.pc = "save_index" /\ next \in 1 .. MaxSessions + 1 /\ quiet \in Procs \cup {None}
  BY Actor DEF save_work_product_index, Goto, At
<1>2. Moves(p) /\ KeepsScan(p) /\ KeepsSource(p) /\ proc'[p].pc = "finalize"
  BY <1>1, BecomeFields DEF save_work_product_index, Goto, KeepsScan, KeepsSource, Fields
<1>3. /\ dir' = dir /\ lockfile' = lockfile /\ ex' = ex /\ sh' = sh
      /\ file' = [file EXCEPT ![r.cur] = [f \in Files |-> IF f = "work_products" THEN r.cur ELSE file[r.cur][f]]]
      /\ data' = [f \in Files |-> IF f = "work_products" THEN [data[f] EXCEPT ![r.cur] = r.cur] ELSE data[f]]
      /\ next' = next /\ quiet' = quiet
  BY DEF save_work_product_index, save_in
<1>4. /\ ~r.final /\ r.cur \in Sess /\ r.cur < next /\ r.cur \in lockfile
      /\ ex[r.cur] = p /\ dir[r.cur] = "working" /\ Saved(r)
  BY <1>1, Actor, Owner DEF ProcInv, Collecting
<1>5. Typed'
  <2>1. ProcType(proc'[p])
    BY <1>1, <1>2, SessionAssumption DEF ProcType, SessPcs, Moves, KeepsScan, KeepsSource
  <2>2. DiskTyped'
    BY <1>1, <1>2, <1>3, <1>4, SessionAssumption DEF DiskTyped, Sess
  <2> QED
    BY <1>1, <1>2, <1>3, <2>1, <2>2, TypedStep
<1>6. NewestComplete' /\ \A t \in Finalized : \E u \in Finalized' : u >= t
  <2>1. /\ Finalized' = Finalized
        /\ \A s \in Finalized : file'[s] = file[s] /\ \A f \in Files : data'[f][s] = data[f][s]
    BY <1>1, <1>3, <1>4 DEF Finalized, DiskTyped
  <2> QED
    BY <1>5, <2>1, NewestSame
<1>7. Frame(p)
  <2>1. \A q \in Procs \ {p}, s \in Sess :
          (ex'[s] = q <=> ex[s] = q) /\ (q \in sh'[s] <=> q \in sh[s])
    BY <1>1, <1>3, <1>4, SessionAssumption DEF DiskTyped
  <2>2. \A s \in Sess : ex[s] # p =>
          /\ dir'[s] = dir[s]
          /\ s \in lockfile => s \in lockfile'
          /\ dir[s] # "none" => file'[s] = file[s]
          /\ \A f \in Files : data'[f][s] = data[f][s]
    BY <1>1, <1>3, <1>4 DEF DiskTyped
  <2>3. next <= next'
    BY <1>1, <1>3
  <2> QED
    BY <1>2, <1>6, <2>1, <2>2, <2>3 DEF Frame
<1>8. LocksOf(p)'
  BY <1>1, <1>2, <1>3, <1>4, SessionAssumption
  DEF KeepsScan, KeepsSource, LocksOf, Holds, Shares, Owns, Reading, DiskTyped
<1>9. OwnDir(proc[p])' /\ SourceLocked(proc[p])' /\ Saved(proc[p])'
  BY <1>1, <1>2, <1>3, <1>4
  DEF KeepsSource, OwnDir, Owns, SourceLocked, Saved, Reading, DiskTyped, SavedIn, Files
<1>10. Fresh' /\ DirsLocked'
  BY <1>1, <1>2, <1>3, <1>4 DEF Inv, Fresh, DirsLocked, DiskTyped, Sess
<1> QED
  BY <1>1, <1>2, <1>3, <1>4, <1>5, <1>6, <1>7, <1>8, <1>9, <1>10, PlainStep
  DEF Start, KeepsSource, Collecting

\* setup_dep_graph: only the session's own working directory is emptied.
LEMMA setup_dep_graph_step ==
  ASSUME Inv, NEW p \in Procs, setup_dep_graph(p)
  PROVE  Inv' /\ Frame(p)
<1> DEFINE r == proc[p]
<1>1. /\ Typed /\ DiskTyped /\ ProcType(r) /\ Scoped(r) /\ LocksOf(p)
      /\ r.pc = "collected" /\ next \in 1 .. MaxSessions + 1 /\ quiet \in Procs \cup {None}
  BY Actor DEF setup_dep_graph, Goto, At
<1>2. Moves(p) /\ KeepsScan(p) /\ KeepsSource(p) /\ proc'[p].pc = "compile"
  BY <1>1, BecomeFields DEF setup_dep_graph, Goto, KeepsScan, KeepsSource, Fields
<1>3. /\ dir' = dir /\ lockfile' = lockfile /\ ex' = ex /\ sh' = sh /\ data' = data
      /\ file' \in [Sess -> [Files -> 0 .. MaxSessions]] /\ \A s \in Sess \ {r.cur} : file'[s] = file[s]
      /\ next' = next /\ quiet' = quiet
  <2>1. r.cur \in Sess /\ file \in [Sess -> [Files -> 0 .. MaxSessions]]
    BY <1>1 DEF Scoped, DiskTyped
  <2>2. CASE file' = [file EXCEPT ![r.cur] = NoFiles]
    BY <2>1, <2>2, NoFilesType DEF setup_dep_graph
  <2>3. CASE file' = file
    BY <2>1, <2>3 DEF setup_dep_graph
  <2> QED
    BY <2>2, <2>3 DEF setup_dep_graph
<1>4. /\ ~r.final /\ r.cur \in Sess /\ r.cur < next /\ r.cur \in lockfile
      /\ ex[r.cur] = p /\ dir[r.cur] = "working"
  BY <1>1, Owner DEF setup_dep_graph, Owns
<1>5. Typed'
  <2>1. ProcType(proc'[p])
    BY <1>1, <1>2, SessionAssumption DEF ProcType, SessPcs, Moves, KeepsScan, KeepsSource
  <2>2. DiskTyped'
    BY <1>1, <1>2, <1>3, <1>4, SessionAssumption DEF DiskTyped, Sess
  <2> QED
    BY <1>1, <1>2, <1>3, <2>1, <2>2, TypedStep
<1>6. NewestComplete' /\ \A t \in Finalized : \E u \in Finalized' : u >= t
  <2>1. /\ Finalized' = Finalized
        /\ \A s \in Finalized : file'[s] = file[s] /\ \A f \in Files : data'[f][s] = data[f][s]
    BY <1>1, <1>3, <1>4 DEF Finalized, DiskTyped
  <2> QED
    BY <1>5, <2>1, NewestSame
<1>7. Frame(p)
  <2>1. \A q \in Procs \ {p}, s \in Sess :
          (ex'[s] = q <=> ex[s] = q) /\ (q \in sh'[s] <=> q \in sh[s])
    BY <1>1, <1>3, <1>4, SessionAssumption DEF DiskTyped
  <2>2. \A s \in Sess : ex[s] # p =>
          /\ dir'[s] = dir[s]
          /\ s \in lockfile => s \in lockfile'
          /\ dir[s] # "none" => file'[s] = file[s]
          /\ \A f \in Files : data'[f][s] = data[f][s]
    BY <1>1, <1>3, <1>4 DEF DiskTyped
  <2>3. next <= next'
    BY <1>1, <1>3
  <2> QED
    BY <1>2, <1>6, <2>1, <2>2, <2>3 DEF Frame
<1>8. LocksOf(p)'
  BY <1>1, <1>2, <1>3, <1>4, SessionAssumption
  DEF KeepsScan, KeepsSource, LocksOf, Holds, Shares, Owns, Reading, DiskTyped
<1>9. OwnDir(proc[p])' /\ SourceLocked(proc[p])' /\ Saved(proc[p])'
  BY <1>1, <1>2, <1>3, <1>4
  DEF KeepsSource, OwnDir, Owns, SourceLocked, Saved, Reading, DiskTyped
<1>10. Fresh' /\ DirsLocked'
  BY <1>1, <1>2, <1>3, <1>4 DEF Inv, Fresh, DirsLocked, DiskTyped, Sess
<1> QED
  BY <1>1, <1>2, <1>3, <1>4, <1>5, <1>6, <1>7, <1>8, <1>9, <1>10, PlainStep
  DEF Start, KeepsSource, Collecting

\* finalize_rename: what is published is complete and its own.
LEMMA finalize_rename_step ==
  ASSUME Inv, NEW p \in Procs, finalize_rename(p)
  PROVE  Inv' /\ Frame(p)
<1> DEFINE r == proc[p]
<1>1. /\ Typed /\ DiskTyped /\ ProcType(r) /\ Scoped(r) /\ LocksOf(p)
      /\ r.pc = "finalize" /\ next \in 1 .. MaxSessions + 1 /\ quiet \in Procs \cup {None}
  BY Actor DEF finalize_rename, Goto, At
<1>2. Moves(p) /\ KeepsScan(p) /\ KeepsSource(p) /\ proc'[p].pc = "release"
  BY <1>1, BecomeFields DEF finalize_rename, Goto, KeepsScan, KeepsSource, Fields
<1>3. /\ lockfile' = lockfile /\ ex' = ex /\ sh' = sh /\ file' = file /\ data' = data
      /\ dir' = dir \/ dir' = [dir EXCEPT ![r.cur] = "finalized"]
      /\ next' = next /\ quiet' = quiet
  BY DEF finalize_rename
<1>4. /\ ~r.final /\ r.cur \in Sess /\ r.cur < next /\ r.cur \in lockfile
      /\ ex[r.cur] = p /\ dir[r.cur] = "working" /\ \A f \in Files : SavedIn(r.cur, f)
  BY <1>1, Actor, Owner DEF ProcInv, Saved, Files, Collecting
<1>5. Typed'
  <2>1. ProcType(proc'[p])
    BY <1>1, <1>2, SessionAssumption DEF ProcType, SessPcs, Moves, KeepsScan, KeepsSource
  <2>2. DiskTyped'
    BY <1>1, <1>2, <1>3, <1>4, SessionAssumption DEF DiskTyped, Sess
  <2> QED
    BY <1>1, <1>2, <1>3, <2>1, <2>2, TypedStep
<1>6. NewestComplete' /\ \A t \in Finalized : \E u \in Finalized' : u >= t
  <2>1. Finalized' = Finalized \/ Finalized' = Finalized \cup {r.cur}
    BY <1>1, <1>3, <1>4 DEF Finalized, DiskTyped
  <2>2. \A t \in Finalized : t \in Finalized' /\ t \in Nat
    BY <2>1 DEF Finalized, Sess
  <2>3. \A s \in Sess : s = r.cur => \A f \in Files : SavedIn(s, f)'
    BY <1>3, <1>4 DEF SavedIn
  <2> QED
    BY <1>3, <1>4, <2>1, <2>2, <2>3, NewestKept
<1>7. Frame(p)
  <2>1. \A q \in Procs \ {p}, s \in Sess :
          (ex'[s] = q <=> ex[s] = q) /\ (q \in sh'[s] <=> q \in sh[s])
    BY <1>1, <1>3, <1>4, SessionAssumption DEF DiskTyped
  <2>2. \A s \in Sess : ex[s] # p =>
          /\ dir'[s] = dir[s]
          /\ s \in lockfile => s \in lockfile'
          /\ dir[s] # "none" => file'[s] = file[s]
          /\ \A f \in Files : data'[f][s] = data[f][s]
    BY <1>1, <1>3, <1>4 DEF DiskTyped
  <2>3. next <= next'
    BY <1>1, <1>3
  <2> QED
    BY <1>2, <1>6, <2>1, <2>2, <2>3 DEF Frame
<1>8. LocksOf(p)'
  BY <1>1, <1>2, <1>3, <1>4, SessionAssumption
  DEF KeepsScan, KeepsSource, LocksOf, Holds, Shares, Owns, Reading, DiskTyped
<1>9. OwnDir(proc[p])' /\ SourceLocked(proc[p])' /\ Saved(proc[p])'
  BY <1>1, <1>2, <1>3, <1>4
  DEF KeepsSource, OwnDir, Owns, SourceLocked, Saved, Reading, DiskTyped
<1>10. Fresh' /\ DirsLocked'
  BY <1>1, <1>2, <1>3, <1>4 DEF Inv, Fresh, DirsLocked, DiskTyped, Sess
<1> QED
  BY <1>1, <1>2, <1>3, <1>4, <1>5, <1>6, <1>7, <1>8, <1>9, <1>10, PlainStep
  DEF Start, KeepsSource, Collecting

\* find_source_directory: the choice of a source changes nothing on the disk.
LEMMA find_source_directory_step ==
  ASSUME Inv, NEW p \in Procs, find_source_directory(p)
  PROVE  Inv' /\ Frame(p)
<1> DEFINE r == proc[p]
<1>1. /\ Typed /\ DiskTyped /\ ProcType(r) /\ Scoped(r) /\ LocksOf(p)
      /\ r.pc = "find_source" /\ next \in 1 .. MaxSessions + 1 /\ quiet \in Procs \cup {None}
  BY Actor DEF find_source_directory, At
<1>2. /\ Moves(p) /\ KeepsScan(p) /\ proc'[p].cur = r.cur /\ proc'[p].final = r.final
      /\ proc'[p].pc \in {"list", "lock_source"} /\ proc'[p].names = r.names
      /\ IF proc'[p].pc = "list" THEN proc'[p].src = r.src ELSE proc'[p].src \in Sess
  <2> DEFINE found == {s \in Sess : dir[s] = "finalized"} \ r.tried
  <2>1. CASE found = {}
    <3>1. Become(p, [pc |-> "list", tried |-> {}])
      BY <2>1 DEF find_source_directory
    <3> QED
      BY <1>1, <3>1, BecomeFields DEF KeepsScan, Fields
  <2>2. CASE found # {}
    <3>1. Become(p, [pc |-> "lock_source", src |-> Max(found)])
      BY <2>2 DEF find_source_directory
    <3>2. Max(found) \in Sess
      BY <2>2, MaxSession
    <3> QED
      BY <1>1, <3>1, <3>2, BecomeFields DEF KeepsScan, Fields
  <2> QED
    BY <2>1, <2>2
<1>3. /\ dir' = dir /\ lockfile' = lockfile /\ ex' = ex /\ sh' = sh /\ file' = file /\ data' = data
      /\ next' = next /\ quiet' = quiet
  BY DEF find_source_directory, disk
<1>4. /\ ~r.final /\ r.cur \in Sess /\ r.cur < next /\ r.cur \in lockfile
      /\ ex[r.cur] = p /\ dir[r.cur] = "working"
  BY <1>1, Owner DEF Collecting
<1>5. Typed'
  <2>1. ProcType(proc'[p])
    BY <1>1, <1>2, <1>4, SessionAssumption DEF ProcType, SessPcs, Sess, Moves, KeepsScan, KeepsSource
  <2>2. DiskTyped'
    BY <1>1, <1>2, <1>3, <1>4, SessionAssumption DEF DiskTyped, Sess
  <2> QED
    BY <1>1, <1>2, <1>3, <2>1, <2>2, TypedStep
<1>6. NewestComplete' /\ \A t \in Finalized : \E u \in Finalized' : u >= t
  <2>1. /\ Finalized' = Finalized
        /\ \A s \in Finalized : file'[s] = file[s] /\ \A f \in Files : data'[f][s] = data[f][s]
    BY <1>1, <1>3, <1>4 DEF Finalized, DiskTyped
  <2> QED
    BY <1>5, <2>1, NewestSame
<1>7. Frame(p)
  <2>1. \A q \in Procs \ {p}, s \in Sess :
          (ex'[s] = q <=> ex[s] = q) /\ (q \in sh'[s] <=> q \in sh[s])
    BY <1>1, <1>3, <1>4, SessionAssumption DEF DiskTyped
  <2>2. \A s \in Sess : ex[s] # p =>
          /\ dir'[s] = dir[s]
          /\ s \in lockfile => s \in lockfile'
          /\ dir[s] # "none" => file'[s] = file[s]
          /\ \A f \in Files : data'[f][s] = data[f][s]
    BY <1>1, <1>3, <1>4 DEF DiskTyped
  <2>3. next <= next'
    BY <1>1, <1>3
  <2> QED
    BY <1>2, <1>6, <2>1, <2>2, <2>3 DEF Frame
<1>8. LocksOf(p)'
  BY <1>1, <1>2, <1>3, <1>4, SessionAssumption
  DEF KeepsScan, KeepsSource, LocksOf, Holds, Shares, Owns, Reading, DiskTyped
<1>9. OwnDir(proc[p])' /\ SourceLocked(proc[p])' /\ Saved(proc[p])'
  BY <1>1, <1>2, <1>3, <1>4
  DEF KeepsSource, OwnDir, Owns, SourceLocked, Saved, Reading, DiskTyped
<1>10. Fresh' /\ DirsLocked'
  BY <1>1, <1>2, <1>3, <1>4 DEF Inv, Fresh, DirsLocked, DiskTyped, Sess
<1> QED
  BY <1>1, <1>2, <1>3, <1>4, <1>5, <1>6, <1>7, <1>8, <1>9, <1>10, PlainStep
  DEF Start, KeepsSource, Collecting

\* lock_source: the shared lock is taken only if nobody has the exclusive one.
LEMMA lock_source_step ==
  ASSUME Inv, NEW p \in Procs, lock_source(p)
  PROVE  Inv' /\ Frame(p)
<1> DEFINE r == proc[p]
<1>1. /\ Typed /\ DiskTyped /\ ProcType(r) /\ Scoped(r) /\ LocksOf(p)
      /\ r.pc = "lock_source" /\ next \in 1 .. MaxSessions + 1 /\ quiet \in Procs \cup {None}
  BY Actor DEF lock_source, At
<1>2. /\ Moves(p) /\ KeepsScan(p) /\ KeepsSource(p) /\ proc'[p].pc \in {"read_source", "discard"}
      /\ proc'[p].pc = "read_source" => r.src \in lockfile /\ ex[r.src] = None
  <2>1. CASE Become(p, [pc |-> "read_source"]) /\ r.src \in lockfile /\ ex[r.src] = None
    BY <1>1, <2>1, BecomeFields DEF KeepsScan, KeepsSource, Fields
  <2>2. CASE Become(p, [pc |-> "discard"])
    BY <1>1, <2>2, BecomeFields DEF KeepsScan, KeepsSource, Fields
  <2> QED
    BY <2>1, <2>2 DEF lock_source
<1>3. /\ dir' = dir /\ lockfile' = lockfile /\ ex' = ex /\ file' = file /\ data' = data
      /\ sh' \in [Sess -> SUBSET Procs]
      /\ \A s \in Sess : sh'[s] = IF s = r.src /\ proc'[p].pc = "read_source"
                               THEN sh[s] \cup {p} ELSE sh[s]
      /\ next' = next /\ quiet' = quiet
  <2>1. CASE Become(p, [pc |-> "read_source"]) /\ sh' = [sh EXCEPT ![r.src] = @ \cup {p}]
    <3>1. proc'[p].pc = "read_source"
      BY <1>1, <2>1, BecomeFields DEF Fields
    <3>2. r.src \in Sess /\ sh \in [Sess -> SUBSET Procs]
      BY <1>1 DEF Scoped, DiskTyped
    <3> QED
      BY <2>1, <3>1, <3>2 DEF lock_source
  <2>2. CASE Become(p, [pc |-> "discard"]) /\ sh' = sh
    BY <1>1, <2>2, BecomeFields DEF lock_source, DiskTyped, Scoped, Fields
  <2> QED
    BY <2>1, <2>2 DEF lock_source
<1>4. /\ ~r.final /\ r.cur \in Sess /\ r.cur < next /\ r.cur \in lockfile
      /\ ex[r.cur] = p /\ dir[r.cur] = "working"
      /\ r.src \in Sess
  BY <1>1, Owner DEF Scoped, Collecting
<1>5. Typed'
  <2>1. ProcType(proc'[p])
    BY <1>1, <1>2, SessionAssumption DEF ProcType, SessPcs, Moves, KeepsScan, KeepsSource
  <2>2. DiskTyped'
    BY <1>1, <1>2, <1>3, <1>4, SessionAssumption DEF DiskTyped, Sess
  <2> QED
    BY <1>1, <1>2, <1>3, <2>1, <2>2, TypedStep
<1>6. NewestComplete' /\ \A t \in Finalized : \E u \in Finalized' : u >= t
  <2>1. /\ Finalized' = Finalized
        /\ \A s \in Finalized : file'[s] = file[s] /\ \A f \in Files : data'[f][s] = data[f][s]
    BY <1>1, <1>3, <1>4 DEF Finalized, DiskTyped
  <2> QED
    BY <1>5, <2>1, NewestSame
<1>7. Frame(p)
  <2>1. \A q \in Procs \ {p}, s \in Sess :
          (ex'[s] = q <=> ex[s] = q) /\ (q \in sh'[s] <=> q \in sh[s])
    BY <1>1, <1>3, <1>4, SessionAssumption DEF DiskTyped
  <2>2. \A s \in Sess : ex[s] # p =>
          /\ dir'[s] = dir[s]
          /\ s \in lockfile => s \in lockfile'
          /\ dir[s] # "none" => file'[s] = file[s]
          /\ \A f \in Files : data'[f][s] = data[f][s]
    BY <1>1, <1>3, <1>4 DEF DiskTyped
  <2>3. next <= next'
    BY <1>1, <1>3
  <2> QED
    BY <1>2, <1>6, <2>1, <2>2, <2>3 DEF Frame
<1>8. LocksOf(p)'
  BY <1>1, <1>2, <1>3, <1>4, SessionAssumption
  DEF KeepsScan, KeepsSource, LocksOf, Holds, Shares, Owns, Reading, DiskTyped
<1>9. OwnDir(proc[p])' /\ SourceLocked(proc[p])' /\ Saved(proc[p])'
  BY <1>1, <1>2, <1>3, <1>4
  DEF KeepsSource, OwnDir, Owns, SourceLocked, Saved, Reading, DiskTyped
<1>10. Fresh' /\ DirsLocked'
  BY <1>1, <1>2, <1>3, <1>4 DEF Inv, Fresh, DirsLocked, DiskTyped, Sess
<1> QED
  BY <1>1, <1>2, <1>3, <1>4, <1>5, <1>6, <1>7, <1>8, <1>9, <1>10, PlainStep
  DEF Start, KeepsSource, Collecting

\* read_source: a directory that is read is published.
LEMMA read_source_step ==
  ASSUME Inv, NEW p \in Procs, read_source(p)
  PROVE  Inv' /\ Frame(p)
<1> DEFINE r == proc[p]
<1>1. /\ Typed /\ DiskTyped /\ ProcType(r) /\ Scoped(r) /\ LocksOf(p)
      /\ r.pc = "read_source" /\ next \in 1 .. MaxSessions + 1 /\ quiet \in Procs \cup {None}
  BY Actor DEF read_source, At
<1>2. /\ Moves(p) /\ KeepsScan(p) /\ proc'[p].cur = r.cur /\ proc'[p].final = r.final
      /\ proc'[p].src = r.src /\ proc'[p].names \subseteq Files
      /\ proc'[p].pc \in {"link", "discard"}
      /\ proc'[p].pc = "link" => /\ dir[r.src] = "finalized"
                                 /\ \A f \in proc'[p].names : file[r.src][f] # 0
  <2> DEFINE N == {f \in Files : file[r.src][f] # 0}
  <2>1. CASE Become(p, [pc |-> "link", names |-> N]) /\ dir[r.src] = "finalized"
    BY <1>1, <2>1, BecomeFields DEF KeepsScan, Fields
  <2>2. CASE Become(p, [pc |-> "discard"])
    BY <1>1, <2>2, BecomeFields DEF KeepsScan, ProcType, Fields
  <2> QED
    BY <2>1, <2>2 DEF read_source
<1>3. /\ dir' = dir /\ lockfile' = lockfile /\ ex' = ex /\ file' = file /\ data' = data
      /\ sh' \in [Sess -> SUBSET Procs]
      /\ \A s \in Sess : sh'[s] = IF s = r.src /\ proc'[p].pc = "discard"
                               THEN sh[s] \ {p} ELSE sh[s]
      /\ next' = next /\ quiet' = quiet
  <2> DEFINE N == {f \in Files : file[r.src][f] # 0}
  <2>1. CASE Become(p, [pc |-> "link", names |-> N]) /\ sh' = sh
    BY <1>1, <2>1, BecomeFields DEF read_source, DiskTyped, Scoped, Fields
  <2>2. CASE Become(p, [pc |-> "discard"]) /\ sh' = [sh EXCEPT ![r.src] = @ \ {p}]
    <3>1. proc'[p].pc = "discard"
      BY <1>1, <2>2, BecomeFields DEF Fields
    <3>2. r.src \in Sess /\ sh \in [Sess -> SUBSET Procs]
      BY <1>1 DEF Scoped, DiskTyped
    <3> QED
      BY <2>2, <3>1, <3>2 DEF read_source
  <2> QED
    BY <2>1, <2>2 DEF read_source
<1>4. /\ ~r.final /\ r.cur \in Sess /\ r.cur < next /\ r.cur \in lockfile
      /\ ex[r.cur] = p /\ dir[r.cur] = "working"
      /\ r.src \in Sess /\ r.src \in lockfile
  BY <1>1, Owner, Actor DEF ProcInv, Scoped, SourceLocked, Reading, Collecting
<1>5. Typed'
  <2>1. ProcType(proc'[p])
    BY <1>1, <1>2, SessionAssumption DEF ProcType, SessPcs, Moves, KeepsScan, KeepsSource
  <2>2. DiskTyped'
    BY <1>1, <1>2, <1>3, <1>4, SessionAssumption DEF DiskTyped, Sess
  <2> QED
    BY <1>1, <1>2, <1>3, <2>1, <2>2, TypedStep
<1>6. NewestComplete' /\ \A t \in Finalized : \E u \in Finalized' : u >= t
  <2>1. /\ Finalized' = Finalized
        /\ \A s \in Finalized : file'[s] = file[s] /\ \A f \in Files : data'[f][s] = data[f][s]
    BY <1>1, <1>3, <1>4 DEF Finalized, DiskTyped
  <2> QED
    BY <1>5, <2>1, NewestSame
<1>7. Frame(p)
  <2>1. \A q \in Procs \ {p}, s \in Sess :
          (ex'[s] = q <=> ex[s] = q) /\ (q \in sh'[s] <=> q \in sh[s])
    BY <1>1, <1>3, <1>4, SessionAssumption DEF DiskTyped
  <2>2. \A s \in Sess : ex[s] # p =>
          /\ dir'[s] = dir[s]
          /\ s \in lockfile => s \in lockfile'
          /\ dir[s] # "none" => file'[s] = file[s]
          /\ \A f \in Files : data'[f][s] = data[f][s]
    BY <1>1, <1>3, <1>4 DEF DiskTyped
  <2>3. next <= next'
    BY <1>1, <1>3
  <2> QED
    BY <1>2, <1>6, <2>1, <2>2, <2>3 DEF Frame
<1>8. LocksOf(p)'
  BY <1>1, <1>2, <1>3, <1>4, SessionAssumption
  DEF KeepsScan, KeepsSource, LocksOf, Holds, Shares, Owns, Reading, DiskTyped
<1>9. OwnDir(proc[p])' /\ SourceLocked(proc[p])' /\ Saved(proc[p])'
  BY <1>1, <1>2, <1>3, <1>4
  DEF KeepsSource, OwnDir, Owns, SourceLocked, Saved, Reading, DiskTyped
<1>10. Fresh' /\ DirsLocked'
  BY <1>1, <1>2, <1>3, <1>4 DEF Inv, Fresh, DirsLocked, DiskTyped, Sess
<1> QED
  BY <1>1, <1>2, <1>3, <1>4, <1>5, <1>6, <1>7, <1>8, <1>9, <1>10, PlainStep
  DEF Start, KeepsSource, Collecting

\* link: only the session's own directory gets the links.
LEMMA link_step ==
  ASSUME Inv, NEW p \in Procs, link(p)
  PROVE  Inv' /\ Frame(p)
<1> DEFINE r == proc[p]
<1>1. /\ Typed /\ DiskTyped /\ ProcType(r) /\ Scoped(r) /\ LocksOf(p)
      /\ r.pc = "link" /\ next \in 1 .. MaxSessions + 1 /\ quiet \in Procs \cup {None}
  BY Actor DEF link, At
<1>2. /\ Moves(p) /\ KeepsScan(p) /\ proc'[p].cur = r.cur /\ proc'[p].final = r.final
      /\ proc'[p].pc \in {"list", "discard"} /\ proc'[p].names \subseteq Files
      /\ proc'[p].src \in {0, r.src} /\ (proc'[p].pc = "discard" => proc'[p].src = r.src)
  <2>1. CASE Become(p, [pc |-> "list", src |-> 0, names |-> {}, tried |-> {}])
    BY <1>1, <2>1, BecomeFields DEF KeepsScan, Fields
  <2>2. CASE Become(p, [pc |-> "discard"])
    BY <1>1, <2>2, BecomeFields DEF KeepsScan, ProcType, Fields
  <2> QED
    BY <2>1, <2>2 DEF link
<1>3. /\ dir' = dir /\ lockfile' = lockfile /\ ex' = ex /\ data' = data
      /\ sh' = [sh EXCEPT ![r.src] = sh[r.src] \ {p}]
      /\ file' \in [Sess -> [Files -> 0 .. MaxSessions]] /\ \A s \in Sess \ {r.cur} : file'[s] = file[s]
      /\ next' = next /\ quiet' = quiet
  <2> DEFINE F == [f \in Files |-> IF f \in r.names THEN file[r.src][f] ELSE 0]
  <2>1. r.cur \in Sess /\ r.src \in Sess /\ file \in [Sess -> [Files -> 0 .. MaxSessions]]
    BY <1>1 DEF Scoped, DiskTyped
  <2>2. F \in [Files -> 0 .. MaxSessions]
    BY <2>1, SessionAssumption
  <2> HIDE DEF F
  <2>3. CASE file' = [file EXCEPT ![r.cur] = F]
    BY <2>1, <2>2, <2>3 DEF link
  <2>4. CASE file' = file
    BY <2>1, <2>4 DEF link
  <2> QED
    BY <2>3, <2>4 DEF link, F
<1>4. /\ ~r.final /\ r.cur \in Sess /\ r.cur < next /\ r.cur \in lockfile
      /\ ex[r.cur] = p /\ dir[r.cur] = "working"
      /\ r.src \in Sess
  BY <1>1, Owner DEF Scoped, Collecting
<1>5. Typed'
  <2>1. ProcType(proc'[p])
    BY <1>1, <1>2, SessionAssumption DEF ProcType, SessPcs, Moves, KeepsScan, KeepsSource
  <2>2. DiskTyped'
    BY <1>1, <1>2, <1>3, <1>4, SessionAssumption DEF DiskTyped, Sess
  <2> QED
    BY <1>1, <1>2, <1>3, <2>1, <2>2, TypedStep
<1>6. NewestComplete' /\ \A t \in Finalized : \E u \in Finalized' : u >= t
  <2>1. /\ Finalized' = Finalized
        /\ \A s \in Finalized : file'[s] = file[s] /\ \A f \in Files : data'[f][s] = data[f][s]
    BY <1>1, <1>3, <1>4 DEF Finalized, DiskTyped
  <2> QED
    BY <1>5, <2>1, NewestSame
<1>7. Frame(p)
  <2>1. \A q \in Procs \ {p}, s \in Sess :
          (ex'[s] = q <=> ex[s] = q) /\ (q \in sh'[s] <=> q \in sh[s])
    BY <1>1, <1>3, <1>4, SessionAssumption DEF DiskTyped
  <2>2. \A s \in Sess : ex[s] # p =>
          /\ dir'[s] = dir[s]
          /\ s \in lockfile => s \in lockfile'
          /\ dir[s] # "none" => file'[s] = file[s]
          /\ \A f \in Files : data'[f][s] = data[f][s]
    BY <1>1, <1>3, <1>4 DEF DiskTyped
  <2>3. next <= next'
    BY <1>1, <1>3
  <2> QED
    BY <1>2, <1>6, <2>1, <2>2, <2>3 DEF Frame
<1>8. LocksOf(p)'
  BY <1>1, <1>2, <1>3, <1>4, SessionAssumption
  DEF KeepsScan, KeepsSource, LocksOf, Holds, Shares, Owns, Reading, DiskTyped
<1>9. OwnDir(proc[p])' /\ SourceLocked(proc[p])' /\ Saved(proc[p])'
  BY <1>1, <1>2, <1>3, <1>4
  DEF KeepsSource, OwnDir, Owns, SourceLocked, Saved, Reading, DiskTyped
<1>10. Fresh' /\ DirsLocked'
  BY <1>1, <1>2, <1>3, <1>4 DEF Inv, Fresh, DirsLocked, DiskTyped, Sess
<1> QED
  BY <1>1, <1>2, <1>3, <1>4, <1>5, <1>6, <1>7, <1>8, <1>9, <1>10, PlainStep
  DEF Start, KeepsSource, Collecting

\* A process starts as one.
LEMMA StartType == ProcType(Start)
BY SessionAssumption DEF ProcType, Start, SessPcs, Fields, NoPath

\* A process that ends takes nothing along but its locks.
LEMMA EndStep ==
  ASSUME Inv, NEW p \in Procs, Typed', Frame(p), proc'[p] = Start, proc[p] # Start,
         quiet' \in {quiet, None},
         \A s \in Sess : ex'[s] # p /\ p \notin sh'[s],
         Fresh', DirsLocked', NewestComplete'
  PROVE  Inv'
<1>1. next' \in Nat \ {0}
  BY DEF Typed
<1>2. Scoped(proc[p])' /\ Apart(proc[p])'
  BY DEF Scoped, Apart, Start, Collecting, Removing
<1>3. LocksOf(p)'
  BY DEF LocksOf, Holds, Shares, Owns, Start, NoPath, Reading, Sess
<1>4. OwnDir(proc[p])' /\ VictimGone(proc[p])' /\ SourceLocked(proc[p])' /\ Saved(proc[p])'
  BY DEF OwnDir, Owns, VictimGone, SourceLocked, Saved, Start, Reading
<1>5. Known(proc[p])' /\ Named(proc[p])' /\ Remaining(proc[p])'
  BY <1>1 DEF Known, Named, Remaining, Start, NoPath, Sess
<1>6. ProcInv(p)'
  BY <1>2, <1>3, <1>4, <1>5 DEF ProcInv
<1>7. Quiet'
  <2>1. quiet = p => \A q \in Procs \ {p} : proc[q] = Start
    BY DEF Inv, Quiet
  <2>2. quiet' = p => quiet = p
    BY SessionAssumption
  <2> QED
    BY <1>5, <2>1, <2>2, QuietElse DEF Frame, Moves
<1> QED
  BY <1>6, <1>7, StepKept

\* finish: a process that ends holds no locks.
LEMMA finish_step ==
  ASSUME Inv, NEW p \in Procs, finish(p)
  PROVE  Inv' /\ Frame(p)
<1> DEFINE r == proc[p]
<1>1. /\ Typed /\ DiskTyped /\ ProcType(r) /\ Scoped(r) /\ LocksOf(p)
      /\ r.pc = "collected" /\ r.final /\ next \in 1 .. MaxSessions + 1
      /\ quiet \in Procs \cup {None}
  BY Actor DEF finish, At
<1>2. /\ Moves(p) /\ proc'[p] = Start
      /\ dir' = dir /\ lockfile' = lockfile /\ ex' = ex /\ sh' = sh
      /\ file' = file /\ data' = data /\ next' = next /\ quiet' = quiet
  BY <1>1, StartType DEF finish, Moves, Typed, ProcType, disk
<1>3. Typed'
  BY <1>1, <1>2, StartType, TypedStep DEF DiskTyped
<1>4. NewestComplete' /\ \A t \in Finalized : \E u \in Finalized' : u >= t
  BY <1>2, <1>3, NewestSame DEF Finalized
<1>5. Frame(p)
  BY <1>1, <1>2, <1>4 DEF Frame
<1>6. \A s \in Sess : ex'[s] # p /\ p \notin sh'[s]
  BY <1>1, <1>2 DEF LocksOf, Holds, Shares, Owns, Scoped, Collecting, Removing, NoPath, Reading, Sess
<1>7. Fresh' /\ DirsLocked'
  BY <1>2 DEF Inv, Fresh, DirsLocked
<1>8. r # Start
  BY <1>1 DEF Start
<1> QED
  BY <1>1, <1>2, <1>3, <1>4, <1>5, <1>6, <1>7, <1>8, EndStep

\* The locks of a process that dies are free, and only they.
LEMMA DeadLocks ==
  ASSUME Inv, NEW p \in Procs, dead(p)
  PROVE  /\ Moves(p) /\ proc'[p] = Start /\ quiet' \in {quiet, None}
         /\ ex' \in [Sess -> Procs \cup {None}] /\ sh' \in [Sess -> SUBSET Procs]
         /\ \A s \in Sess : ex'[s] # p /\ p \notin sh'[s] /\ (ex'[s] # None => sh'[s] = {})
         /\ \A q \in Procs \ {p}, s \in Sess :
              (ex'[s] = q <=> ex[s] = q) /\ (q \in sh'[s] <=> q \in sh[s])
         /\ \A s \in Sess : s >= next => ex'[s] = None /\ sh'[s] = {}
<1>1. Typed /\ DiskTyped /\ ProcType(proc[p])
  BY Actor
<1>2. Moves(p) /\ proc'[p] = Start /\ quiet' \in {quiet, None}
  BY <1>1, StartType DEF dead, Moves, Typed, ProcType
<1>3. /\ ex' = [s \in Sess |-> IF ex[s] = p THEN None ELSE ex[s]]
      /\ sh' = [s \in Sess |-> sh[s] \ {p}]
  BY DEF dead
<1>4. /\ ex' \in [Sess -> Procs \cup {None}] /\ sh' \in [Sess -> SUBSET Procs]
      /\ \A s \in Sess : ex'[s] # p /\ p \notin sh'[s] /\ (ex'[s] # None => sh'[s] = {})
      /\ \A q \in Procs \ {p}, s \in Sess :
           (ex'[s] = q <=> ex[s] = q) /\ (q \in sh'[s] <=> q \in sh[s])
  BY <1>1, <1>3, SessionAssumption DEF DiskTyped
<1>5. \A s \in Sess : s >= next => ex'[s] = None /\ sh'[s] = {}
  BY <1>3 DEF Inv, Fresh
<1> QED
  BY <1>2, <1>4, <1>5

\* die: a process may die at any step.
LEMMA die_step ==
  ASSUME Inv, NEW p \in Procs, die(p)
  PROVE  Inv' /\ Frame(p)
<1>1. /\ DiskTyped /\ next \in 1 .. MaxSessions + 1 /\ quiet \in Procs \cup {None}
      /\ dead(p) /\ proc[p] # Start
      /\ dir' = dir /\ lockfile' = lockfile /\ file' = file /\ data' = data /\ next' = next
  BY Actor DEF die, Live
<1>2. Typed'
  <2>1. DiskTyped'
    BY <1>1, DeadLocks DEF DiskTyped
  <2> QED
    BY <1>1, <2>1, DeadLocks, StartType, TypedStep
<1>3. NewestComplete' /\ \A t \in Finalized : \E u \in Finalized' : u >= t
  BY <1>1, <1>2, NewestSame DEF Finalized
<1>4. Frame(p)
  BY <1>1, <1>3, DeadLocks DEF Frame
<1>5. Fresh' /\ DirsLocked'
  BY <1>1, DeadLocks DEF Inv, Fresh, DirsLocked
<1> QED
  BY <1>1, <1>2, <1>3, <1>4, <1>5, DeadLocks, EndStep

\* What a process knows of the directory it deletes.
LEMMA Victim ==
  ASSUME Inv, NEW p \in Procs, proc[p].pc \in Removing
  PROVE  /\ proc[p].victim \in Paths /\ proc[p].victim[1] \in Sess
         /\ proc[p].victim[2] \in {"working", "finalized"}
         /\ proc[p].back \in {"inspect", "delete"} /\ proc[p].opened = NoPath
         /\ ex[proc[p].victim[1]] = p /\ proc[p].victim[1] < next
         /\ sh[proc[p].victim[1]] = {} /\ proc[p].victim[1] \notin proc[p].cands
         /\ \A d \in proc[p].todo : d[1] # proc[p].victim[1]
         /\ ~proc[p].final => proc[p].cur # proc[p].victim[1]
         /\ proc[p].victim[2] = "finalized" => Passed(proc[p].victim[1])
<1> DEFINE r == proc[p]
           s == r.victim[1]
<1>1. /\ Typed /\ DiskTyped /\ ProcType(r) /\ Scoped(r) /\ Apart(r) /\ LocksOf(p) /\ Known(r)
  BY Actor DEF ProcInv
<1>2. /\ r.victim \in Paths /\ r.back \in {"inspect", "delete"} /\ r.opened = NoPath
  BY <1>1 DEF Scoped, ProcType, Removing
<1>3. s \in Sess /\ r.victim[2] \in {"working", "finalized"}
  BY <1>2 DEF Paths
<1>4. ex[s] = p
  BY <1>1, <1>3 DEF LocksOf, Holds
<1>5. ex[s] # None
  BY <1>4, SessionAssumption
<1>6. s < next /\ sh[s] = {}
  BY <1>1, <1>3, <1>5 DEF Inv, Fresh, Typed, DiskTyped, Sess
<1> QED
  BY <1>1, <1>2, <1>3, <1>4, <1>6 DEF Apart, Known, Collecting, Removing

\* die_removing: a directory that is left with some of its files is superseded.
LEMMA die_removing_step ==
  ASSUME Inv, NEW p \in Procs, die_removing(p)
  PROVE  Inv' /\ Frame(p)
<1> DEFINE r == proc[p]
           v == r.victim[1]
<1>1. /\ DiskTyped /\ next \in 1 .. MaxSessions + 1 /\ quiet \in Procs \cup {None}
      /\ dead(p) /\ r.pc = "rm" /\ r.victim[2] = "finalized" /\ dir[v] = "finalized"
      /\ dir' = dir /\ lockfile' = lockfile /\ data' = data /\ next' = next
  BY Actor DEF die_removing, At
<1>2. r # Start
  BY <1>1 DEF Start
<1>3. v \in Sess /\ ex[v] = p /\ Passed(v)
  BY <1>1, Victim DEF Removing
<1>4. /\ file' \in [Sess -> [Files -> 0 .. MaxSessions]]
      /\ \A s \in Sess \ {v} : file'[s] = file[s]
      /\ \A f \in Files : file'[v][f] \in {file[v][f], 0}
  <2>1. PICK gone \in SUBSET Files :
          file' = [file EXCEPT ![v] = [f \in Files |-> IF f \in gone THEN 0 ELSE file[v][f]]]
    BY DEF die_removing
  <2>2. file \in [Sess -> [Files -> 0 .. MaxSessions]] /\ 0 \in 0 .. MaxSessions
    BY <1>1, SessionAssumption DEF DiskTyped
  <2> QED
    BY <1>3, <2>1, <2>2
<1>5. Typed'
  <2>1. DiskTyped'
    BY <1>1, <1>4, DeadLocks DEF DiskTyped
  <2> QED
    BY <1>1, <2>1, DeadLocks, StartType, TypedStep
<1>6. NewestComplete' /\ \A t \in Finalized : \E u \in Finalized' : u >= t
  <2>1. Finalized' = Finalized /\ \A t \in Finalized : t \in Sess /\ t \in Nat
    BY <1>1 DEF Finalized, Sess
  <2>2. \A s \in Sess : s = v => Passed(s)'
    BY <1>3, <2>1 DEF Passed
  <2> QED
    BY <1>1, <1>4, <2>1, <2>2, NewestKept
<1>7. Frame(p)
  BY <1>1, <1>3, <1>4, <1>6, DeadLocks DEF Frame
<1>8. Fresh' /\ DirsLocked'
  BY <1>1, DeadLocks DEF Inv, Fresh, DirsLocked
<1> QED
  BY <1>1, <1>2, <1>5, <1>6, <1>7, <1>8, DeadLocks, EndStep

-----------------------------------------------------------------------------
\* A step of a collection does nothing to the session the process owns.
LEMMA CollectStep ==
  ASSUME Inv, NEW p \in Procs, Typed', Frame(p), KeepsSource(p),
         proc[p].pc \in Collecting \cup {"list"}, proc'[p].pc \in Collecting \cup {"collected"},
         Scoped(proc[p])', Apart(proc[p])', LocksOf(p)',
         Owns(proc[p]) => dir'[proc[p].cur] = dir[proc[p].cur] /\ proc[p].cur \in lockfile',
         VictimGone(proc[p])', Known(proc[p])', Named(proc[p])',
         Fresh', DirsLocked', NewestComplete', quiet' \in {quiet, p, None},
         quiet' = p => /\ quiet = p \/ \A q \in Procs \ {p} : proc[q] = Start
                       /\ Remaining(proc[p])'
  PROVE  Inv'
<1>1. OwnDir(proc[p])'
  <2>1. OwnDir(proc[p])
    BY Actor
  <2>2. Owns(proc'[p]) => Owns(proc[p])
    BY DEF Owns, KeepsSource, Collecting
  <2> QED
    BY <2>1, <2>2 DEF OwnDir, KeepsSource, Owns, Collecting
<1>2. SourceLocked(proc[p])' /\ Saved(proc[p])'
  BY DEF SourceLocked, Saved, Reading, Collecting
<1>3. ProcInv(p)'
  BY <1>1, <1>2 DEF ProcInv
<1>4. proc[p] # Start
  BY DEF Start, Collecting
<1>5. quiet = p => \A q \in Procs \ {p} : proc[q] = Start
  BY DEF Inv, Quiet
<1>6. Quiet'
  BY <1>4, <1>5, QuietElse DEF Frame, Moves
<1> QED
  BY <1>3, <1>6, StepKept

\* list: every directory has a lock file, so that the listing deletes none; and
\* it leaves out the process's own one.
LEMMA list_step ==
  ASSUME Inv, NEW p \in Procs, list(p)
  PROVE  Inv' /\ Frame(p)
<1> DEFINE r == proc[p]
           locked == {s \in lockfile : dir[s] # "none"}
           found == {<<s, dir[s]>> : s \in locked} \ {Own(p)}
<1>1. /\ Typed /\ DiskTyped /\ ProcType(r) /\ Scoped(r) /\ LocksOf(p) /\ DirsLocked /\ Fresh
      /\ r.pc = "list" /\ next \in 1 .. MaxSessions + 1 /\ quiet \in Procs \cup {None}
  BY Actor DEF Inv, list, At
<1>2. /\ Moves(p) /\ KeepsSource(p) /\ proc'[p].pc = "inspect" /\ proc'[p].todo = found
      /\ proc'[p].opened = NoPath /\ proc'[p].cands = {}
      /\ proc'[p].victim = NoPath /\ proc'[p].back = "none"
  <2>1. Become(p, [pc |-> "inspect", todo |-> found])
    BY DEF list
  <2> HIDE DEF found
  <2> QED
    BY <1>1, <2>1, BecomeFields DEF KeepsSource, Fields, Scoped, Collecting, Removing
<1>3. locked = {s \in Sess : dir[s] # "none"}
  BY <1>1 DEF DirsLocked, DiskTyped
<1>4. /\ dir' = dir /\ lockfile' = lockfile /\ ex' = ex /\ sh' = sh /\ data' = data
      /\ next' = next /\ file' = [s \in Sess |-> IF dir[s] # "none" THEN file[s] ELSE NoFiles]
      /\ quiet' \in {p, None} /\ (quiet' = p => \A q \in Procs \ {p} : proc[q] = Start)
  <2>1. lockfile' = lockfile
    BY DEF list, extract_timestamp_ok
  <2>2. dir' = dir /\ file' = [s \in Sess |-> IF dir[s] # "none" THEN file[s] ELSE NoFiles]
    BY <1>1, <1>3 DEF list, DiskTyped
  <2>3. quiet' \in {p, None} /\ (quiet' = p => \A q \in Procs \ {p} : proc[q] = Start)
    BY SessionAssumption DEF list, Live
  <2> QED
    BY <2>1, <2>2, <2>3 DEF list
<1>5. \A d \in found : /\ d \in Paths /\ d = <<d[1], dir[d[1]]>> /\ d[1] \in Sess
                       /\ dir[d[1]] # "none" /\ d # Own(p)
  BY <1>1, <1>3 DEF Paths, DiskTyped
<1>6. \A s \in Sess : dir[s] # "none" /\ s # r.cur => <<s, dir[s]>> \in found
  BY <1>3 DEF Own
<1>7. ASSUME ~r.final, NEW d \in found
      PROVE  d[1] # r.cur
  <2>1. Owns(r)
    BY <1>1, <1>7 DEF Owns
  <2>2. dir[r.cur] = "working"
    BY <1>1, <2>1, Owner
  <2> QED
    BY <1>5, <1>7, <2>2 DEF Own
<1> HIDE DEF locked, found
<1>8. Typed'
  <2>1. ProcType(proc'[p])
    BY <1>1, <1>2, <1>5 DEF ProcType, SessPcs, Moves, KeepsSource
  <2>2. DiskTyped'
    BY <1>1, <1>4, NoFilesType DEF DiskTyped
  <2> QED
    BY <1>1, <1>2, <1>4, <2>1, <2>2, TypedStep
<1>9. NewestComplete' /\ \A t \in Finalized : \E u \in Finalized' : u >= t
  <2>1. Finalized' = Finalized /\ \A s \in Finalized : file'[s] = file[s] /\ data' = data
    BY <1>4 DEF Finalized
  <2> QED
    BY <1>8, <2>1, NewestSame
<1>10. Frame(p)
  BY <1>1, <1>2, <1>4, <1>9 DEF Frame
<1>11. Scoped(proc[p])' /\ Apart(proc[p])'
  <2>1. Scoped(proc[p])'
    BY <1>1, <1>2 DEF Scoped, KeepsSource, Collecting, Removing
  <2>2. \A d, e \in found : d[1] = e[1] => d = e
    BY <1>5
  <2>3. \A d \in found : d[1] # 0
    BY <1>5 DEF Sess
  <2>4. r.cur # 0
    BY <1>1 DEF Scoped, Sess
  <2> QED
    BY <1>2, <1>7, <2>1, <2>2, <2>3, <2>4 DEF Apart, KeepsSource, NoPath
<1>12. LocksOf(p)'
  BY <1>1, <1>2, <1>4 DEF LocksOf, Holds, Shares, Owns, Scoped, KeepsSource, Reading, Collecting, Removing
<1>13. VictimGone(proc[p])' /\ Known(proc[p])' /\ Named(proc[p])'
  <2>1. ASSUME NEW s \in Sess, <<s, "finalized">> \in found
        PROVE  Reached(s)'
    <3>1. s \in Finalized'
      BY <1>4, <1>5, <2>1 DEF Finalized
    <3> QED
      BY <3>1 DEF Reached, Sess
  <2>2. \A d \in found : d[1] < next
    BY <1>1, <1>5 DEF Fresh, Sess
  <2>3. VictimGone(proc[p])' /\ Known(proc[p])'
    BY <1>2, <2>1 DEF VictimGone, Known, NoPath
  <2>4. Named(proc[p])'
    BY <1>1, <1>2, <1>4, <2>2 DEF Named, NoPath
  <2> QED
    BY <2>3, <2>4
<1>14. Remaining(proc[p])'
  BY <1>2, <1>4, <1>6 DEF Remaining, KeepsSource
<1>15. Fresh' /\ DirsLocked'
  BY <1>1, <1>4 DEF Fresh, DirsLocked
<1>16. Owns(r) => r.cur \in lockfile'
  BY <1>4, Owner
<1> QED
  BY <1>1, <1>2, <1>4, <1>8, <1>9, <1>10, <1>11, <1>12, <1>13, <1>14, <1>15, <1>16, CollectStep
  DEF Collecting

\* A step that leaves the disk alone.
LEMMA DiskSame ==
  ASSUME Inv, NEW p \in Procs, Moves(p), ProcType(proc'[p]),
         dir' = dir, lockfile' = lockfile, ex' = ex, sh' = sh, file' = file, data' = data,
         next' = next, quiet' \in Procs \cup {None}
  PROVE  Typed' /\ Frame(p) /\ Fresh' /\ DirsLocked' /\ NewestComplete' /\ Finalized' = Finalized
<1>1. DiskTyped /\ next \in 1 .. MaxSessions + 1
  BY Actor
<1>2. Typed'
  BY <1>1, TypedStep DEF DiskTyped
<1>3. Finalized' = Finalized
  BY DEF Finalized
<1>4. NewestComplete' /\ \A t \in Finalized : \E u \in Finalized' : u >= t
  BY <1>2, <1>3, NewestSame
<1> QED
  BY <1>1, <1>2, <1>3, <1>4 DEF Inv, Frame, Fresh, DirsLocked

\* inspect: a session goes from the list to the lock.
LEMMA inspect_step ==
  ASSUME Inv, NEW p \in Procs, inspect(p)
  PROVE  Inv' /\ Frame(p)
<1> DEFINE r == proc[p]
<1>1. /\ Typed /\ DiskTyped /\ ProcType(r) /\ Scoped(r) /\ Apart(r) /\ LocksOf(p)
      /\ Known(r) /\ Named(r) /\ DirsLocked
      /\ r.pc = "inspect" /\ quiet \in Procs \cup {None}
      /\ r.opened = NoPath /\ r.victim = NoPath /\ r.back = "none"
  BY Actor DEF Inv, ProcInv, inspect, At, Scoped, Removing
<1>2. PICK d \in r.todo, is_old \in BOOLEAN :
        /\ Become(p, IF is_old /\ d[1] \in lockfile
                     THEN [pc |-> "flock", opened |-> d, todo |-> r.todo \ {d}]
                     ELSE [todo |-> r.todo \ {d}])
        /\ quiet' = IF quiet = p /\ ~is_old THEN None ELSE quiet
  BY DEF inspect
<1>3. /\ Moves(p) /\ KeepsSource(p) /\ proc'[p].todo = r.todo \ {d}
      /\ proc'[p].cands = r.cands /\ proc'[p].victim = NoPath /\ proc'[p].back = "none"
      /\ IF is_old /\ d[1] \in lockfile THEN proc'[p].pc = "flock" /\ proc'[p].opened = d
                                        ELSE proc'[p].pc = "inspect" /\ proc'[p].opened = NoPath
  <2>1. CASE is_old /\ d[1] \in lockfile
    <3>1. Become(p, [pc |-> "flock", opened |-> d, todo |-> r.todo \ {d}])
      BY <1>2, <2>1
    <3> QED
      BY <1>1, <2>1, <3>1, BecomeFields DEF KeepsSource, Fields
  <2>2. CASE ~(is_old /\ d[1] \in lockfile)
    <3>1. Become(p, [todo |-> r.todo \ {d}])
      BY <1>2, <2>2
    <3> QED
      BY <1>1, <2>2, <3>1, BecomeFields DEF KeepsSource, Fields
  <2> QED
    BY <2>1, <2>2
<1>4. /\ dir' = dir /\ lockfile' = lockfile /\ ex' = ex /\ sh' = sh
      /\ file' = file /\ data' = data /\ next' = next /\ quiet' \in {quiet, None}
  BY <1>2 DEF inspect, disk
<1>5. d \in Paths /\ d[1] \in Sess /\ d = <<d[1], d[2]>>
  BY <1>1 DEF ProcType, Paths
<1>6. ProcType(proc'[p])
  BY <1>1, <1>3, <1>5 DEF ProcType, SessPcs, Moves, KeepsSource
<1>7. Typed' /\ Frame(p) /\ Fresh' /\ DirsLocked' /\ NewestComplete' /\ Finalized' = Finalized
  BY <1>1, <1>3, <1>4, <1>6, DiskSame
<1>8. Scoped(proc[p])' /\ Apart(proc[p])'
  BY <1>1, <1>3, <1>5 DEF Scoped, Apart, KeepsSource, Collecting, Removing
<1>9. LocksOf(p)'
  BY <1>1, <1>3, <1>4 DEF LocksOf, Holds, Shares, Owns, KeepsSource, Reading
<1>10. VictimGone(proc[p])' /\ Known(proc[p])' /\ Named(proc[p])'
  BY <1>1, <1>3, <1>4, <1>7 DEF VictimGone, Known, Named, Reached, Passed, NoPath
<1>11. ASSUME quiet' = p
       PROVE  quiet = p /\ Remaining(proc[p])'
  <2>1. quiet = p /\ is_old
    BY <1>2, <1>11, SessionAssumption
  <2>2. Remaining(r)
    BY <2>1 DEF Inv, Quiet
  <2>3. ASSUME NEW s \in Sess \ {r.cur}, dir[s] # "none"
        PROVE  \/ <<s, dir[s]>> \in r.todo \ {d}
               \/ <<s, dir[s]>> = proc'[p].opened
               \/ dir[s] = "finalized" /\ s \in r.cands
    <3>1. \/ <<s, dir[s]>> \in r.todo
          \/ dir[s] = "finalized" /\ s \in r.cands
      BY <1>1, <2>2, <2>3 DEF Remaining, NoPath, Sess
    <3>2. CASE <<s, dir[s]>> = d
      BY <1>1, <1>3, <2>1, <2>3, <3>2 DEF DirsLocked
    <3> QED
      BY <3>1, <3>2
  <2> QED
    BY <1>3, <1>4, <2>1, <2>3 DEF Remaining, KeepsSource
<1>12. Owns(r) => r.cur \in lockfile'
  BY <1>4, Owner
<1> QED
  BY <1>1, <1>3, <1>4, <1>7, <1>8, <1>9, <1>10, <1>11, <1>12, CollectStep DEF Collecting

\* delete_candidate: what is going to be deleted is locked and superseded.
LEMMA delete_candidate_step ==
  ASSUME Inv, NEW p \in Procs, delete_candidate(p)
  PROVE  Inv' /\ Frame(p)
<1> DEFINE r == proc[p]
<1>1. /\ Typed /\ DiskTyped /\ ProcType(r) /\ Scoped(r) /\ Apart(r) /\ LocksOf(p)
      /\ Known(r) /\ Named(r) /\ r.pc = "delete" /\ quiet \in Procs \cup {None}
      /\ r.todo = {} /\ r.opened = NoPath /\ r.victim = NoPath /\ r.back = "none"
  BY Actor DEF ProcInv, delete_candidate, At, Scoped, Removing
<1>2. /\ dir' = dir /\ lockfile' = lockfile /\ ex' = ex /\ sh' = sh
      /\ file' = file /\ data' = data /\ next' = next /\ quiet' = quiet
  BY DEF delete_candidate, disk
<1>3. quiet = p => Remaining(r)
  BY DEF Inv, Quiet
<1>4. Owns(r) => r.cur \in lockfile'
  BY <1>2, Owner
<1>5. CASE r.cands = {}
  <2>1. /\ Moves(p) /\ KeepsSource(p) /\ proc'[p].pc = "collected" /\ proc'[p].todo = {}
        /\ proc'[p].cands = {} /\ proc'[p].opened = NoPath
        /\ proc'[p].victim = NoPath /\ proc'[p].back = "none"
    <3>1. Become(p, [pc |-> "collected"])
      BY <1>5 DEF delete_candidate
    <3> QED
      BY <1>1, <1>5, <3>1, BecomeFields DEF KeepsSource, Fields
  <2>2. ProcType(proc'[p])
    BY <1>1, <2>1 DEF ProcType, SessPcs, Moves, KeepsSource
  <2>3. Typed' /\ Frame(p) /\ Fresh' /\ DirsLocked' /\ NewestComplete' /\ Finalized' = Finalized
    BY <1>1, <1>2, <2>1, <2>2, DiskSame
  <2>4. Scoped(proc[p])' /\ Apart(proc[p])'
    BY <1>1, <2>1 DEF Scoped, Apart, KeepsSource, Collecting, Removing
  <2>5. LocksOf(p)'
    BY <1>1, <1>2, <1>5, <2>1 DEF LocksOf, Holds, Shares, Owns, KeepsSource, Reading
  <2>6. VictimGone(proc[p])' /\ Known(proc[p])' /\ Named(proc[p])'
    BY <1>1, <1>2, <2>1 DEF VictimGone, Known, Named, NoPath
  <2>7. quiet = p => Remaining(proc[p])'
    BY <1>1, <1>2, <1>3, <1>5, <2>1, <2>3 DEF Remaining, KeepsSource
  <2> QED
    BY <1>1, <1>2, <1>4, <2>1, <2>3, <2>4, <2>5, <2>6, <2>7, CollectStep DEF Collecting
<1>6. CASE r.cands # {}
  <2>1. PICK c \in r.cands :
          Become(p, [pc |-> "rm", victim |-> <<c, "finalized">>, back |-> "delete",
                     cands |-> r.cands \ {c}])
    BY <1>6 DEF delete_candidate
  <2>2. /\ Moves(p) /\ KeepsSource(p) /\ proc'[p].pc = "rm" /\ proc'[p].todo = {}
        /\ proc'[p].cands = r.cands \ {c} /\ proc'[p].opened = NoPath
        /\ proc'[p].victim = <<c, "finalized">> /\ proc'[p].back = "delete"
    BY <1>1, <2>1, BecomeFields DEF KeepsSource, Fields
  <2>3. c \in Sess /\ Passed(c) /\ c # 0
    BY <1>1 DEF ProcType, Known, Sess
  <2>4. ProcType(proc'[p])
    BY <1>1, <2>2, <2>3 DEF ProcType, SessPcs, Moves, KeepsSource, Paths
  <2>5. Typed' /\ Frame(p) /\ Fresh' /\ DirsLocked' /\ NewestComplete' /\ Finalized' = Finalized
    BY <1>1, <1>2, <2>2, <2>4, DiskSame
  <2>6. Scoped(proc[p])' /\ Apart(proc[p])'
    BY <1>1, <2>2, <2>3 DEF Scoped, Apart, KeepsSource, Collecting, Removing, Paths, NoPath
  <2>7. LocksOf(p)'
    BY <1>1, <1>2, <2>2, <2>3 DEF LocksOf, Holds, Shares, Owns, KeepsSource, Reading, NoPath, Sess
  <2>8. VictimGone(proc[p])' /\ Known(proc[p])' /\ Named(proc[p])'
    BY <1>1, <1>2, <2>2, <2>3, <2>5 DEF VictimGone, Known, Named, Reached, Passed, NoPath
  <2>9. quiet = p => Remaining(proc[p])'
    BY <1>1, <1>2, <1>3, <2>2, <2>3, <2>5 DEF Remaining, KeepsSource, NoPath
  <2> QED
    BY <1>1, <1>2, <1>4, <2>2, <2>5, <2>6, <2>7, <2>8, <2>9, CollectStep DEF Collecting
<1> QED
  BY <1>5, <1>6

\* flock: a lock that is taken was free; if nobody else is there, it is taken.
LEMMA flock_step ==
  ASSUME Inv, NEW p \in Procs, flock(p)
  PROVE  Inv' /\ Frame(p)
<1> DEFINE r == proc[p]
           s == r.opened[1]
<1>1. /\ Typed /\ DiskTyped /\ ProcType(r) /\ Scoped(r) /\ Apart(r) /\ LocksOf(p)
      /\ Known(r) /\ Named(r) /\ r.pc = "flock" /\ next \in 1 .. MaxSessions + 1
      /\ quiet \in Procs \cup {None} /\ r.victim = NoPath /\ r.back = "none"
  BY Actor DEF ProcInv, flock, At, Scoped, Removing
<1>2. /\ r.opened \in Paths /\ s \in Sess /\ r.opened = <<s, r.opened[2]>>
      /\ r.opened[2] \in {"working", "finalized"} /\ s < next /\ s # 0
  BY <1>1 DEF Scoped, Paths, Named, Sess
<1>3. /\ dir' = dir /\ lockfile' = lockfile /\ sh' = sh
      /\ file' = file /\ data' = data /\ next' = next /\ quiet' = quiet
  BY DEF flock
<1>4. /\ s \notin r.cands /\ (\A d \in r.todo : d[1] # s) /\ (~r.final => s # r.cur)
      /\ \A c \in r.cands : c # 0
  BY <1>1 DEF Apart, Collecting, ProcType, Sess
<1>5. quiet = p => Remaining(r)
  BY DEF Inv, Quiet
<1>6. Owns(r) => r.cur \in lockfile'
  BY <1>3, Owner
<1>7. CASE /\ ex[s] \in {None, p} /\ sh[s] = {} /\ ex' = [ex EXCEPT ![s] = p]
           /\ Become(p, IF r.opened[2] = "finalized"
                        THEN [pc |-> "inspect", opened |-> NoPath, cands |-> r.cands \cup {s}]
                        ELSE [pc |-> "rm", opened |-> NoPath,
                              victim |-> r.opened, back |-> "inspect"])
  <2>1. /\ Moves(p) /\ KeepsSource(p) /\ proc'[p].todo = r.todo /\ proc'[p].opened = NoPath
        /\ IF r.opened[2] = "finalized"
           THEN /\ proc'[p].pc = "inspect" /\ proc'[p].cands = r.cands \cup {s}
                /\ proc'[p].victim = NoPath /\ proc'[p].back = "none"
           ELSE /\ proc'[p].pc = "rm" /\ proc'[p].cands = r.cands
                /\ proc'[p].victim = r.opened /\ proc'[p].back = "inspect"
    <3>1. CASE r.opened[2] = "finalized"
      <4>1. Become(p, [pc |-> "inspect", opened |-> NoPath, cands |-> r.cands \cup {s}])
        BY <1>7, <3>1
      <4> QED
        BY <1>1, <3>1, <4>1, BecomeFields DEF KeepsSource, Fields
    <3>2. CASE r.opened[2] # "finalized"
      <4>1. Become(p, [pc |-> "rm", opened |-> NoPath, victim |-> r.opened, back |-> "inspect"])
        BY <1>7, <3>2
      <4> QED
        BY <1>1, <3>2, <4>1, BecomeFields DEF KeepsSource, Fields
    <3> QED
      BY <3>1, <3>2
  <2>2. ProcType(proc'[p])
    BY <1>1, <1>2, <2>1 DEF ProcType, SessPcs, Moves, KeepsSource
  <2>3. DiskTyped'
    BY <1>1, <1>2, <1>3, <1>7 DEF DiskTyped
  <2>4. Typed'
    BY <1>1, <1>3, <2>1, <2>2, <2>3, TypedStep
  <2>5. Finalized' = Finalized
    BY <1>3 DEF Finalized
  <2>6. NewestComplete' /\ \A t \in Finalized : \E u \in Finalized' : u >= t
    BY <1>3, <2>4, <2>5, NewestSame
  <2>7. Frame(p)
    <3>1. \A q \in Procs \ {p}, t \in Sess : ex'[t] = q <=> ex[t] = q
      BY <1>1, <1>2, <1>7, SessionAssumption DEF DiskTyped
    <3> QED
      BY <1>1, <1>3, <2>1, <2>6, <3>1 DEF Frame
  <2>8. Scoped(proc[p])' /\ Apart(proc[p])'
    BY <1>1, <1>2, <1>4, <2>1 DEF Scoped, Apart, KeepsSource, Collecting, Removing, NoPath
  <2>9. LocksOf(p)'
    <3>1. \A t \in Sess : (ex'[t] = p <=> ex[t] = p \/ t = s) /\ sh'[t] = sh[t] /\ t # 0
      BY <1>1, <1>3, <1>7 DEF DiskTyped, Sess
    <3>2. \A t \in Sess : Holds(proc'[p], t) <=> Holds(r, t) \/ t = s
      BY <1>1, <2>1, <3>1 DEF Holds, Owns, KeepsSource, NoPath
    <3>3. \A t \in Sess : ~Shares(proc'[p], t) /\ ~Shares(r, t)
      BY <1>1, <2>1 DEF Shares, Reading
    <3> QED
      BY <1>1, <3>1, <3>2, <3>3 DEF LocksOf
  <2>10. VictimGone(proc[p])' /\ Known(proc[p])' /\ Named(proc[p])'
    BY <1>1, <1>2, <1>3, <2>1, <2>5 DEF VictimGone, Known, Named, Reached, Passed, NoPath
  <2>11. quiet = p => Remaining(proc[p])'
    BY <1>1, <1>2, <1>3, <1>5, <2>1 DEF Remaining, KeepsSource, NoPath
  <2>12. Fresh' /\ DirsLocked'
    BY <1>1, <1>2, <1>3, <1>7 DEF Inv, Fresh, DirsLocked, DiskTyped, Sess
  <2> QED
    BY <1>1, <1>3, <1>6, <2>1, <2>4, <2>6, <2>7, <2>8, <2>9, <2>10, <2>11, <2>12, CollectStep
    DEF Collecting
<1>8. CASE /\ ex[s] # None \/ sh[s] # {}
           /\ Become(p, [pc |-> "inspect", opened |-> NoPath]) /\ ex' = ex
  <2>1. /\ Moves(p) /\ KeepsSource(p) /\ proc'[p].todo = r.todo /\ proc'[p].opened = NoPath
        /\ proc'[p].pc = "inspect" /\ proc'[p].cands = r.cands
        /\ proc'[p].victim = NoPath /\ proc'[p].back = "none"
    BY <1>1, <1>8, BecomeFields DEF KeepsSource, Fields
  <2>2. ProcType(proc'[p])
    BY <1>1, <2>1 DEF ProcType, SessPcs, Moves, KeepsSource
  <2>3. Typed' /\ Frame(p) /\ Fresh' /\ DirsLocked' /\ NewestComplete' /\ Finalized' = Finalized
    BY <1>1, <1>3, <1>8, <2>1, <2>2, DiskSame
  <2>4. Scoped(proc[p])' /\ Apart(proc[p])'
    BY <1>1, <1>4, <2>1 DEF Scoped, Apart, KeepsSource, Collecting, Removing, NoPath
  <2>5. LocksOf(p)'
    BY <1>1, <1>3, <1>8, <2>1 DEF LocksOf, Holds, Shares, Owns, KeepsSource, Reading
  <2>6. VictimGone(proc[p])' /\ Known(proc[p])' /\ Named(proc[p])'
    BY <1>1, <1>3, <2>1, <2>3 DEF VictimGone, Known, Named, Reached, Passed, NoPath
  <2>7. ASSUME quiet = p, s # r.cur
        PROVE  FALSE
    <3>1. \A q \in Procs \ {p} : proc[q] = Start /\ LocksOf(q)
      BY <2>7 DEF Inv, Quiet, ProcInv
    <3>2. \A q \in Procs \ {p} : ex[s] # q /\ q \notin sh[s]
      BY <1>2, <3>1 DEF LocksOf, Holds, Shares, Owns, Start, Reading, NoPath
    <3>3. ex[s] # p /\ p \notin sh[s]
      BY <1>1, <1>2, <1>4, <2>7 DEF LocksOf, Holds, Shares, Owns, Reading, NoPath
    <3>4. ex[s] \in Procs \cup {None} /\ sh[s] \subseteq Procs
      BY <1>1, <1>2 DEF DiskTyped
    <3> QED
      BY <1>8, <3>2, <3>3, <3>4
  <2>8. quiet = p => Remaining(proc[p])'
    BY <1>1, <1>2, <1>3, <1>5, <2>1, <2>7 DEF Remaining, KeepsSource, NoPath
  <2> QED
    BY <1>1, <1>3, <1>6, <2>1, <2>3, <2>4, <2>5, <2>6, <2>8, CollectStep DEF Collecting
<1> QED
  BY <1>7, <1>8 DEF flock

\* all_except_most_recent: the other candidates are older than the one that is
\* kept, or than what has superseded it since.
LEMMA all_except_most_recent_step ==
  ASSUME Inv, NEW p \in Procs, all_except_most_recent(p)
  PROVE  Inv' /\ Frame(p)
<1> DEFINE r == proc[p]
           keep == IF r.cands = {} THEN {} ELSE {Max(r.cands)}
<1>1. /\ Typed /\ DiskTyped /\ ProcType(r) /\ Scoped(r) /\ Apart(r) /\ LocksOf(p)
      /\ Known(r) /\ Named(r) /\ r.pc = "inspect" /\ next \in 1 .. MaxSessions + 1
      /\ quiet \in Procs \cup {None} /\ r.todo = {} /\ r.opened = NoPath
      /\ r.victim = NoPath /\ r.back = "none"
  BY Actor DEF ProcInv, all_except_most_recent, At, Scoped, Removing
<1>2. /\ r.cands \subseteq Sess /\ r.cands \subseteq Nat /\ keep \subseteq r.cands
      /\ \A k \in keep, c \in r.cands : c <= k
      /\ \A c \in r.cands : keep # {} /\ c # 0
  BY <1>1, MaxSession DEF ProcType, Sess
<1>3. /\ Become(p, [pc |-> "delete", cands |-> r.cands \ keep])
      /\ ex' = [s \in Sess |-> IF s \in keep THEN None ELSE ex[s]]
      /\ dir' = dir /\ lockfile' = lockfile /\ sh' = sh
      /\ file' = file /\ data' = data /\ next' = next /\ quiet' = quiet
  BY DEF all_except_most_recent
<1> HIDE DEF keep
<1>4. /\ Moves(p) /\ KeepsSource(p) /\ proc'[p].todo = {} /\ proc'[p].opened = NoPath
      /\ proc'[p].pc = "delete" /\ proc'[p].cands = r.cands \ keep
      /\ proc'[p].victim = NoPath /\ proc'[p].back = "none"
  BY <1>1, <1>3, BecomeFields DEF KeepsSource, Fields
<1>5. \A s \in keep : ex[s] = p /\ (~r.final => s # r.cur)
  BY <1>1, <1>2 DEF LocksOf, Holds, Apart, Collecting
<1>6. Typed'
  <2>1. ProcType(proc'[p])
    BY <1>1, <1>4 DEF ProcType, SessPcs, Moves, KeepsSource
  <2>2. DiskTyped'
    BY <1>1, <1>3 DEF DiskTyped
  <2> QED
    BY <1>1, <1>3, <1>4, <2>1, <2>2, TypedStep
<1>7. Finalized' = Finalized
  BY <1>3 DEF Finalized
<1>8. NewestComplete' /\ \A t \in Finalized : \E u \in Finalized' : u >= t
  BY <1>3, <1>6, <1>7, NewestSame
<1>9. Frame(p)
  <2>1. \A q \in Procs \ {p}, t \in Sess : ex'[t] = q <=> ex[t] = q
    BY <1>1, <1>3, <1>5, SessionAssumption DEF DiskTyped
  <2> QED
    BY <1>1, <1>3, <1>4, <1>8, <2>1 DEF Frame
<1>10. Scoped(proc[p])' /\ Apart(proc[p])'
  BY <1>1, <1>4 DEF Scoped, Apart, KeepsSource, Collecting, Removing
<1>11. LocksOf(p)'
  BY <1>1, <1>2, <1>3, <1>4, <1>5, SessionAssumption
  DEF LocksOf, Holds, Shares, Owns, KeepsSource, Reading, NoPath, Sess
<1>12. VictimGone(proc[p])' /\ Known(proc[p])' /\ Named(proc[p])'
  <2>1. ASSUME NEW c \in r.cands \ keep
        PROVE  Passed(c)'
    <3>1. PICK k \in keep : c < k
      BY <1>2
    <3>2. PICK t \in Finalized : t >= k
      BY <1>1, <1>2 DEF Known, Reached
    <3>3. t > c /\ t \in Finalized'
      BY <1>2, <1>7, <3>1, <3>2 DEF Finalized, Sess
    <3> QED
      BY <3>3 DEF Passed
  <2>2. \A c \in r.cands : Reached(c)'
    BY <1>1, <1>2, <1>7 DEF Known, Reached
  <2> QED
    BY <1>1, <1>3, <1>4, <2>1, <2>2 DEF VictimGone, Known, Named, NoPath
<1>13. quiet = p => Remaining(proc[p])'
  <2>1. ASSUME quiet = p, NEW s \in Sess \ {r.cur}, dir[s] # "none"
        PROVE  dir[s] = "finalized" /\ s \in r.cands
    <3>1. Remaining(r)
      BY <2>1 DEF Inv, Quiet
    <3> QED
      BY <1>1, <2>1, <3>1 DEF Remaining, NoPath, Sess
  <2>2. ASSUME quiet = p, NEW s \in keep
        PROVE  \A t \in Finalized \ {r.cur} : t <= s
    BY <1>2, <2>1, <2>2 DEF Finalized
  <2> QED
    BY <1>3, <1>4, <1>7, <2>1, <2>2 DEF Remaining, KeepsSource
<1>14. Fresh' /\ DirsLocked'
  BY <1>1, <1>3 DEF Inv, Fresh, DirsLocked
<1>15. Owns(r) => r.cur \in lockfile'
  BY <1>3, Owner
<1> QED
  BY <1>1, <1>3, <1>4, <1>6, <1>8, <1>9, <1>10, <1>11, <1>12, <1>13, <1>14, <1>15, CollectStep
  DEF Collecting

\* remove_dir_all: the newest published directory is not the victim.
LEMMA remove_dir_all_step ==
  ASSUME Inv, NEW p \in Procs, remove_dir_all(p)
  PROVE  Inv' /\ Frame(p)
<1> DEFINE r == proc[p]
           v == r.victim[1]
<1>1. /\ Typed /\ DiskTyped /\ ProcType(r) /\ Scoped(r) /\ Apart(r) /\ LocksOf(p)
      /\ Known(r) /\ Named(r) /\ r.pc = "rm" /\ next \in 1 .. MaxSessions + 1
      /\ quiet \in Procs \cup {None}
  BY Actor DEF ProcInv, remove_dir_all, At
<1>2. /\ r.victim \in Paths /\ v \in Sess /\ ex[v] = p /\ sh[v] = {}
      /\ r.victim = <<v, r.victim[2]>> /\ r.victim[2] \in {"working", "finalized"}
      /\ (~r.final => r.cur # v) /\ r.back \in {"inspect", "delete"}
      /\ (r.victim[2] = "finalized" => Passed(v)) /\ r.opened = NoPath
  BY <1>1, Victim DEF Removing, Paths
<1>3. /\ lockfile' = lockfile /\ ex' = ex /\ sh' = sh /\ data' = data
      /\ next' = next /\ quiet' = quiet
  BY DEF remove_dir_all
<1>4. quiet = p => Remaining(r)
  BY DEF Inv, Quiet
<1>5. CASE /\ dir[v] = r.victim[2] /\ dir' = [dir EXCEPT ![v] = "none"]
           /\ file' = [file EXCEPT ![v] = NoFiles] /\ Become(p, [pc |-> "unlink"])
  <2>1. Moves(p) /\ KeepsSource(p) /\ KeepsScan(p) /\ proc'[p].pc = "unlink"
    BY <1>1, <1>5, BecomeFields DEF KeepsSource, KeepsScan, Fields
  <2>2. ProcType(proc'[p])
    BY <1>1, <2>1 DEF ProcType, SessPcs, Moves, KeepsSource, KeepsScan
  <2>3. DiskTyped'
    BY <1>1, <1>2, <1>3, <1>5, NoFilesType DEF DiskTyped
  <2>4. Typed'
    BY <1>1, <1>3, <2>1, <2>2, <2>3, TypedStep
  <2>5. /\ Finalized' = Finalized \ {v} /\ Finalized \subseteq Nat
        /\ \A t \in Sess : t # v => dir'[t] = dir[t] /\ file'[t] = file[t]
        /\ dir'[v] = "none"
    BY <1>1, <1>2, <1>5 DEF Finalized, DiskTyped, Sess
  <2>6. \A t \in Finalized : \E u \in Finalized' : u >= t
    <3>1. ASSUME NEW t \in Finalized
          PROVE  \E u \in Finalized' : u >= t
      <4>1. CASE t # v
        BY <2>5, <4>1
      <4>2. CASE t = v
        <5>1. PICK u \in Finalized : u > v
          BY <1>2, <1>5, <4>2 DEF Passed, Finalized
        <5>2. u # v /\ u >= t
          BY <2>5, <4>2, <5>1
        <5> QED
          BY <2>5, <5>1, <5>2
      <4> QED
        BY <4>1, <4>2
    <3> QED
      BY <3>1
  <2>7. NewestComplete'
    <3>1. \A s \in Finalized' : s \in Finalized /\ file'[s] = file[s]
      BY <2>5 DEF Finalized
    <3> QED
      BY <1>3, <2>6, <3>1, NewestKept
  <2>8. Frame(p)
    BY <1>1, <1>3, <1>2, <2>1, <2>5, <2>6 DEF Frame
  <2>9. Scoped(proc[p])' /\ Apart(proc[p])'
    BY <1>1, <2>1 DEF Scoped, Apart, KeepsSource, KeepsScan, Collecting, Removing
  <2>10. LocksOf(p)'
    BY <1>1, <1>3, <2>1 DEF LocksOf, Holds, Shares, Owns, KeepsSource, KeepsScan, Reading
  <2>11. VictimGone(proc[p])' /\ Known(proc[p])' /\ Named(proc[p])'
    <3>1. \A s \in Sess : (Reached(s) => Reached(s)') /\ (Passed(s) => Passed(s)')
      BY <2>5, <2>6 DEF Reached, Passed, Sess
    <3>2. VictimGone(proc[p])' /\ Named(proc[p])'
      BY <1>1, <1>3, <2>1, <2>5 DEF VictimGone, Named, KeepsScan
    <3>3. Known(proc[p])'
      BY <1>1, <1>2, <2>1, <3>1 DEF Known, KeepsScan, ProcType
    <3> QED
      BY <3>2, <3>3
  <2>12. quiet = p => Remaining(proc[p])'
    BY <1>1, <1>2, <1>4, <2>1, <2>5 DEF Remaining, KeepsSource, KeepsScan
  <2>13. Fresh' /\ DirsLocked'
    BY <1>1, <1>3, <2>5 DEF Inv, Fresh, DirsLocked
  <2>14. Owns(r) => dir'[r.cur] = dir[r.cur] /\ r.cur \in lockfile'
    BY <1>2, <1>3, <2>5, Owner
  <2> QED
    BY <1>1, <1>3, <2>1, <2>4, <2>7, <2>8, <2>9, <2>10, <2>11, <2>12, <2>13, <2>14, CollectStep
    DEF Collecting
<1>6. CASE /\ dir[v] # r.victim[2] /\ dir' = dir /\ file' = file /\ Become(p, [pc |-> "drop"])
  <2>1. Moves(p) /\ KeepsSource(p) /\ KeepsScan(p) /\ proc'[p].pc = "drop"
    BY <1>1, <1>6, BecomeFields DEF KeepsSource, KeepsScan, Fields
  <2>2. ProcType(proc'[p])
    BY <1>1, <2>1 DEF ProcType, SessPcs, Moves, KeepsSource, KeepsScan
  <2>3. Typed' /\ Frame(p) /\ Fresh' /\ DirsLocked' /\ NewestComplete' /\ Finalized' = Finalized
    BY <1>1, <1>3, <1>6, <2>1, <2>2, DiskSame
  <2>4. Scoped(proc[p])' /\ Apart(proc[p])'
    BY <1>1, <2>1 DEF Scoped, Apart, KeepsSource, KeepsScan, Collecting, Removing
  <2>5. LocksOf(p)'
    BY <1>1, <1>3, <2>1 DEF LocksOf, Holds, Shares, Owns, KeepsSource, KeepsScan, Reading
  <2>6. VictimGone(proc[p])' /\ Known(proc[p])' /\ Named(proc[p])'
    BY <1>1, <1>3, <1>6, <2>1, <2>3 DEF VictimGone, Known, Named, Reached, Passed, KeepsScan
  <2>7. quiet = p => Remaining(proc[p])'
    BY <1>1, <1>2, <1>4, <1>6, <2>1, <2>3 DEF Remaining, KeepsSource, KeepsScan
  <2>8. Owns(r) => dir'[r.cur] = dir[r.cur] /\ r.cur \in lockfile'
    BY <1>3, <1>6, Owner
  <2> QED
    BY <1>1, <1>3, <2>1, <2>3, <2>4, <2>5, <2>6, <2>7, <2>8, CollectStep DEF Collecting
<1> QED
  BY <1>5, <1>6 DEF remove_dir_all

\* drop_lock: a lock file is deleted after its directory only.
LEMMA drop_lock_step ==
  ASSUME Inv, NEW p \in Procs, drop_lock(p)
  PROVE  Inv' /\ Frame(p)
<1> DEFINE r == proc[p]
           v == r.victim[1]
<1>1. /\ Typed /\ DiskTyped /\ ProcType(r) /\ Scoped(r) /\ Apart(r) /\ LocksOf(p)
      /\ VictimGone(r) /\ Known(r) /\ Named(r) /\ r.pc \in {"unlink", "drop"}
      /\ next \in 1 .. MaxSessions + 1 /\ quiet \in Procs \cup {None}
  BY Actor DEF ProcInv, drop_lock
<1>2. /\ v \in Sess /\ ex[v] = p /\ v # 0 /\ r.victim = <<v, r.victim[2]>>
      /\ (~r.final => r.cur # v) /\ r.back \in {"inspect", "delete"} /\ v \notin r.cands
      /\ r.opened = NoPath /\ \A d \in r.todo : d[1] # v
  BY <1>1, Victim DEF Removing, Paths, Sess
<1>3. /\ Become(p, [pc |-> r.back, victim |-> NoPath, back |-> "none"])
      /\ lockfile' = (IF r.pc = "unlink" THEN lockfile \ {v} ELSE lockfile)
      /\ ex' = [ex EXCEPT ![v] = None]
      /\ dir' = dir /\ sh' = sh /\ file' = file /\ data' = data
      /\ next' = next /\ quiet' = quiet
  BY DEF drop_lock, At
<1>4. /\ Moves(p) /\ KeepsSource(p) /\ proc'[p].pc = r.back
      /\ proc'[p].todo = r.todo /\ proc'[p].opened = NoPath /\ proc'[p].cands = r.cands
      /\ proc'[p].victim = NoPath /\ proc'[p].back = "none"
  BY <1>1, <1>2, <1>3, BecomeFields DEF KeepsSource, Fields
<1>5. Typed'
  <2>1. ProcType(proc'[p])
    BY <1>1, <1>2, <1>4 DEF ProcType, SessPcs, Moves, KeepsSource
  <2>2. DiskTyped'
    BY <1>1, <1>2, <1>3 DEF DiskTyped
  <2> QED
    BY <1>1, <1>3, <1>4, <2>1, <2>2, TypedStep
<1>6. Finalized' = Finalized
  BY <1>3 DEF Finalized
<1>7. NewestComplete' /\ \A t \in Finalized : \E u \in Finalized' : u >= t
  BY <1>3, <1>5, <1>6, NewestSame
<1>8. Frame(p)
  <2>1. \A q \in Procs \ {p}, t \in Sess : ex'[t] = q <=> ex[t] = q
    BY <1>1, <1>2, <1>3, SessionAssumption DEF DiskTyped
  <2>2. \A t \in Sess : ex[t] # p /\ t \in lockfile => t \in lockfile'
    BY <1>2, <1>3
  <2> QED
    BY <1>1, <1>3, <1>4, <1>7, <2>1, <2>2 DEF Frame
<1>9. Scoped(proc[p])' /\ Apart(proc[p])'
  BY <1>1, <1>2, <1>4 DEF Scoped, Apart, KeepsSource, Collecting, Removing, NoPath, ProcType, Sess
<1>10. LocksOf(p)'
  <2>1. \A t \in Sess : (ex'[t] = p <=> ex[t] = p /\ t # v) /\ sh'[t] = sh[t] /\ t # 0
    BY <1>1, <1>3, SessionAssumption DEF DiskTyped, Sess
  <2>2. \A t \in Sess : Holds(proc'[p], t) <=> Holds(r, t) /\ t # v
    BY <1>1, <1>2, <1>4, <2>1 DEF Holds, Owns, KeepsSource, NoPath
  <2>3. \A t \in Sess : ~Shares(proc'[p], t) /\ ~Shares(r, t)
    BY <1>1, <1>2, <1>4 DEF Shares, Reading
  <2> QED
    BY <1>1, <2>1, <2>2, <2>3 DEF LocksOf
<1>11. VictimGone(proc[p])' /\ Known(proc[p])' /\ Named(proc[p])'
  BY <1>1, <1>2, <1>3, <1>4, <1>6 DEF VictimGone, Known, Named, Reached, Passed, NoPath
<1>12. quiet = p => Remaining(proc[p])'
  <2>1. quiet = p => Remaining(r)
    BY DEF Inv, Quiet
  <2>2. dir[v] # r.victim[2]
    BY <1>1, <1>2, Victim DEF VictimGone, Removing
  <2> QED
    BY <1>1, <1>2, <1>3, <1>4, <1>6, <2>1, <2>2 DEF Remaining, KeepsSource
<1>13. Fresh' /\ DirsLocked'
  BY <1>1, <1>2, <1>3 DEF Inv, Fresh, DirsLocked, DiskTyped, VictimGone
<1>14. Owns(r) => r.cur \in lockfile'
  BY <1>2, <1>3, Owner DEF Owns
<1> QED
  BY <1>1, <1>2, <1>3, <1>4, <1>5, <1>7, <1>8, <1>9, <1>10, <1>11, <1>12, <1>13, <1>14, CollectStep
  DEF Collecting

-----------------------------------------------------------------------------
\* The invariant holds at first,
LEMMA InitInv == SessionInit => Inv
<1> SUFFICES ASSUME SessionInit PROVE Inv
  OBVIOUS
<1>1. /\ \A p \in Procs : proc[p] = Start
      /\ quiet = None /\ next = Published + 1 /\ next \in 1 .. MaxSessions + 1
      /\ DOMAIN proc = Procs
      /\ lockfile = 1 .. Published
  BY SessionAssumption DEF SessionInit
<1>2. \A s \in Sess : /\ ex[s] = None /\ sh[s] = {}
                      /\ dir[s] = IF s <= Published THEN "finalized" ELSE "none"
                      /\ \A f \in Files : /\ file[s][f] = IF s <= Published THEN s ELSE 0
                                          /\ data[f][s] = IF s <= Published THEN s ELSE 0
  BY DEF SessionInit
<1>3. DiskTyped
  BY SessionAssumption DEF SessionInit, DiskTyped, Sess
<1>4. Typed
  BY <1>1, <1>3, StartType DEF Typed
<1>5. ASSUME NEW p \in Procs
      PROVE  ProcInv(p)
  <2>1. Scoped(proc[p]) /\ Apart(proc[p])
    BY <1>1 DEF Scoped, Apart, Start, Collecting, Removing
  <2>2. LocksOf(p)
    BY <1>1, <1>2, SessionAssumption DEF LocksOf, Holds, Shares, Owns, Start, NoPath, Reading, Sess
  <2>3. OwnDir(proc[p]) /\ VictimGone(proc[p]) /\ SourceLocked(proc[p]) /\ Saved(proc[p])
    BY <1>1 DEF OwnDir, Owns, VictimGone, SourceLocked, Saved, Start, Reading
  <2>4. Known(proc[p]) /\ Named(proc[p])
    BY <1>1 DEF Known, Named, Start, NoPath, Sess
  <2> QED
    BY <2>1, <2>2, <2>3, <2>4 DEF ProcInv
<1>6. Fresh /\ DirsLocked
  BY <1>1, <1>2, SessionAssumption DEF Fresh, DirsLocked, Sess
<1>7. NewestComplete
  <2>1. \A s \in Finalized, f \in Files : file[s][f] = s /\ data[f][s] = s /\ s # 0
    BY <1>2 DEF Finalized, Sess
  <2>2. Finalized # {} => Max(Finalized) \in Finalized
    BY MaxSession DEF Finalized
  <2> QED
    BY <2>1, <2>2 DEF NewestComplete, PublishedUnchanged
<1>8. Quiet
  BY <1>1, SessionAssumption DEF Quiet
<1> QED
  BY <1>4, <1>5, <1>6, <1>7, <1>8 DEF Inv

\* and every step of a process keeps it,
LEMMA StepInv ==
  ASSUME Inv, NEW p \in Procs, SessionStep(p) \/ die(p) \/ die_removing(p)
  PROVE  Inv' /\ Frame(p)
BY lock_directory_step, create_dir_step, find_source_directory_step, lock_source_step,
   read_source_step, link_step, discard_step, discard_lock_step, setup_dep_graph_step,
   save_dep_graph_step, save_work_product_index_step, finalize_rename_step,
   finalize_release_step, finish_step, list_step, inspect_step, flock_step,
   all_except_most_recent_step, delete_candidate_step, remove_dir_all_step, drop_lock_step,
   die_step, die_removing_step
DEF SessionStep, collect

\* so that every step does.
LEMMA NextInv == Inv /\ [SessionNext]_SessionVars => Inv'
<1> SUFFICES ASSUME Inv, [SessionNext]_SessionVars PROVE Inv'
  OBVIOUS
<1>1. CASE UNCHANGED SessionVars
  <2> USE <1>1 DEF SessionVars, disk
  <2>1. Finalized' = Finalized /\ Typed'
    BY DEF Finalized, Inv, Typed, DiskTyped
  <2>2. Fresh' /\ DirsLocked' /\ NewestComplete'
    BY <2>1 DEF Inv, Fresh, DirsLocked, NewestComplete, PublishedUnchanged
  <2>3. ASSUME NEW p \in Procs
        PROVE  ProcInv(p)' /\ (quiet = p => Remaining(proc[p]))'
    <3>1. ProcInv(p) /\ (quiet = p => Remaining(proc[p]))
      BY DEF Inv, Quiet
    <3>2. /\ Scoped(proc[p])' /\ Apart(proc[p])' /\ LocksOf(p)' /\ OwnDir(proc[p])'
          /\ VictimGone(proc[p])'
      BY <3>1 DEF ProcInv, LocksOf, OwnDir, VictimGone
    <3>3. SourceLocked(proc[p])' /\ Saved(proc[p])'
      BY <3>1 DEF ProcInv, SourceLocked, Saved, SavedIn
    <3>4. Known(proc[p])' /\ Named(proc[p])'
      BY <2>1, <3>1 DEF ProcInv, Known, Named, Reached, Passed
    <3>5. (quiet = p => Remaining(proc[p]))'
      BY <2>1, <3>1 DEF Remaining
    <3> QED
      BY <3>2, <3>3, <3>4, <3>5 DEF ProcInv
  <2>4. Quiet'
    BY <2>3 DEF Inv, Quiet
  <2> QED
    BY <2>1, <2>2, <2>3, <2>4 DEF Inv
<1> QED
  BY <1>1, StepInv DEF SessionNext

\* It holds always.
LEMMA SpecInv == SessionSpec => []Inv
BY InitInv, NextInv, PTL DEF SessionSpec

-----------------------------------------------------------------------------
\* What the invariant says of one state.
LEMMA InvImplies ==
  ASSUME Inv
  PROVE  SessionTypeOK /\ InUseKept /\ NewestComplete /\ OnlyNewestLeft
<1>1. SessionTypeOK
  BY DEF Inv, Typed, DiskTyped, ProcType, SessionTypeOK
<1>2. ASSUME NEW p \in Procs, Using(p)
      PROVE  /\ dir[proc[p].cur] = "working" /\ proc[p].cur \in lockfile
             /\ ex[proc[p].cur] = p
  <2>1. /\ Owns(proc[p])
        /\ proc[p].pc \notin {"create_dir", "discard_lock", "release"}
    BY <1>2 DEF Using, Owns
  <2> QED
    BY <2>1, Owner
<1>3. SourceKept
  BY DEF Inv, ProcInv, SourceLocked, SourceKept, At
<1>4. OnlyNewestLeft
  <2>1. ASSUME NEW p \in Procs, quiet = p, proc[p].pc = "collected",
               NEW s \in Sess \ {proc[p].cur}, dir[s] # "none"
        PROVE  dir[s] = "finalized" /\ \A t \in Finalized \ {proc[p].cur} : t <= s
    <3>1. Remaining(proc[p])
      BY <2>1 DEF Inv, Quiet
    <3>2. proc[p].cands = {} /\ proc[p].victim = NoPath
      BY <2>1, Actor DEF Scoped, Collecting, Removing
    <3>3. <<s, dir[s]>> # NoPath
      BY DEF NoPath, Sess
    <3> QED
      BY <2>1, <3>1, <3>2, <3>3 DEF Remaining
  <2> QED
    BY <2>1 DEF OnlyNewestLeft, At
<1> QED
  BY <1>1, <1>2, <1>3, <1>4 DEF InUseKept, Inv

\* No step takes the newest published directory away, or leaves an older one
\* in its place.
LEMMA StepSupersedes ==
  ASSUME Inv, [SessionNext]_SessionVars
  PROVE  [Finalized # {} => Finalized' # {} /\ Max(Finalized') >= Max(Finalized)]_dir
<1>1. CASE UNCHANGED SessionVars
  BY <1>1 DEF SessionVars, disk
<1>2. ASSUME NEW p \in Procs, SessionStep(p) \/ die(p) \/ die_removing(p), Finalized # {}
      PROVE  Finalized' # {} /\ Max(Finalized') >= Max(Finalized)
  <2>1. \A t \in Finalized : \E u \in Finalized' : u >= t
    BY <1>2, StepInv DEF Frame
  <2>2. Finalized \subseteq Sess /\ Finalized' \subseteq Sess
    BY DEF Finalized
  <2>3. Max(Finalized) \in Finalized
    BY <1>2, <2>2, MaxSession
  <2>4. PICK u \in Finalized' : u >= Max(Finalized)
    BY <2>1, <2>3
  <2>5. Max(Finalized') \in Finalized' /\ u <= Max(Finalized')
    BY <2>2, <2>4, MaxSession
  <2>6. u \in Nat /\ Max(Finalized) \in Nat /\ Max(Finalized') \in Nat
    <3>1. \A s \in Sess : s \in Nat
      BY DEF Sess
    <3> QED
      BY <2>2, <2>3, <2>4, <2>5, <3>1
  <2> QED
    BY <2>4, <2>5, <2>6
<1> QED
  BY <1>1, <1>2 DEF SessionNext

-----------------------------------------------------------------------------
\* A directory in use is left alone: from its creation until it is published, or
\* given up, a session's directory, its lock file and its exclusive lock stay the
\* owner's, and a directory that is copied from stays with its files, whatever
\* other processes collect and wherever they die.
THEOREM SessionInUseKept == SessionSpec => []InUseKept
BY SpecInv, InvImplies, PTL

\* The files of a published directory are its own and are never changed, and the
\* newest published directory has all of them, also when a process dies while it
\* publishes or deletes (garbage_collect_session_directories keeps the most
\* recent one).
THEOREM SessionNewestComplete == SessionSpec => []NewestComplete
BY SpecInv, InvImplies, PTL

\* A collection that meets no other process, and only old sessions, leaves nothing
\* besides its own directory and the newest published one, whatever crashed
\* processes have left behind.
THEOREM SessionOnlyNewestLeft == SessionSpec => []OnlyNewestLeft
BY SpecInv, InvImplies, PTL

\* No step deletes the newest published directory, only a newer one takes its
\* place: the result of the last compilation is not lost.
THEOREM SessionNewestSuperseded == SessionSpec => NewestSuperseded
<1>1. Inv /\ [SessionNext]_SessionVars
        => [Finalized # {} => Finalized' # {} /\ Max(Finalized') >= Max(Finalized)]_dir
  BY StepSupersedes
<1> QED
  BY <1>1, SpecInv, PTL DEF SessionSpec, NewestSuperseded

=============================================================================

----------------------------- MODULE SessionDirs ----------------------------
(***************************************************************************)
(* The session directories of incremental compilation                      *)
(* (compiler/rustc_incremental/src/persist/fs.rs, load.rs, save.rs): the   *)
(* rustc processes that compile one crate share a directory of session     *)
(* directories and lock files, copy from the newest published session,     *)
(* publish their own one, and collect garbage; each of them may die at any *)
(* step.                                                                   *)
(*                                                                         *)
(* Sessions are numbered in the order of their timestamps.  The path of a  *)
(* session directory is <<s, "working">> or <<s, "finalized">>.  A session *)
(* has one lock file, made by its owner and never made again, so a lock is *)
(* identified with its session, whether or not the path still exists.      *)
(* A file is a hard link to an inode, named by the session that created    *)
(* it; data tells which session's data an inode holds (0: incomplete).     *)
(*                                                                         *)
(* Whether a working directory is old enough to be collected is left open  *)
(* in each inspection.  Fields of a process that are out of scope are      *)
(* reset, to keep the state space small.                                   *)
(***************************************************************************)
EXTENDS Naturals, FiniteSets, FiniteSetsExt

CONSTANTS
  Procs, None,
  Published,      \* sessions 1 .. Published were published earlier
  MaxSessions     \* bound on the sessions that are ever named

ASSUME SessionAssumption ==
  /\ MaxSessions \in Nat
  /\ Published \in 0 .. MaxSessions
  /\ None \notin Procs

Sess  == 1 .. MaxSessions

\* "dep_graph" stands for the dep graph and the query cache, which are saved
\* together; "work_products" for the index of the work products.
Files == {"dep_graph", "work_products"}
NoFiles == [f \in Files |-> 0]

VARIABLES
  dir,       \* the name a session's directory has: "none" if there is none
  lockfile,  \* the lock files in the crate directory
  ex, sh,    \* who holds each lock exclusively, and shared
  file,      \* the inodes that the directory's files are links to
  data,      \* what each inode holds
  next,      \* the next timestamp
  proc,      \* the processes, see Start
  quiet      \* ghost: the process whose collection meets no other process

disk == <<dir, lockfile, ex, sh, file, data>>
SessionVars == <<disk, next, proc, quiet>>

\* A process: its step, session, sources tried, source and the names read in
\* it; whether it has published; and its garbage collection: the directories to
\* inspect, the one whose lock file is open, the candidates whose locks it
\* holds, the path to delete and where to go on after that.
NoPath == <<0, "none">>

Start == [pc |-> "prepare", cur |-> 0, tried |-> {}, src |-> 0, names |-> {},
          final |-> FALSE, todo |-> {}, opened |-> NoPath,
          cands |-> {}, victim |-> NoPath, back |-> "none"]

SessionInit ==
  /\ dir = [s \in Sess |-> IF s <= Published THEN "finalized" ELSE "none"]
  /\ lockfile = 1 .. Published
  /\ ex = [s \in Sess |-> None]
  /\ sh = [s \in Sess |-> {}]
  /\ file = [s \in Sess |-> [f \in Files |-> IF s <= Published THEN s ELSE 0]]
  /\ data = [f \in Files |-> [s \in Sess |-> IF s <= Published THEN s ELSE 0]]
  /\ next = Published + 1
  /\ proc = [p \in Procs |-> Start]
  /\ quiet = None

Live(p) == proc[p] # Start
At(p, pc) == proc[p].pc = pc

\* The fields that r has change.
Become(p, r) ==
  proc' = [proc EXCEPT ![p] =
             [x \in DOMAIN proc[p] |-> IF x \in DOMAIN r THEN r[x] ELSE proc[p][x]]]

Goto(p, from, to) == At(p, from) /\ Become(p, [pc |-> to])

\* The system drops the locks of a process that ends, and a new one may start.
dead(p) ==
  /\ proc' = [proc EXCEPT ![p] = Start]
  /\ ex' = [s \in Sess |-> IF ex[s] = p THEN None ELSE ex[s]]
  /\ sh' = [s \in Sess |-> sh[s] \ {p}]
  /\ quiet' = IF quiet = p THEN None ELSE quiet

-----------------------------------------------------------------------------
\* prepare_session_directory: name a session and lock it.  Nobody else opens a
\* lock file that has no directory, so creating and locking it is one step.
lock_directory(p) ==
  /\ At(p, "prepare")
  /\ next <= MaxSessions
  /\ next' = next + 1
  /\ lockfile' = lockfile \cup {next}
  /\ ex' = [ex EXCEPT ![next] = p]
  /\ Become(p, [pc |-> "create_dir", cur |-> next])
  /\ quiet' = None
  /\ UNCHANGED <<dir, sh, file, data>>

create_dir(p) ==
  /\ Goto(p, "create_dir", "find_source")
  /\ dir' = [dir EXCEPT ![proc[p].cur] = "working"]
  /\ UNCHANGED <<lockfile, ex, sh, file, data, next, quiet>>

\* find_source_directory: the newest published session not tried yet.
find_source_directory(p) ==
  LET found == {s \in Sess : dir[s] = "finalized"} \ proc[p].tried IN
  /\ At(p, "find_source")
  /\ Become(p, IF found = {} THEN [pc |-> "list", tried |-> {}]
                             ELSE [pc |-> "lock_source", src |-> Max(found)])
  /\ UNCHANGED <<disk, next, quiet>>

\* copy_files: take a shared lock, without waiting.  (Had the lock file been
\* deleted between its opening and flock, the directory would be gone, and
\* copying would fail one step later.)
lock_source(p) ==
  LET s == proc[p].src IN
  /\ At(p, "lock_source")
  /\ \/ /\ s \in lockfile /\ ex[s] = None
        /\ sh' = [sh EXCEPT ![s] = @ \cup {p}]
        /\ Become(p, [pc |-> "read_source"])
     \/ /\ s \notin lockfile \/ ex[s] # None
        /\ UNCHANGED sh
        /\ Become(p, [pc |-> "discard"])
  /\ UNCHANGED <<dir, lockfile, ex, file, data, next, quiet>>

\* copy_files: read the directory, if it is still there.
read_source(p) ==
  LET s == proc[p].src IN
  /\ At(p, "read_source")
  /\ \/ /\ dir[s] = "finalized"
        /\ Become(p, [pc |-> "link", names |-> {f \in Files : file[s][f] # 0}])
        /\ UNCHANGED sh
     \/ /\ dir[s] # "finalized"
        /\ Become(p, [pc |-> "discard"])
        /\ sh' = [sh EXCEPT ![s] = @ \ {p}]
  /\ UNCHANGED <<dir, lockfile, ex, file, data, next, quiet>>

\* copy_files: link_or_copy every name; a file that is gone makes it fail.
link(p) ==
  LET s == proc[p].src
      names == proc[p].names IN
  /\ At(p, "link")
  /\ sh' = [sh EXCEPT ![s] = @ \ {p}]
  /\ IF \A f \in names : file[s][f] # 0
     THEN /\ file' = [file EXCEPT ![proc[p].cur] =
                        [f \in Files |-> IF f \in names THEN file[s][f] ELSE 0]]
          /\ Become(p, [pc |-> "list", src |-> 0, names |-> {}, tried |-> {}])
     ELSE /\ Become(p, [pc |-> "discard"])
          /\ UNCHANGED file
  /\ UNCHANGED <<dir, lockfile, ex, data, next, quiet>>

\* Copying failed: remove the session directory,
discard(p) ==
  /\ Goto(p, "discard", "discard_lock")
  /\ dir' = [dir EXCEPT ![proc[p].cur] = "none"]
  /\ file' = [file EXCEPT ![proc[p].cur] = NoFiles]
  /\ UNCHANGED <<lockfile, ex, sh, data, next, quiet>>

\* delete the lock file, unlock it, and try another source in a new session.
discard_lock(p) ==
  /\ At(p, "discard_lock")
  /\ Become(p, [pc |-> "prepare", tried |-> proc[p].tried \cup {proc[p].src},
                src |-> 0, names |-> {}])
  /\ lockfile' = lockfile \ {proc[p].cur}
  /\ ex' = [ex EXCEPT ![proc[p].cur] = None]
  /\ UNCHANGED <<dir, sh, file, data, next, quiet>>

-----------------------------------------------------------------------------
\* setup_dep_graph, after the collection: data that is out of date (there is no
\* dep graph, or it is one of another compiler or of other arguments) is
\* deleted, and the file for the new dep graph created.
setup_dep_graph(p) ==
  LET s == proc[p].cur IN
  /\ ~proc[p].final
  /\ Goto(p, "collected", "compile")
  /\ \/ file' = [file EXCEPT ![s] = NoFiles]
     \/ file[s]["dep_graph"] # 0 /\ UNCHANGED file
  /\ UNCHANGED <<dir, lockfile, ex, sh, data, next, quiet>>

save_in_place(s, F) ==
  LET i(f) == IF file[s][f] = 0 THEN s ELSE file[s][f] IN
  /\ file' = [file EXCEPT ![s] = [f \in Files |-> IF f \in F THEN i(f) ELSE @[f]]]
  /\ data' = [f \in Files |-> IF f \in F THEN [data[f] EXCEPT ![i(f)] = s] ELSE data[f]]

\* save_in unlinks the old file, which may be shared, and writes a new one.  The
\* dep graph, streamed to a file of its own, replaces the old one by a rename,
\* with the same effect.
save_in(s, F) ==
  /\ file' = [file EXCEPT ![s] = [f \in Files |-> IF f \in F THEN s ELSE @[f]]]
  /\ data' = [f \in Files |-> IF f \in F THEN [data[f] EXCEPT ![s] = s] ELSE data[f]]

\* save_dep_graph: the dep graph and the query cache are saved, in parallel; of
\* a process that dies in between a working directory is left, which nobody
\* reads.
save_dep_graph(p) ==
  /\ Goto(p, "compile", "save_index")
  /\ save_in(proc[p].cur, {"dep_graph"})
  /\ UNCHANGED <<dir, lockfile, ex, sh, next, quiet>>

save_work_product_index(p) ==
  /\ Goto(p, "save_index", "finalize")
  /\ save_in(proc[p].cur, {"work_products"})
  /\ UNCHANGED <<dir, lockfile, ex, sh, next, quiet>>

\* finalize_session_directory: the rename publishes the directory; if it fails
\* that is only noted.
finalize_rename(p) ==
  /\ Goto(p, "finalize", "release")
  /\ dir' \in {dir, [dir EXCEPT ![proc[p].cur] = "finalized"]}
  /\ UNCHANGED <<lockfile, ex, sh, file, data, next, quiet>>

\* The lock is released, and garbage is collected once more.
finalize_release(p) ==
  /\ At(p, "release")
  /\ Become(p, [pc |-> "list", final |-> TRUE])
  /\ ex' = [ex EXCEPT ![proc[p].cur] = None]
  /\ UNCHANGED <<dir, lockfile, sh, file, data, next, quiet>>

\* rustc ends after the second collection.
finish(p) ==
  /\ proc[p].final
  /\ At(p, "collected")
  /\ proc' = [proc EXCEPT ![p] = Start]
  /\ UNCHANGED <<disk, next, quiet>>

-----------------------------------------------------------------------------
\* garbage_collect_session_directories.
own_not_skipped(p) == NoPath

\* Its own directory is skipped, by the name it should have now.
Own(p) == <<proc[p].cur, IF proc[p].final THEN "finalized" ELSE "working">>

\* The name of a lock file is not the name of a session directory, so no
\* timestamp is ever found in it.
extract_timestamp_ok(kind) == kind \in {"working", "finalized"}

\* The listing of the crate directory, read in one step.  Lock files without a
\* directory are deleted if a timestamp is found in their names (and is old, as
\* is assumed here); directories without a lock file are deleted; the others
\* are inspected, but for its own.
list(p) ==
  LET locked == {s \in lockfile : dir[s] # "none"} IN
  /\ At(p, "list")
  /\ lockfile' = IF extract_timestamp_ok("lock") THEN locked ELSE lockfile
  /\ dir' = [s \in Sess |-> IF s \in locked THEN dir[s] ELSE "none"]
  /\ file' = [s \in Sess |-> IF s \in locked THEN file[s] ELSE NoFiles]
  /\ Become(p, [pc |-> "inspect", todo |-> {<<s, dir[s]>> : s \in locked} \ {Own(p)}])
  /\ quiet' = IF \A q \in Procs \ {p} : ~Live(q) THEN p ELSE None
  /\ UNCHANGED <<ex, sh, data, next>>

\* The next pair: a published session is locked, and so is a working one that
\* is old enough.
inspect(p) ==
  /\ At(p, "inspect")
  /\ \E d \in proc[p].todo, is_old \in BOOLEAN :
       /\ d[2] = "finalized" => is_old
       /\ Become(p, IF is_old /\ d[1] \in lockfile
                    THEN [pc |-> "flock", opened |-> d, todo |-> proc[p].todo \ {d}]
                    ELSE [todo |-> proc[p].todo \ {d}])
       /\ quiet' = IF quiet = p /\ ~is_old THEN None ELSE quiet
  /\ UNCHANGED <<disk, next>>

\* The lock file was opened; now it is locked.  A published session becomes a
\* candidate, a working one is deleted.  A lock of the same process is noticed
\* by flock and not by fcntl.
flock(p) ==
  LET s == proc[p].opened[1] IN
  /\ At(p, "flock")
  /\ \/ /\ ex[s] \in {None, p} /\ sh[s] = {}
        /\ ex' = [ex EXCEPT ![s] = p]
        /\ Become(p, IF proc[p].opened[2] = "finalized"
                     THEN [pc |-> "inspect", opened |-> NoPath,
                           cands |-> proc[p].cands \cup {s}]
                     ELSE [pc |-> "rm", opened |-> NoPath,
                           victim |-> proc[p].opened, back |-> "inspect"])
     \/ /\ ex[s] # None \/ sh[s] # {}
        /\ Become(p, [pc |-> "inspect", opened |-> NoPath])
        /\ UNCHANGED ex
  /\ UNCHANGED <<dir, lockfile, sh, file, data, next, quiet>>

all_candidates(p) ==
  /\ At(p, "inspect")
  /\ proc[p].todo = {}
  /\ Become(p, [pc |-> "delete"])
  /\ UNCHANGED <<disk, next, quiet>>

\* The most recent candidate is kept, and its lock dropped.
all_except_most_recent(p) ==
  LET keep == IF proc[p].cands = {} THEN {} ELSE {Max(proc[p].cands)} IN
  /\ At(p, "inspect")
  /\ proc[p].todo = {}
  /\ Become(p, [pc |-> "delete", cands |-> proc[p].cands \ keep])
  /\ ex' = [s \in Sess |-> IF s \in keep THEN None ELSE ex[s]]
  /\ UNCHANGED <<dir, lockfile, sh, file, data, next, quiet>>

delete_first_candidate(p) ==
  /\ At(p, "delete")
  /\ IF proc[p].cands = {}
     THEN Become(p, [pc |-> "collected"])
     ELSE \E s \in proc[p].cands :
            Become(p, [pc |-> "rm", victim |-> <<s, "finalized">>, back |-> "collected",
                       cands |-> {}])
  /\ UNCHANGED <<disk, next, quiet>>

\* Every candidate that is left is deleted.
delete_candidate(p) ==
  /\ At(p, "delete")
  /\ IF proc[p].cands = {}
     THEN Become(p, [pc |-> "collected"])
     ELSE \E s \in proc[p].cands :
            Become(p, [pc |-> "rm", victim |-> <<s, "finalized">>, back |-> "delete",
                       cands |-> proc[p].cands \ {s}])
  /\ UNCHANGED <<disk, next, quiet>>

\* remove_dir_all; a path that does not exist is an error.  It is locked, or
\* cannot be, so that nobody sees the files go one by one.
remove_dir_all(p) ==
  LET d == proc[p].victim IN
  /\ At(p, "rm")
  /\ \/ /\ dir[d[1]] = d[2]
        /\ dir' = [dir EXCEPT ![d[1]] = "none"]
        /\ file' = [file EXCEPT ![d[1]] = NoFiles]
        /\ Become(p, [pc |-> "unlink"])
     \/ /\ dir[d[1]] # d[2]
        /\ Become(p, [pc |-> "drop"])
        /\ UNCHANGED <<dir, file>>
  /\ UNCHANGED <<lockfile, ex, sh, data, next, quiet>>

\* But the process may die when only files are gone (which ones matters only in
\* a published directory).
die_removing(p) ==
  LET d == proc[p].victim IN
  /\ At(p, "rm")
  /\ d[2] = "finalized" /\ dir[d[1]] = d[2]
  /\ \E gone \in SUBSET Files :
       file' = [file EXCEPT ![d[1]] = [f \in Files |-> IF f \in gone THEN 0 ELSE @[f]]]
  /\ dead(p)
  /\ UNCHANGED <<dir, lockfile, data, next>>

\* The lock file is deleted if its directory was, and the lock is dropped.
drop_lock(p) ==
  LET s == proc[p].victim[1] IN
  /\ proc[p].pc \in {"unlink", "drop"}
  /\ lockfile' = IF At(p, "unlink") THEN lockfile \ {s} ELSE lockfile
  /\ ex' = [ex EXCEPT ![s] = None]
  /\ Become(p, [pc |-> proc[p].back, victim |-> NoPath, back |-> "none"])
  /\ UNCHANGED <<dir, sh, file, data, next, quiet>>

\* A process dies, or ends because of an error.
die(p) ==
  /\ Live(p)
  /\ dead(p)
  /\ UNCHANGED <<dir, lockfile, file, data, next>>

collect(p) ==
  \/ list(p) \/ inspect(p) \/ flock(p) \/ all_except_most_recent(p)
  \/ delete_candidate(p) \/ remove_dir_all(p) \/ drop_lock(p)

SessionStep(p) ==
  \/ lock_directory(p) \/ create_dir(p) \/ find_source_directory(p)
  \/ lock_source(p) \/ read_source(p) \/ link(p)
  \/ discard(p) \/ discard_lock(p) \/ setup_dep_graph(p)
  \/ save_dep_graph(p) \/ save_work_product_index(p)
  \/ finalize_rename(p) \/ finalize_release(p) \/ finish(p) \/ collect(p)

SessionNext == \E p \in Procs : SessionStep(p) \/ die(p) \/ die_removing(p)

SessionSpec == SessionInit /\ [][SessionNext]_SessionVars

-----------------------------------------------------------------------------
SessPcs == {"prepare", "create_dir", "find_source", "lock_source",
            "read_source", "link", "discard", "discard_lock", "list",
            "inspect", "flock", "delete", "rm",
            "unlink", "drop", "collected", "compile", "save_index",
            "finalize", "release"}

\* Typing; a lock is held exclusively or shared but not both.
SessionTypeOK ==
  /\ dir \in [Sess -> {"none", "working", "finalized"}]
  /\ lockfile \subseteq Sess
  /\ ex \in [Sess -> Procs \cup {None}]
  /\ sh \in [Sess -> SUBSET Procs]
  /\ file \in [Sess -> [Files -> 0 .. MaxSessions]]
  /\ data \in [Files -> [Sess -> 0 .. MaxSessions]]
  /\ \A p \in Procs : proc[p].pc \in SessPcs
  /\ \A s \in Sess : ex[s] # None => sh[s] = {}

\* The steps of a process between the creation of its directory and the rename
\* that publishes it.
Using(p) ==
  ~proc[p].final /\ proc[p].pc \notin
    {"prepare", "create_dir", "discard", "discard_lock", "release"}

\* A directory that is copied from stays: while a process reads one under the
\* shared lock, no collection deletes it or a file of it.
SourceKept ==
  \A p \in Procs : At(p, "link") =>
    /\ dir[proc[p].src] = "finalized"
    /\ \A f \in proc[p].names : file[proc[p].src][f] # 0

\* A directory in use is left alone: as long as the process that made it is
\* alive and has not published it, no collection of another process deletes
\* the directory or its lock file, or takes the lock; nor does one delete a
\* directory that a process copies from.
InUseKept ==
  /\ SessionTypeOK
  /\ \A p \in Procs : Using(p) =>
       /\ dir[proc[p].cur] = "working"
       /\ proc[p].cur \in lockfile
       /\ ex[proc[p].cur] = p
  /\ SourceKept

Finalized == {s \in Sess : dir[s] = "finalized"}

\* What is published is never changed: the files of a published directory are
\* its own session's, complete, although others hold hard links to them.
PublishedUnchanged ==
  \A s \in Finalized, f \in Files : file[s][f] # 0 => file[s][f] = s /\ data[f][s] = s

\* The newest published directory is complete: no process that dies while it
\* publishes or collects, and no two collections that disagree about which
\* one is the newest, leave it without one of its files; and whoever links to
\* them later changes none.
NewestComplete ==
  /\ PublishedUnchanged
  /\ Finalized # {} => \A f \in Files : file[Max(Finalized)][f] # 0

\* The newest published directory is never deleted, only superseded.
NewestSuperseded ==
  [][Finalized # {} => Finalized' # {} /\ Max(Finalized') >= Max(Finalized)]_dir

\* A collection that meets no other process and only old sessions leaves
\* nothing but the newest published directory besides its own one, whatever
\* crashed processes have left behind.
OnlyNewestLeft ==
  \A p \in Procs : quiet = p /\ At(p, "collected") =>
    \A s \in Sess \ {proc[p].cur} :
      dir[s] # "none" => /\ dir[s] = "finalized"
                         /\ \A t \in Finalized \ {proc[p].cur} : t <= s

\* "Delete all lock files, that don't have an associated directory."
NoStrayLockFiles ==
  \A p \in Procs : quiet = p /\ At(p, "collected") =>
    \A s \in lockfile : dir[s] # "none"
=============================================================================

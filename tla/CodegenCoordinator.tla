------------------------- MODULE CodegenCoordinator -------------------------
(***************************************************************************)
(* The code generation back end of rustc                                   *)
(* (compiler/rustc_codegen_ssa/src/back/write.rs and base.rs): the main    *)
(* thread turns codegen units (CGUs) into modules, the coordinator thread  *)
(* runs a message loop that hands them to LLVM worker threads, and a       *)
(* helper thread fetches jobserver tokens.                                 *)
(*                                                                         *)
(* The threads share nothing but channels: the coordinator's inbox, the    *)
(* channel of CguMessages to the main thread, and the shared emitter,      *)
(* which carries errors to the main thread.  A module is its CGU's index.  *)
(***************************************************************************)
EXTENDS Naturals, Sequences, FiniteSets, FiniteSetsExt

\* The sessions to consider: records with the fields
\*   lto       "No", "Fat" or "ThinLocal"
\*   cgus      the reuse of each CGU: "No", "PreLto" or "PostLto"
\*   parallel  the limit --jobs-backend, 0 for None
\*   available the number of tokens in the jobserver
\*   faults    whether compiling, workers and the jobserver may fail
CONSTANT Configs

\* determine_cgu_reuse reuses bitcode when some LTO follows, objects otherwise.
ASSUME ConfigsAssumption ==
  \A c \in Configs :
    /\ c.lto \in {"No", "Fat", "ThinLocal"}
    /\ c.parallel \in Nat /\ c.available \in Nat /\ c.faults \in BOOLEAN
    /\ c.cgus \in Seq(IF c.lto = "No" THEN {"No", "PostLto"} ELSE {"No", "PreLto"})

VARIABLES
  config,
  \* the main thread
  main,               \* where it is in codegen_crate and OngoingCodegen
  next,               \* the CGU it is at; one more than there are: CodegenComplete
  errors,             \* it has emitted an error
  \* channels
  inbox,              \* coordinator_receive
  cgu_messages,       \* CguMessages under way to the main thread
  diagnostics,        \* errors in the shared emitter's channel
  \* the coordinator thread
  coordinator,        \* "top" of the loop, "recv", the same of do_thin_lto, "ended"
  codegen_state, main_thread_state,
  work_items,         \* modules to process (their order by cost is left open)
  tokens,             \* number of tokens held, without the implicit one
  running_with_own_token,
  compiled,           \* modules that are done
  needs_lto,          \* needs_fat_lto or needs_thin_lto
  import_only,        \* lto_import_only_modules
  result,             \* how the thread ended
  \* the rest of the process, and the jobserver
  working,            \* modules that a worker thread is processing
  failing,            \* modules whose worker has a fatal error to report
  pending,            \* token requests the helper thread has not served
  stranded,           \* tokens left in the channel that do_thin_lto does not read
  pool                \* tokens in the jobserver

mainVars  == <<main, next, errors>>
loopVars  == <<codegen_state, main_thread_state, work_items, tokens,
               running_with_own_token>>
outVars   == <<compiled, needs_lto, import_only>>
vars == <<config, mainVars, inbox, cgu_messages, diagnostics, coordinator,
          loopVars, outVars, result, working, failing, pending, pool, stranded>>

CGUs == 1..Len(config.cgus)

Final == {"done", "failed", "bug", "unexpected"}

Init ==
  /\ config \in Configs
  /\ main = "wait" /\ next = 1 /\ errors = FALSE
  /\ inbox = <<>> /\ cgu_messages = 0 /\ diagnostics = 0
  /\ coordinator = "top"
  /\ codegen_state = "Ongoing" /\ main_thread_state = "Idle"
  /\ work_items = {} /\ tokens = 0 /\ running_with_own_token = 0
  /\ compiled = {} /\ needs_lto = {} /\ import_only = {}
  /\ result = "none"
  /\ working = {} /\ failing = {}
  /\ pending = 0 /\ pool = config.available /\ stranded = 0

-----------------------------------------------------------------------------
(* Channels.  A message to a coordinator that has ended is dropped, and     *)
(* what the main thread sends is not read any more once do_thin_lto, with a *)
(* channel of its own, has begun.                                          *)

Ended == coordinator = "ended"
Send(m) == inbox' = IF Ended THEN inbox ELSE Append(inbox, m)
SendFromMain(m) == inbox' = IF coordinator \in {"top", "recv"} THEN Append(inbox, m) ELSE inbox

IsToken(m) == m.type = "Token" /\ m.ok
TokensIn(q) == Cardinality({i \in DOMAIN q : IsToken(q[i])})

-----------------------------------------------------------------------------
(* The main thread: the loop of codegen_crate, codegen_finished and join.  *)

\* wait_for_signal_to_codegen_item: goes on also when the channel is closed.
wait_for_signal_to_codegen_item ==
  /\ main = "wait"
  /\ \/ cgu_messages > 0 /\ cgu_messages' = cgu_messages - 1
     \/ cgu_messages = 0 /\ Ended /\ UNCHANGED cgu_messages
  /\ main' = "check"
  /\ UNCHANGED <<config, next, errors, inbox, diagnostics, coordinator, loopVars,
                 outVars, result, working, failing, pending, pool, stranded>>

\* The main thread unwinds with an error: OngoingCodegen is dropped.
Unwind == main' = "drop" /\ errors' = TRUE

\* SharedEmitterMain::check.  An error found in the channel aborts; otherwise
\* the check ends, when it blocks only once every sender is dropped: the
\* coordinator's, and the one of every worker.
check ==
  /\ \/ /\ main \in {"check", "last_check", "join_check"}
        /\ diagnostics > 0
        /\ diagnostics' = diagnostics - 1
        /\ Unwind
     \/ /\ diagnostics = 0
        /\ \/ main = "check" /\ main' = "codegen"
           \/ main = "last_check" /\ main' = "join_check"
           \/ main = "join_check" /\ Ended /\ working = {} /\ main' = "join"
        /\ UNCHANGED <<diagnostics, errors>>
  /\ UNCHANGED <<config, next, inbox, cgu_messages, coordinator, loopVars,
                 outVars, result, working, failing, pending, pool, stranded>>

Submission(i) ==
  IF config.cgus[i] = "PreLto" THEN [type |-> "AddImportOnlyModule", cgu |-> i]
                               ELSE [type |-> "CodegenDone", cgu |-> i]

codegen_unit_skipped ==
  /\ main = "codegen" /\ next \in CGUs
  /\ \/ SendFromMain(Submission(next)) /\ UNCHANGED errors
     \/ config.cgus[next] = "No" /\ errors' = TRUE /\ UNCHANGED inbox
  /\ main' = "wait" /\ next' = next + 1
  /\ UNCHANGED <<config, cgu_messages, diagnostics, coordinator, loopVars,
                 outVars, result, working, failing, pending, pool, stranded>>

\* One turn of the loop over the codegen units: compiling one may report
\* errors, then abort_if_errors unwinds; reusing one does not.
codegen_unit ==
  /\ main = "codegen" /\ next \in CGUs
  /\ \/ /\ SendFromMain(Submission(next))
        /\ main' = "wait" /\ next' = next + 1
        /\ UNCHANGED errors
     \/ /\ config.faults /\ config.cgus[next] = "No"
        /\ Unwind
        /\ UNCHANGED <<next, inbox>>
  /\ UNCHANGED <<config, cgu_messages, diagnostics, coordinator, loopVars,
                 outVars, result, working, failing, pending, pool, stranded>>

codegen_finished ==
  /\ main = "codegen" /\ next \notin CGUs
  /\ SendFromMain([type |-> "CodegenComplete"])
  /\ main' = "last_check"
  /\ UNCHANGED <<config, next, errors, cgu_messages, diagnostics, coordinator,
                 loopVars, outVars, result, working, failing, pending, pool, stranded>>

\* OngoingCodegen::join, once the coordinator thread has been joined.
join ==
  /\ main = "join" /\ Ended
  /\ main' = CASE result = "Ok"  -> IF errors THEN "failed" ELSE "done"
               [] result = "Err" -> IF errors THEN "failed" ELSE "unexpected"
               [] OTHER          -> "bug"
  /\ UNCHANGED <<config, next, errors, inbox, cgu_messages, diagnostics,
                 coordinator, loopVars, outVars, result, working, failing,
                 pending, pool, stranded>>

\* Coordinator::drop sends CodegenAborted and joins the thread, before the
\* receiver of the CguMessages is dropped.
drop ==
  /\ \/ main = "drop" /\ main' = "dropping" /\ SendFromMain([type |-> "CodegenAborted"])
     \/ main = "dropping" /\ Ended /\ main' = "failed" /\ UNCHANGED inbox
  /\ UNCHANGED <<config, next, errors, cgu_messages, diagnostics, coordinator,
                 loopVars, outVars, result, working, failing, pending, pool, stranded>>

MainThread ==
  \/ wait_for_signal_to_codegen_item \/ check \/ codegen_unit
  \/ codegen_finished \/ join \/ drop

-----------------------------------------------------------------------------
(* The coordinator thread: start_executing_work's loop.  What it does       *)
(* between two receives is one step, since nobody sees its variables.       *)

running_with_any_token(state, own) == own + (IF state = "Lending" THEN 1 ELSE 0)

Running == running_with_any_token(main_thread_state, running_with_own_token)

\* The tokens in the inbox go back when its receiver is dropped, those the
\* coordinator holds with them; the helper thread is shut down.
EndWith(r) ==
  /\ coordinator' = "ended" /\ result' = r
  /\ pool' = pool + tokens + TokensIn(inbox) + stranded
  /\ tokens' = 0 /\ inbox' = <<>> /\ pending' = 0 /\ stranded' = 0
  /\ UNCHANGED <<config, mainVars, cgu_messages, diagnostics, codegen_state,
                 main_thread_state, work_items, running_with_own_token, outVars,
                 working, failing>>

queue_full_enough(items_in_queue, workers_running) ==
  /\ items_in_queue > 0
  /\ items_in_queue >= workers_running - (3 * workers_running) \div 4

QueueFull ==
  LET extra_tokens == tokens - running_with_own_token
      items        == Cardinality(work_items)
  IN queue_full_enough(items,
       running_with_own_token + Min({extra_tokens, items}) + 1)

free_tokens_inclusive(own) ==
  IF codegen_state = "Aborted" \/ tokens < own THEN 0 ELSE tokens - own + 1

\* How many items may be spawned, `own` workers having a token; none after an
\* abort.
free_tokens(own) ==
  IF codegen_state = "Aborted" \/ tokens < own THEN 0 ELSE tokens - own

keep_all(own) == tokens

\* tokens.truncate(own): the others go back to the jobserver.
truncate(own) == Min({tokens, own})

\* The second half of a turn: main_thread_state has become `state`, the items
\* `lent` work on the implicit token and `own` workers on theirs.  Spawn what
\* there are tokens for, then truncate the tokens to the workers.
Spawn(state, lent, own) ==
  LET left == work_items \ lent
  IN /\ \E new \in kSubset(Min({free_tokens(own), Cardinality(left)}), left) :
          /\ work_items' = left \ new
          /\ working' = working \cup lent \cup new
          /\ running_with_own_token' = own + Cardinality(new)
     /\ tokens' = truncate(running_with_own_token')
     /\ pool' = pool + tokens - tokens'
     /\ main_thread_state' = state
     /\ coordinator' = "recv"

\* No items wait and every worker has its own token: the main thread's token
\* takes over for one of them.
take_over ==
  /\ codegen_state = "Completed" /\ main_thread_state = "Idle"
  /\ work_items = {} /\ running_with_own_token > 0
  /\ Spawn("Lending", {}, running_with_own_token - 1)
  /\ UNCHANGED cgu_messages

\* The implicit token runs a worker.
lend ==
  /\ main_thread_state = "Idle" /\ work_items # {}
  /\ codegen_state = "Completed" \/ (codegen_state = "Ongoing" /\ QueueFull)
  /\ \E item \in work_items : Spawn("Lending", {item}, running_with_own_token)
  /\ UNCHANGED cgu_messages

ask_main_thread ==
  /\ codegen_state = "Ongoing" /\ main_thread_state = "Idle" /\ ~QueueFull
  /\ cgu_messages' = cgu_messages + 1
  /\ Spawn("Codegenning", {}, running_with_own_token)

go_on ==
  /\ codegen_state = "Aborted" \/ main_thread_state # "Idle"
  /\ Spawn(main_thread_state, {}, running_with_own_token)
  /\ UNCHANGED cgu_messages

\* The conditions to leave the loop.
loop_done ==
  /\ codegen_state \in {"Completed", "Aborted"}
  /\ Running = 0
  /\ codegen_state = "Completed" => work_items = {}

thin_lto_new_only == needs_lto

\* The modules for do_thin_lto: those just optimised and those to import.
thin_lto_modules == needs_lto \cup import_only

\* shared_emitter.fatal
fatal == diagnostics + 1

\* The items of ThinLocal LTO: one token is requested for each, up to the limit.
\* On a fatal error the thread emits it and unwinds, as after an abort (thin_top).
generate_thin_lto_work ==
  \/ /\ work_items' = thin_lto_modules
     /\ pending' = Min({config.parallel, Cardinality(work_items')})
     /\ UNCHANGED <<diagnostics, codegen_state>>
  \/ /\ config.faults
     /\ diagnostics' = fatal /\ codegen_state' = "Aborted"
     /\ work_items' = {} /\ pending' = 0

\* After the loop.  ThinLocal LTO is done by this thread, with a helper
\* and a channel of its own (the old receiver stays until the thread ends, and
\* so do tokens that are still in it).  Otherwise the results are returned.
after_loop ==
  IF codegen_state = "Completed" /\ config.lto = "ThinLocal" /\ thin_lto_modules # {}
  THEN /\ coordinator' = "thin_top"
       /\ generate_thin_lto_work
       /\ needs_lto' = {} /\ import_only' = {}
       /\ pool' = pool + tokens /\ tokens' = 0
       /\ stranded' = TokensIn(inbox) /\ inbox' = <<>>
       /\ UNCHANGED <<config, mainVars, cgu_messages, main_thread_state,
                      running_with_own_token, compiled, result, working, failing>>
  ELSE EndWith(IF codegen_state = "Aborted" THEN "Err" ELSE "Ok")

\* The assertions at the top of the loop: tokens.len() is not less than
\* running_with_own_token, the receiver of the CguMessage is alive, and the
\* main thread does not generate code when that is completed.
AssertionFails ==
  \/ /\ codegen_state = "Ongoing" /\ main_thread_state = "Idle"
     /\ tokens < running_with_own_token \/ (~QueueFull /\ main = "failed")
  \/ codegen_state = "Completed" /\ main_thread_state = "Codegenning"

\* The top of the loop.
loop_top ==
  /\ coordinator = "top"
  /\ \/ loop_done /\ after_loop
     \/ ~loop_done /\ AssertionFails /\ EndWith("assertion")
     \/ /\ ~loop_done /\ ~AssertionFails
        /\ take_over \/ lend \/ ask_main_thread \/ go_on
        /\ UNCHANGED <<config, mainVars, inbox, diagnostics, codegen_state,
                       outVars, result, failing, pending, stranded>>

\* The main thread is free again if it was lending, not if it generates code.
after_lending == IF main_thread_state = "Lending" THEN "Idle" ELSE main_thread_state

\* A token turns the worker that the main thread's token runs into a regular
\* one.
own_after_token == Running

receive_token(m) ==
  /\ m.type = "Token"
  /\ IF m.ok
     THEN /\ tokens' = tokens + 1
          /\ main_thread_state' = after_lending
          /\ running_with_own_token' = own_after_token
          /\ UNCHANGED <<codegen_state, diagnostics>>
     ELSE /\ diagnostics' = fatal
          /\ codegen_state' = "Aborted"
          /\ UNCHANGED <<tokens, main_thread_state, running_with_own_token>>
  /\ UNCHANGED <<work_items, outVars, pending>>

receive_codegen_done(m) ==
  /\ m.type = "CodegenDone"
  /\ work_items' = work_items \cup {m.cgu}
  /\ pending' = IF Running < config.parallel THEN pending + 1 ELSE pending
  /\ main_thread_state' = "Idle"
  /\ UNCHANGED <<diagnostics, codegen_state, tokens, running_with_own_token, outVars>>

completed_always == "Completed"

\* CodegenComplete does not undo an abort.
completed == IF codegen_state = "Aborted" THEN "Aborted" ELSE "Completed"

receive_codegen_complete(m) ==
  /\ m.type = "CodegenComplete"
  /\ codegen_state' = completed
  /\ main_thread_state' = "Idle"
  /\ UNCHANGED <<diagnostics, tokens, running_with_own_token, work_items, outVars, pending>>

receive_codegen_aborted(m) ==
  /\ m.type = "CodegenAborted"
  /\ codegen_state' = "Aborted"
  /\ UNCHANGED <<diagnostics, main_thread_state, tokens, running_with_own_token,
                 work_items, outVars, pending>>

\* Where execute_optimize_work_item sends its module: compute_per_cgu_lto_type.
NeedsLto(cgu) == config.lto # "No" /\ config.cgus[cgu] = "No"

\* A worker is done: the implicit token is freed first, so that the worker's
\* own token serves the one that the main thread was lending to.
receive_work_item(m) ==
  /\ m.type = "WorkItem" /\ m.res # "panic"
  /\ IF main_thread_state = "Lending"
     THEN main_thread_state' = "Idle" /\ UNCHANGED running_with_own_token
     ELSE /\ running_with_own_token' = running_with_own_token - 1
          /\ UNCHANGED main_thread_state
  /\ codegen_state' = IF m.res = "fatal" THEN "Aborted" ELSE codegen_state
  /\ needs_lto' = needs_lto \cup {c \in {m.cgu} : m.res = "ok" /\ NeedsLto(c)}
  /\ compiled' = compiled \cup {c \in {m.cgu} : m.res = "ok" /\ ~NeedsLto(c)}
  /\ UNCHANGED <<diagnostics, tokens, work_items, import_only, pending>>

receive_import_only(m) ==
  /\ m.type = "AddImportOnlyModule"
  /\ import_only' = import_only \cup {m.cgu}
  /\ main_thread_state' = "Idle"
  /\ UNCHANGED <<diagnostics, codegen_state, tokens, running_with_own_token,
                 work_items, compiled, needs_lto, pending>>

\* How the thread panics on a message: a worker panicked; code was generated
\* although the main thread had not been asked to; a worker too many; a module
\* to import arrived after an abort.
PanicOn(m) ==
  CASE m.type = "WorkItem" /\ m.res = "panic" -> "worker panicked"
    [] m.type = "WorkItem" /\ Running = 0 -> "assertion"
    [] /\ m.type \in {"CodegenDone", "CodegenComplete", "AddImportOnlyModule"}
       /\ main_thread_state # "Codegenning" -> "assertion"
    [] m.type = "AddImportOnlyModule" /\ codegen_state # "Ongoing" -> "import assertion"
    [] OTHER -> "none"

receive ==
  /\ coordinator = "recv" /\ inbox # <<>>
  /\ LET m == Head(inbox) IN
     IF PanicOn(m) # "none" THEN EndWith(PanicOn(m))
     ELSE /\ \/ receive_token(m) \/ receive_codegen_done(m) \/ receive_codegen_complete(m)
             \/ receive_codegen_aborted(m) \/ receive_work_item(m) \/ receive_import_only(m)
          /\ inbox' = Tail(inbox)
          /\ coordinator' = "top"
          /\ UNCHANGED <<config, mainVars, cgu_messages, result, working, failing,
                         pool, stranded>>

-----------------------------------------------------------------------------
(* do_thin_lto on the coordinator thread: running_with_own_token stands for *)
(* its used_token_count, which includes the implicit token, and            *)
(* codegen_state for codegen_aborted.                                      *)

thin_done ==
  /\ running_with_own_token = 0
  /\ codegen_state # "Aborted" => work_items = {}

\* The top of its loop; an abort ends the thread by raising a FatalError.
thin_top ==
  /\ coordinator = "thin_top"
  /\ IF thin_done
     THEN EndWith(IF codegen_state = "Aborted" THEN "FatalError" ELSE "Ok")
     ELSE /\ LET used == running_with_own_token
                 free == IF codegen_state = "Aborted" \/ used > tokens THEN 0
                         ELSE tokens + 1 - used
             IN \E new \in kSubset(Min({free, Cardinality(work_items)}), work_items) :
                  /\ work_items' = work_items \ new
                  /\ working' = working \cup new
                  /\ running_with_own_token' = used + Cardinality(new)
                  /\ tokens' = Min({tokens, used + Cardinality(new) - 1})
          /\ pool' = pool + tokens - tokens'
          /\ coordinator' = "thin_recv"
          /\ UNCHANGED <<config, mainVars, inbox, cgu_messages, diagnostics,
                         codegen_state, main_thread_state, outVars, result,
                         failing, pending, stranded>>

thin_receive ==
  /\ coordinator = "thin_recv" /\ inbox # <<>>
  /\ LET m == Head(inbox) IN
     IF PanicOn(m) # "none" THEN EndWith(PanicOn(m))
     ELSE /\ \/ /\ m.type = "Token"
                /\ tokens' = IF m.ok THEN tokens + 1 ELSE tokens
                /\ diagnostics' = IF m.ok THEN diagnostics ELSE fatal
                /\ codegen_state' = IF m.ok THEN codegen_state ELSE "Aborted"
                /\ UNCHANGED <<running_with_own_token, compiled>>
             \/ /\ m.type = "WorkItem"
                /\ running_with_own_token' = running_with_own_token - 1
                /\ compiled' = IF m.res = "ok" THEN compiled \cup {m.cgu} ELSE compiled
                /\ codegen_state' = IF m.res = "fatal" THEN "Aborted" ELSE codegen_state
                /\ UNCHANGED <<tokens, diagnostics>>
          /\ inbox' = Tail(inbox)
          /\ coordinator' = "thin_top"
          /\ UNCHANGED <<config, mainVars, cgu_messages, main_thread_state,
                         work_items, needs_lto, import_only, result, working,
                         failing, pending, pool, stranded>>

CoordinatorThread == loop_top \/ receive \/ thin_top \/ thin_receive

-----------------------------------------------------------------------------
(* Worker threads (spawn_work) and the jobserver's helper thread.          *)

WorkItem(cgu, res) == [type |-> "WorkItem", cgu |-> cgu, res |-> res]

\* A worker succeeds or panics: it sends its result.
worker_ends(cgu) ==
  /\ cgu \in working
  /\ \E res \in IF config.faults THEN {"ok", "panic"} ELSE {"ok"} : Send(WorkItem(cgu, res))
  /\ working' = working \ {cgu}
  /\ UNCHANGED <<config, mainVars, cgu_messages, diagnostics, coordinator, loopVars,
                 outVars, result, failing, pending, pool, stranded>>

\* A fatal error: the diagnostic goes to the main thread before the unwinding
\* reaches catch_unwind and the coordinator is told.
worker_emits(cgu) ==
  /\ config.faults /\ cgu \in working
  /\ working' = working \ {cgu} /\ failing' = failing \cup {cgu}
  /\ diagnostics' = diagnostics + 1
  /\ UNCHANGED <<config, mainVars, inbox, cgu_messages, coordinator, loopVars,
                 outVars, result, pending, pool, stranded>>

\* Bound: a copy fails only while fewer errors than this are unread.
MaxUnreadErrors == 2

\* Copying one of the files of a reused unit fails, after which the worker goes
\* on with the next (a missing object file is fatal, as above).
worker_copy_fails(cgu) ==
  /\ config.faults /\ cgu \in working /\ config.cgus[cgu] # "No"
  /\ diagnostics < MaxUnreadErrors
  /\ diagnostics' = diagnostics + 1
  /\ UNCHANGED <<config, mainVars, inbox, cgu_messages, coordinator, loopVars,
                 outVars, result, working, failing, pending, pool, stranded>>

worker_fails(cgu) ==
  /\ cgu \in failing
  /\ failing' = failing \ {cgu}
  /\ Send(WorkItem(cgu, "fatal"))
  /\ UNCHANGED <<config, mainVars, cgu_messages, diagnostics, coordinator, loopVars,
                 outVars, result, working, pending, pool, stranded>>

Worker(cgu) ==
  worker_ends(cgu) \/ worker_emits(cgu) \/ worker_copy_fails(cgu) \/ worker_fails(cgu)

\* The helper thread serves a request: it takes a token, if there is one, or
\* reports the error it met.
helper ==
  /\ pending > 0
  /\ pending' = pending - 1
  /\ \/ pool > 0 /\ pool' = pool - 1 /\ Send([type |-> "Token", ok |-> TRUE])
     \/ config.faults /\ UNCHANGED pool /\ Send([type |-> "Token", ok |-> FALSE])
  /\ UNCHANGED <<config, mainVars, cgu_messages, diagnostics, coordinator, loopVars,
                 outVars, result, working, failing, stranded>>

Next == MainThread \/ CoordinatorThread \/ helper \/ \E cgu \in CGUs : Worker(cgu)

Spec == Init /\ [][Next]_vars

\* Threads run when they can, and LLVM ends; the jobserver may never answer.
FairSpec ==
  /\ Spec
  /\ WF_vars(MainThread) /\ WF_vars(CoordinatorThread)
  /\ WF_vars(\E cgu \in CGUs : Worker(cgu))

-----------------------------------------------------------------------------
Messages ==
  [type : {"CodegenComplete", "CodegenAborted"}]
    \cup [type : {"CodegenDone", "AddImportOnlyModule"}, cgu : CGUs]
    \cup [type : {"Token"}, ok : BOOLEAN]
    \cup [type : {"WorkItem"}, cgu : CGUs, res : {"ok", "fatal", "panic"}]

\* Typing of the threads' variables and of the messages.
TypeOK ==
  /\ config \in Configs
  /\ main \in {"wait", "check", "codegen", "last_check", "join_check", "join",
               "drop", "dropping"} \cup Final
  /\ next \in 1..(Len(config.cgus) + 1) /\ errors \in BOOLEAN
  /\ inbox \in Seq(Messages) /\ cgu_messages \in 0..1 /\ diagnostics \in Nat
  /\ coordinator \in {"top", "recv", "thin_top", "thin_recv", "ended"}
  /\ codegen_state \in {"Ongoing", "Completed", "Aborted"}
  /\ main_thread_state \in {"Idle", "Codegenning", "Lending"}
  /\ work_items \subseteq CGUs /\ compiled \subseteq CGUs
  /\ needs_lto \subseteq CGUs /\ import_only \subseteq CGUs
  /\ working \subseteq CGUs /\ failing \subseteq CGUs
  /\ {tokens, pool, stranded} \subseteq 0..config.available
  /\ running_with_own_token \in Nat /\ pending \in Nat
  /\ result \in {"none", "Ok", "Err", "FatalError", "worker panicked",
                 "assertion", "import assertion"}

\* Results on their way to the coordinator.
Unread == {i \in DOMAIN inbox : inbox[i].type = "WorkItem"}

\* The coordinator's count of workers is exact: it is the number of threads
\* whose result it has not seen.  A count too high keeps the loop alive for
\* ever, one too low lets it end, and drop the channel, under a worker.
RunningExact ==
  ~Ended => Running = Cardinality(working) + Cardinality(failing) + Cardinality(Unread)

\* "Each thread doing substantial work must be in possession of a Token": the
\* workers and the main thread, while it generates code, are never more than
\* the tokens of the coordinator and the implicit one.  Only a coordinator that
\* panicked drops tokens that workers still use.
WorkHasToken ==
  result \notin {"worker panicked", "assertion", "import assertion"} =>
    Cardinality(working) + (IF main = "codegen" THEN 1 ELSE 0) <= tokens + 1

\* "Relinquish accidentally acquired extra tokens": while the coordinator waits
\* for a message, every token it holds serves a worker, however late tokens
\* arrive for work that is done; and when it has ended all tokens are back.
TokensInUse ==
  /\ TypeOK /\ RunningExact
  /\ coordinator \in {"recv", "thin_recv"} =>
       tokens + (IF main_thread_state = "Lending" \/ coordinator = "thin_recv" THEN 1 ELSE 0)
         <= Cardinality(working) + Cardinality(failing) + Cardinality(Unread)
  /\ Ended => pool = config.available

\* The assertions on the protocol between the threads hold, among them that the
\* main thread is alive to take a CguMessage, that code arrives only when it was
\* asked for, and that no result of a worker comes unexpected.
AssertionsHold == result # "assertion"

\* A build that succeeds has processed every codegen unit once, whatever the
\* order of messages: compiled it, or prepared it for fat LTO, or reused it; and
\* it has read every error of a worker, those of workers that went on included.
EveryModuleOnce ==
  main = "done" =>
    /\ compiled \cup needs_lto \cup import_only = CGUs
    /\ compiled \cap (needs_lto \cup import_only) = {} /\ needs_lto \cap import_only = {}
    /\ config.lto # "Fat" => compiled = CGUs
    /\ work_items = {} /\ working = {} /\ diagnostics = 0

\* A coordinator that gave up has said why: the main thread never finds an
\* aborted or panicked coordinator without an error to report, unless a worker
\* panicked (`panic!("expected abort due to worker thread errors")`).
AbortIsExplained ==
  /\ main # "unexpected"
  /\ main = "bug" => result = "worker panicked"

\* However the build ends, it ends right: with every module, or with an error
\* that is reported, and by no failed assertion.
EndsRight == EveryModuleOnce /\ AbortIsExplained /\ AssertionsHold

\* An abort is final ("Possible state transitions"), and no worker is started
\* any more, also when the main thread goes on delivering code.
AbortIsFinal ==
  [][codegen_state = "Aborted" =>
       codegen_state' = "Aborted" /\ working' \subseteq working]_vars

\* Whatever fails, every thread ends, even if the jobserver never grants a
\* token: the coordinator never waits for a message nobody will send, nor the
\* main thread for a coordinator that waits for it.
AllEnd == <>(main \in Final /\ Ended /\ working \cup failing = {})

\* assert_eq!(codegen_state, Ongoing) when a module to import arrives.
ImportWhileOngoing == result # "import assertion"
=============================================================================

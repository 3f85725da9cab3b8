----------------------------- MODULE MCStdSync ------------------------------
(***************************************************************************)
(* The blocking primitives of std for TLC.  They share no state, so a      *)
(* behaviour is a behaviour of one of them, chosen at the start, while the *)
(* variables of the others keep their initial values.                      *)
(***************************************************************************)
EXTENDS Barrier, SleepState, FutexParker, FutexOnce

VARIABLE which

StdVars == <<which, vars, cvvars, barvars, slpvars, ParkerVars, OnceVars>>

StdInit ==
  /\ which \in {"mutex", "barrier", "sleep", "parker", "once"}
  /\ Init /\ cv_init /\ bar_init /\ slp_init /\ ParkerInit /\ OnceInit
  /\ which # "barrier" => num_threads = CHOOSE n \in Sizes : TRUE

InMutex(A)   == /\ which = "mutex" /\ A
                /\ UNCHANGED <<which, cvvars, barvars, slpvars, ParkerVars, OnceVars>>
InBarrier(A) == /\ which = "barrier" /\ A
                /\ UNCHANGED <<which, slpvars, ParkerVars, OnceVars>>
InSleep(A)   == /\ which = "sleep" /\ A
                /\ UNCHANGED <<which, barvars, ParkerVars, OnceVars>>
InParker(A)  == /\ which = "parker" /\ A
                /\ UNCHANGED <<which, vars, cvvars, barvars, slpvars, OnceVars>>
InOnce(A)    == /\ which = "once" /\ A
                /\ UNCHANGED <<which, vars, cvvars, barvars, slpvars, ParkerVars>>

StdNext ==
  \/ InMutex(Next) \/ InBarrier(BarrierNext) \/ InSleep(SleepNext)
  \/ InParker(ParkerNext) \/ InOnce(OnceNext)

\* The steps that a runnable thread takes; one thread owns the parker.
Runs(t) ==
  \/ InMutex(Progress(t)) \/ InBarrier(BarrierRuns(t)) \/ InSleep(SleepRuns(t))
  \/ InOnce(OnceRuns(t))
  \/ InParker(IF t \in Unparkers THEN unpark_wake(t) ELSE ParkerRuns)

\* Runnable threads run, critical sections and initialisers end.  The deadline
\* of park_timeout is absolute, so that it passes however often a signal
\* interrupts the call.
StdSpec ==
  /\ StdInit
  /\ [][StdNext]_StdVars
  /\ \A t \in Threads : WF_StdVars(Runs(t))
  /\ SF_StdVars(InParker(park_timed_out))
=============================================================================

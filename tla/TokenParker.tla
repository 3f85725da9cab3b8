---------------------------- MODULE TokenParker -----------------------------
(***************************************************************************)
(* What thread::park, park_timeout and unpark promise: a thread has one    *)
(* token; unpark makes it available, and park waits for it and takes it.   *)
(***************************************************************************)
VARIABLES
  token,   \* is the token available?
  parked   \* "no", or the call the thread is in: "park" or "park_timeout"

tvars == <<token, parked>>

TInit == token = FALSE /\ parked = "no"

Call(mode) == parked = "no" /\ parked' = mode /\ UNCHANGED token

Take == parked # "no" /\ token /\ token' = FALSE /\ parked' = "no"

GiveUp == parked = "park_timeout" /\ ~token /\ parked' = "no" /\ UNCHANGED token

Unpark == token' = TRUE /\ UNCHANGED parked

TNext == (\E m \in {"park", "park_timeout"} : Call(m)) \/ Take \/ GiveUp \/ Unpark

\* A call that can return does.
TSpec == TInit /\ [][TNext]_tvars /\ WF_tvars(Take \/ GiveUp)
=============================================================================

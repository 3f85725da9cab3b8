--------------------------- MODULE MCFutexRwLock ----------------------------
(* Instance of FutexRwLock for TLC.  AllServed is a liveness property, so the *)
(* threads are not declared symmetric.                                        *)
EXTENDS FutexRwLock
=============================================================================

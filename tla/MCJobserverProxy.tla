-------------------------- MODULE MCJobserverProxy --------------------------
(* Instance of JobserverProxy for TLC.  WaiterWorks is a liveness property,  *)
(* so the threads are not declared symmetric.                                *)
EXTENDS JobserverProxy
=============================================================================

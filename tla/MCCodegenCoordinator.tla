------------------------ MODULE MCCodegenCoordinator ------------------------
(* Instances of CodegenCoordinator for TLC. *)
EXTENDS CodegenCoordinator

Config(lto, cgus, parallel) ==
  [lto |-> lto, cgus |-> cgus, parallel |-> parallel, available |-> 2, faults |-> TRUE]

\* Enough tokens and units for a queue of two items (queue_full_enough wants
\* one for every four workers).
LongQueue ==
  [lto |-> "No", cgus |-> [i \in 1..6 |-> "No"], parallel |-> 5, available |-> 4,
   faults |-> FALSE]

\* Up to four units without LTO, and three for each kind of LTO, some of them
\* reused; no limit on the jobs, limits below, at and above the number of tokens.
SomeConfigs ==
  {Config("No", <<"No", "No", "No", "No">>, 2),
   Config("No", <<"No", "No", "No">>, 0),
   Config("No", <<"No", "PostLto", "No">>, 3),
   Config("Fat", <<"No", "PreLto", "No">>, 1),
   Config("ThinLocal", <<"No", "PreLto", "No">>, 2),
   Config("ThinLocal", <<"PreLto", "PreLto">>, 3),
   LongQueue}

\* A unit that is reused after two that are compiled.
ImportConfig == {Config("ThinLocal", <<"No", "No", "PreLto">>, 2)}
=============================================================================

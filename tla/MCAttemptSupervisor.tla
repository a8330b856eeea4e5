------------------------ MODULE MCAttemptSupervisor ------------------------
(* Small instances of AttemptSupervisor: the runner with two permits and   *)
(* the supervising runtime, and run_once as the application wires it.      *)
EXTENDS AttemptSupervisor
=============================================================================

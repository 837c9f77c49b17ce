------------------------------ MODULE MCChaos ------------------------------
(***************************************************************************)
(* Instances of Chaos for model checking: the faults that S2 keeps apart,  *)
(* two by two; the two that hold a resource; and the phases in which the   *)
(* daemon may go idle.                                                     *)
(***************************************************************************)
EXTENDS Chaos

Config(faults, phases, idleAware, exit) ==
    [faults |-> faults, phases |-> phases, idleAware |-> idleAware, exit |-> exit]

MCScenarios ==
    {Config({"kill_daemon", "corrupt_token_files"}, FALSE, TRUE, 0),
     Config({"delete_socket", "corrupt_token_files"}, FALSE, TRUE, 0),
     Config({"corrupt_token_files"}, TRUE, TRUE, 0),
     Config({"kill_daemon", "delete_socket"}, FALSE, TRUE, 0),
     Config({"fill_disk", "fill_connections"}, FALSE, TRUE, 2),
     Config({"fill_disk", "corrupt_token_files"}, FALSE, TRUE, 0),
     Config({"kill_daemon"}, TRUE, FALSE, 2),
     Config({}, TRUE, TRUE, 2)}
=============================================================================

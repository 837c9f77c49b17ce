---------------------------- MODULE MCStressRun ----------------------------
(* Small runs of the stress test: creating workers against sweeps, and      *)
(* against failing deletes; every way to stop a run; results that are lost  *)
(* on their way to the report; daemon errors in a row.                      *)
EXTENDS StressRun

CONSTANTS w1, w2

Run(crew, batches, mix, sweep, faults) ==
    [crew |-> crew, batches |-> batches, mix |-> mix, sweep |-> sweep, faults |-> faults]

MCScenarios ==
    { Run({w1, w2}, 1, {"create"}, TRUE, {}),
      Run({w1}, 2, {"create"}, TRUE, {"delete"}),
      Run({w1}, 1, {"create"}, FALSE, {"kubectl", "hang"}),
      Run({w1}, 1, {"slo"}, FALSE, {"signal", "error"}),
      Run({w1}, 1, {"slo", "other", "ipc"}, FALSE, {"db", "probe"}),
      Run({w1, w2}, 3, {"slo"}, FALSE, {"daemon"}) }
=============================================================================

----------------------------- MODULE StressRun -----------------------------
(***************************************************************************)
(* One run of the stress test (stresstest/internal): the orchestrator with *)
(* its select, drain, deadline and report, the workload generator with a   *)
(* crew of workers per batch, the resource tracker, the recorder with its  *)
(* flush loop, and the reaper with its sweeps and its final cleanup.       *)
(*                                                                         *)
(* The cluster is external: a create that kubectl sent may take effect     *)
(* until it is answered, and also after kubectl was cut off.  The chaos    *)
(* engine and the health monitor appear here only as subsystems that       *)
(* return; module Chaos models them.                                       *)
(***************************************************************************)
EXTENDS Integers, Sequences, FiniteSets

CONSTANTS
    Workers,          \* the worker goroutines of a batch
    MaxResources,     \* cfg.MaxResources, the tracker's capacity
    MaxConsecutive,   \* daemon errors in a row that count as a double fault (20 in the code)
    MaxBatches,       \* bound on the batches explored
    Attempts,         \* attempts of FinalCleanup for each resource type (3 in the code)
    Scenarios,        \* configurations and environments of the runs explored
    None

ASSUME ResourcesAssumption == MaxResources \in Nat \ {0}
ASSUME WorkersAssumption == IsFiniteSet(Workers)
ASSUME BoundsAssumption == MaxConsecutive \in Nat \ {0} /\ MaxBatches \in Nat \ {0}

(***************************************************************************)
(* A scenario fixes, for one run, the workers and the number of batches,   *)
(* the commands the configured weights and rates allow, whether the        *)
(* reaper's interval is shorter than the run, and what may go wrong:       *)
(* "signal" (the user stops the run), "error" (the health monitor gives    *)
(* up), "hang" (a subsystem outlives the 60s), "daemon" and "kubectl"      *)
(* (commands fail with a daemon error or otherwise), "probe" (a direct     *)
(* probe of the daemon fails), "delete" (kubectl delete fails), "db" (a    *)
(* transaction fails).                                                     *)
(***************************************************************************)
Faults == {"signal", "error", "hang", "daemon", "kubectl", "probe", "delete", "db"}
ASSUME ScenariosAssumption ==
    Scenarios \subseteq [crew : SUBSET Workers, batches : 1..MaxBatches, mix : SUBSET {"slo", "other", "create", "ipc"},
                         sweep : BOOLEAN, faults : SUBSET Faults]

Subsystems == {"workload", "chaos", "health", "reaper"}
Phases == {"steady", "quiescent"}   \* a burst differs from steady only in its rates
Kinds == <<"jobs", "configmaps">>
KindSet == {"jobs", "configmaps"}
FailureClasses == {"none", "daemon_error", "other_error"}

\* A resource's name carries its kind (kldst-j-..., kldst-c-...) and is unique.
Names == KindSet \X Workers \X (1..MaxBatches)
ASSUME NoneAssumption == None \notin Names

\* What the report tells apart in a row of command_results: whether it counts for
\* the SLO, whether it is a direct probe of the daemon, and whether it succeeded.
RowKinds == {"slo", "ipc", "other"} \X BOOLEAN
NoRows == [k \in RowKinds |-> 0]

VARIABLES
    sc,           \* the scenario of this run
    opc,          \* where Orchestrator.Run stands
    testDone,     \* testCtx is done: deadline, signal or cancel
    signalled,    \* the parent context is done
    interrupted,  \* o.interrupted
    errCh,        \* subsystems whose error waits in o.errCh
    returned,     \* subsystems that called wg.Done
    report,       \* the rows the report counted, the orphans and the verdict
    early,        \* history: a signal or an error came while the orchestrator waited in its select
    gpc,          \* where Generator.Run stands
    phase,        \* the workload phase
    batch,        \* batches started
    worker,       \* the crew: program counter, category and resource of each worker
    consecutive,  \* consecutiveDaemonErrors
    doubleFault,  \* doubleFaultLogged
    tracked,      \* ResourceTracker.resources
    reserved,     \* ResourceTracker.reserved
    inflight,     \* creates on their way to the API server
    cluster,      \* what the API server holds
    failed,       \* history: creates that kubectl reported as failed
    buf,          \* Recorder.cmdBuf
    db,           \* rows of command_results
    flushing,     \* the flush loop is running
    rpc,          \* where Reaper.Run stands
    todo,         \* resources the sweep still has to delete
    deleted,      \* the resource the sweep has deleted and not yet untracked
    cleaning      \* index in Kinds and failed attempts of FinalCleanup

orchVars == <<sc, opc, testDone, signalled, interrupted, errCh, returned, report, early>>
genVars == <<gpc, phase, batch, worker, consecutive, doubleFault>>
trackVars == <<tracked, reserved, inflight, cluster, failed>>
recVars == <<buf, db, flushing>>
reapVars == <<rpc, todo, deleted, cleaning>>
runVars == <<orchVars, genVars, trackVars, recVars, reapVars>>

Idle == [pc |-> "idle", cat |-> "slo", name |-> None]
NoReport == [rows |-> NoRows, orphans |-> 0, verdict |-> "none"]

RunInit ==
    /\ sc \in Scenarios /\ early = FALSE
    /\ opc = "select" /\ testDone = FALSE /\ signalled = FALSE /\ interrupted = FALSE
    /\ errCh = {} /\ returned = {} /\ report = NoReport
    /\ gpc = "head" /\ phase = "steady" /\ batch = 0
    /\ worker = [w \in Workers |-> Idle] /\ consecutive = 0 /\ doubleFault = FALSE
    /\ tracked = {} /\ reserved = 0 /\ inflight = {} /\ cluster = {} /\ failed = {}
    /\ buf = NoRows /\ db = NoRows /\ flushing = TRUE
    /\ rpc = "idle" /\ todo = {} /\ deleted = None /\ cleaning = [kind |-> 1, tries |-> 0]

-----------------------------------------------------------------------------
(***************************************************************************)
(* The tracker: three operations under its mutex.                          *)
(***************************************************************************)
CanReserve == Cardinality(tracked) + reserved < MaxResources

ReserveSlot == CanReserve /\ reserved' = reserved + 1 /\ UNCHANGED tracked

CommitSlot(n) == reserved' = reserved - 1 /\ tracked' = tracked \cup {n}

\* Mutant: the slot of a failed create is kept.
SlotNotReleased == UNCHANGED <<reserved, tracked>>

ReleaseSlot == reserved' = reserved - 1 /\ UNCHANGED tracked

\* extractKind: a job is created by "apply -f -" and is tracked under the kind
\* "apply", which kubectl delete does not know.
DeletableByKind(n) == n[1] # "jobs"

-----------------------------------------------------------------------------
(***************************************************************************)
(* The generator.                                                          *)
(***************************************************************************)

\* sendErr: errors of a context that is done are filtered out, and the channel
\* holds one error of each of the four subsystems.
SendErr(s) == errCh' = errCh \cup {s} /\ early' = (early \/ opc = "select")

\* A batch: any number of workers from none to all; a new phase may have begun.
StartBatch(crew) ==
    /\ gpc = "head" /\ ~testDone /\ batch < sc.batches
    /\ batch' = batch + 1
    /\ phase' \in Phases
    /\ worker' = [w \in Workers |-> IF w \in crew THEN [Idle EXCEPT !.pc = "waiting"] ELSE Idle]
    /\ gpc' = "crew"
    /\ UNCHANGED <<consecutive, doubleFault, orchVars, trackVars, recVars, reapVars>>

\* rateLimiter.Wait fails when the context is done.
RateLimited(w) ==
    /\ worker[w].pc = "waiting" /\ testDone
    /\ worker' = [worker EXCEPT ![w] = [Idle EXCEPT !.pc = "done"]]
    /\ UNCHANGED <<gpc, phase, batch, consecutive, doubleFault, orchVars, trackVars, recVars, reapVars>>

\* A command that creates nothing: a read, an invalid or a fuzzed command, or a
\* mutating one that finds the tracker full and reads instead.
StartRead(w, cat) ==
    /\ worker[w].pc = "waiting"
    /\ \/ cat \in sc.mix
       \/ cat = "slo" /\ "create" \in sc.mix /\ ~CanReserve
    /\ worker' = [worker EXCEPT ![w] = [pc |-> "running", cat |-> cat, name |-> None]]
    /\ UNCHANGED <<gpc, phase, batch, consecutive, doubleFault, orchVars, trackVars, recVars, reapVars>>

StartCreate(w, kind) ==
    LET n == <<kind, w, batch>> IN
    /\ worker[w].pc = "waiting" /\ "create" \in sc.mix
    /\ ReserveSlot
    /\ worker' = [worker EXCEPT ![w] = [pc |-> "running", cat |-> "slo", name |-> n]]
    /\ inflight' = inflight \cup {n}
    /\ UNCHANGED <<cluster, failed, gpc, phase, batch, consecutive, doubleFault,
                   orchVars, recVars, reapVars>>

\* The API server stores the resource.
Create(n) ==
    /\ n \in inflight
    /\ inflight' = inflight \ {n}
    /\ cluster' = cluster \cup {n}
    /\ UNCHANGED <<tracked, reserved, failed, orchVars, genVars, recVars, reapVars>>

\* What a kubectl command may end with; the end of the context kills it.
Outcomes ==
    {"none"} \cup (IF "daemon" \in sc.faults THEN {"daemon_error"} ELSE {})
             \cup (IF "kubectl" \in sc.faults \/ testDone THEN {"other_error"} ELSE {})

\* S3: only daemon errors in a row count; anything else starts the count again.
CountDaemonErrors(class) ==
    IF class = "daemon_error"
    THEN /\ consecutive' = IF consecutive < MaxConsecutive THEN consecutive + 1 ELSE consecutive
         /\ doubleFault' = (doubleFault \/ consecutive + 1 >= MaxConsecutive)
    ELSE consecutive' = 0 /\ UNCHANGED doubleFault

\* A slot is committed when the create succeeded and released otherwise.  A
\* failed or killed kubectl leaves open whether its create is still on the way.
SettleSlot(n, class) ==
    \/ n = None /\ UNCHANGED <<tracked, reserved, failed, inflight>>
    \/ n # None /\ class = "none" /\ n \notin inflight /\ CommitSlot(n) /\ UNCHANGED <<failed, inflight>>
    \/ n # None /\ class # "none" /\ ReleaseSlot /\ failed' = failed \cup {n}
          /\ inflight' \in {inflight, inflight \ {n}}

RecordResult(cat, ok) == buf' = [buf EXCEPT ![<<cat, ok>>] = @ + 1] /\ UNCHANGED <<db, flushing>>

\* kubectl ends; executeOneCommand counts the result, settles the slot and
\* hands a row to the recorder.
FinishCommand(w, class) ==
    /\ worker[w].pc = "running" /\ class \in Outcomes
    /\ CountDaemonErrors(class)
    /\ SettleSlot(worker[w].name, class)
    /\ RecordResult(worker[w].cat, class = "none")
    /\ worker' = [worker EXCEPT ![w] = [Idle EXCEPT !.pc = "done"]]
    /\ UNCHANGED <<cluster, gpc, phase, batch, orchVars, reapVars>>

\* Mutant: the counter is looked at in place of the flag that keeps a double fault.
CrewDoneCounter ==
    /\ gpc = "crew"
    /\ \A w \in Workers : worker[w].pc \in {"idle", "done"}
    /\ worker' = [w \in Workers |-> Idle]
    /\ IF consecutive >= MaxConsecutive
       THEN gpc' = "returned" /\ SendErr("workload") /\ returned' = returned \cup {"workload"}
       ELSE /\ gpc' = IF phase # "quiescent" /\ "ipc" \in sc.mix THEN "probe" ELSE "head"
            /\ UNCHANGED <<errCh, early, returned>>
    /\ UNCHANGED <<phase, batch, consecutive, doubleFault, sc, opc, testDone, signalled, interrupted,
                   report, trackVars, recVars, reapVars>>

\* wg.Wait returns; S3 stops the workload when a double fault was seen.
CrewDone ==
    /\ gpc = "crew"
    /\ \A w \in Workers : worker[w].pc \in {"idle", "done"}
    /\ worker' = [w \in Workers |-> Idle]
    /\ IF doubleFault
       THEN gpc' = "returned" /\ SendErr("workload") /\ returned' = returned \cup {"workload"}
       ELSE /\ gpc' = IF phase # "quiescent" /\ "ipc" \in sc.mix THEN "probe" ELSE "head"
            /\ UNCHANGED <<errCh, early, returned>>
    /\ UNCHANGED <<phase, batch, consecutive, doubleFault, sc, opc, testDone, signalled, interrupted,
                   report, trackVars, recVars, reapVars>>

\* RunProbes: the health requests of a batch, one row standing for all of them.
Probe(ok) ==
    /\ gpc = "probe" /\ (ok \/ "probe" \in sc.faults)
    /\ RecordResult("ipc", ok)
    /\ gpc' = "head"
    /\ UNCHANGED <<phase, batch, worker, consecutive, doubleFault, orchVars, trackVars, reapVars>>

GeneratorStops ==
    /\ gpc = "head" /\ testDone
    /\ gpc' = "returned" /\ returned' = returned \cup {"workload"}
    /\ UNCHANGED <<phase, batch, worker, consecutive, doubleFault, sc, opc, testDone, signalled,
                   interrupted, errCh, early, report, trackVars, recVars, reapVars>>

-----------------------------------------------------------------------------
(***************************************************************************)
(* The recorder's flush loop.                                              *)
(***************************************************************************)

\* flushCommands: the buffer is swapped under cmdMu and written in one
\* transaction; when Begin or Prepare fails the rows are gone.
FlushCommands(ok) ==
    /\ ok \/ "db" \in sc.faults
    /\ buf' = NoRows
    /\ db' = IF ok THEN [k \in RowKinds |-> db[k] + buf[k]] ELSE db

\* The ticker fires.
Flush(ok) ==
    /\ flushing /\ buf # NoRows
    /\ FlushCommands(ok)
    /\ UNCHANGED <<flushing, orchVars, genVars, trackVars, reapVars>>

\* done is closed (the orchestrator is past CloseRecorder): one last flush.
LastFlush(ok) ==
    /\ flushing /\ opc \in {"report", "verdict"}
    /\ FlushCommands(ok)
    /\ flushing' = FALSE
    /\ UNCHANGED <<orchVars, genVars, trackVars, reapVars>>

-----------------------------------------------------------------------------
(***************************************************************************)
(* The reaper.                                                             *)
(***************************************************************************)

\* ListOlderThan: any of the tracked resources may be old enough.
SweepBegins(old) ==
    /\ rpc = "idle" /\ sc.sweep /\ old \subseteq tracked /\ old # {}
    /\ rpc' = "sweep" /\ todo' = old
    /\ UNCHANGED <<deleted, cleaning, orchVars, genVars, trackVars, recVars>>

SweepDelete(n) ==
    /\ rpc = "sweep" /\ n \in todo /\ DeletableByKind(n)
    /\ cluster' = cluster \ {n}
    /\ rpc' = "remove" /\ deleted' = n /\ todo' = todo \ {n}
    /\ UNCHANGED <<cleaning, tracked, reserved, inflight, failed, orchVars, genVars, recVars>>

\* Mutant: the resource is untracked although its delete failed.
SweepForgets(n) ==
    /\ rpc = "sweep" /\ n \in todo
    /\ "delete" \in sc.faults \/ testDone \/ ~DeletableByKind(n)
    /\ todo' = todo \ {n} /\ tracked' = tracked \ {n}
    /\ UNCHANGED <<rpc, deleted, cleaning, reserved, inflight, cluster, failed, orchVars, genVars, recVars>>

SweepDeleteFails(n) ==
    /\ rpc = "sweep" /\ n \in todo
    /\ "delete" \in sc.faults \/ testDone \/ ~DeletableByKind(n)
    /\ todo' = todo \ {n}
    /\ UNCHANGED <<rpc, deleted, cleaning, orchVars, genVars, trackVars, recVars>>

\* tracker.Remove, after the delete.
SweepRemove ==
    /\ rpc = "remove"
    /\ tracked' = tracked \ {deleted}
    /\ deleted' = None
    /\ rpc' = "sweep"
    /\ UNCHANGED <<todo, cleaning, reserved, inflight, cluster, failed, orchVars, genVars, recVars>>

SweepEnds ==
    /\ rpc = "sweep" /\ todo = {}
    /\ rpc' = "idle"
    /\ UNCHANGED <<todo, deleted, cleaning, orchVars, genVars, trackVars, recVars>>

FinalCleanupBegins ==
    /\ rpc = "idle" /\ testDone
    /\ rpc' = "final"
    /\ UNCHANGED <<todo, deleted, cleaning, orchVars, genVars, trackVars, recVars>>

\* A bulk delete of one resource type by label; the tracker is not told.
FinalDelete ==
    /\ rpc = "final" /\ cleaning.kind <= Len(Kinds)
    /\ cluster' = {n \in cluster : n[1] # Kinds[cleaning.kind]}
    /\ cleaning' = [kind |-> cleaning.kind + 1, tries |-> 0]
    /\ UNCHANGED <<rpc, todo, deleted, tracked, reserved, inflight, failed, orchVars, genVars, recVars>>

\* Three attempts, then the next type.
FinalDeleteFails ==
    /\ rpc = "final" /\ cleaning.kind <= Len(Kinds) /\ "delete" \in sc.faults
    /\ cleaning' = IF cleaning.tries + 1 < Attempts
                   THEN [cleaning EXCEPT !.tries = @ + 1]
                   ELSE [kind |-> cleaning.kind + 1, tries |-> 0]
    /\ UNCHANGED <<rpc, todo, deleted, orchVars, genVars, trackVars, recVars>>

ReaperStops ==
    /\ rpc = "final" /\ cleaning.kind > Len(Kinds)
    /\ rpc' = "returned" /\ returned' = returned \cup {"reaper"}
    /\ UNCHANGED <<todo, deleted, cleaning, sc, opc, testDone, signalled, interrupted, errCh, early, report,
                   genVars, trackVars, recVars>>

-----------------------------------------------------------------------------
(***************************************************************************)
(* The orchestrator.                                                       *)
(***************************************************************************)

\* The duration of the test is over.
Deadline ==
    /\ ~testDone /\ testDone' = TRUE
    /\ UNCHANGED <<sc, opc, signalled, interrupted, errCh, early, returned, report, genVars, trackVars, recVars, reapVars>>

\* The user stops the run.  Past the drain the parent context is no longer looked
\* at, and testCtx is done already.
Signal ==
    /\ ~signalled /\ "signal" \in sc.faults /\ opc \in {"select", "drain"}
    /\ signalled' = TRUE /\ testDone' = TRUE
    /\ early' = (early \/ opc = "select")
    /\ UNCHANGED <<sc, opc, interrupted, errCh, returned, report, genVars, trackVars, recVars, reapVars>>

\* The chaos engine and the health monitor return when the context is done; an
\* error is sent when the monitor gives up or when runSubsystem catches a panic.
OthersReturn ==
    /\ testDone /\ ~({"chaos", "health"} \subseteq returned)
    /\ returned' = returned \cup {"chaos", "health"}
    /\ UNCHANGED <<sc, opc, testDone, signalled, interrupted, errCh, early, report,
                   genVars, trackVars, recVars, reapVars>>

MonitorFails ==
    /\ "health" \notin returned /\ "error" \in sc.faults
    /\ SendErr("health")
    /\ returned' = returned \cup {"health"}
    /\ UNCHANGED <<sc, opc, testDone, signalled, interrupted, report, genVars, trackVars, recVars, reapVars>>

SelectDone ==
    /\ opc = "select" /\ testDone
    /\ opc' = "drain"
    /\ UNCHANGED <<sc, early, testDone, signalled, interrupted, errCh, returned, report,
                   genVars, trackVars, recVars, reapVars>>

SelectError(s) ==
    /\ opc = "select" /\ s \in errCh
    /\ errCh' = errCh \ {s} /\ interrupted' = TRUE
    /\ testDone' = TRUE
    /\ opc' = "drain"
    /\ UNCHANGED <<sc, early, signalled, returned, report, genVars, trackVars, recVars, reapVars>>

DrainError(s) ==
    /\ opc = "drain" /\ s \in errCh
    /\ errCh' = errCh \ {s} /\ interrupted' = TRUE
    /\ UNCHANGED <<sc, early, opc, testDone, signalled, returned, report, genVars, trackVars, recVars, reapVars>>

\* Mutant: the parent context is not looked at.
DrainedOnly ==
    /\ opc = "drain" /\ errCh = {}
    /\ opc' = "wait"
    /\ UNCHANGED <<sc, early, interrupted, testDone, signalled, errCh, returned, report,
                   genVars, trackVars, recVars, reapVars>>

\* The channel is empty; the parent context is looked at.
Drained ==
    /\ opc = "drain" /\ errCh = {}
    /\ interrupted' = (interrupted \/ signalled)
    /\ opc' = "wait"
    /\ UNCHANGED <<sc, early, testDone, signalled, errCh, returned, report, genVars, trackVars, recVars, reapVars>>

AllStopped ==
    /\ opc = "wait" /\ returned = Subsystems
    /\ opc' = "close"
    /\ UNCHANGED <<sc, early, testDone, signalled, interrupted, errCh, returned, report,
                   genVars, trackVars, recVars, reapVars>>

\* Mutant: the deadline does not mark the run as interrupted.
QuietDeadline ==
    /\ opc = "wait" /\ "hang" \in sc.faults
    /\ opc' = "close"
    /\ UNCHANGED <<sc, early, interrupted, testDone, signalled, errCh, returned, report,
                   genVars, trackVars, recVars, reapVars>>

\* Mutant: the orchestrator waits for the subsystems without a deadline.
NoDeadline == FALSE

\* 60 seconds are over.
ShutdownDeadline ==
    /\ opc = "wait" /\ "hang" \in sc.faults
    /\ interrupted' = TRUE
    /\ opc' = "close"
    /\ UNCHANGED <<sc, early, testDone, signalled, errCh, returned, report, genVars, trackVars, recVars, reapVars>>

\* Recorder.Close only closes the channel; it does not wait for the last flush.
CloseRecorder ==
    /\ opc = "close"
    /\ opc' = "report"
    /\ UNCHANGED <<sc, early, testDone, signalled, interrupted, errCh, returned, report,
                   genVars, trackVars, recVars, reapVars>>

\* Reporter.Generate: the rows that are in the database by now.
Generate ==
    /\ opc = "report"
    /\ report' = [report EXCEPT !.rows = db]
    /\ opc' = "verdict"
    /\ UNCHANGED <<sc, early, testDone, signalled, interrupted, errCh, returned,
                   genVars, trackVars, recVars, reapVars>>

\* DetermineVerdict.  "others" stands for availability, memory, recovery times,
\* latency and the number of restarts.  The counters of TokenIntegrity are never
\* filled in, so that no refresh is ever "observed"; SLAViolations is always 0.
Verdict(r, stopped, others) ==
    LET ipcOk == r.rows[<<"ipc", TRUE>>]
        ipc   == ipcOk + r.rows[<<"ipc", FALSE>>]
        sloOk == ipcOk + r.rows[<<"slo", TRUE>>]
        slo   == ipc + r.rows[<<"slo", TRUE>>] + r.rows[<<"slo", FALSE>>]
        fails == \/ stopped \/ others = "fail"
                 \/ ipc > 0 /\ 100 * ipcOk < 99 * ipc
                 \/ slo = 0 \/ 100 * sloOk < 95 * slo
        degrades == \/ others = "degraded" \/ ipc = 0 \/ r.orphans > 0
                    \/ 100 * sloOk < 99 * slo
                    \/ ~stopped
    IN  IF fails THEN "FAIL" ELSE IF degrades THEN "DEGRADED" ELSE "PASS"

Conclude(others) ==
    LET r == [report EXCEPT !.orphans = Cardinality(tracked)] IN
    /\ opc = "verdict"
    /\ report' = [r EXCEPT !.verdict = Verdict(r, interrupted, others)]
    /\ opc' = "done"
    /\ UNCHANGED <<sc, early, testDone, signalled, interrupted, errCh, returned,
                   genVars, trackVars, recVars, reapVars>>

-----------------------------------------------------------------------------
GeneratorStep ==
    \/ \E crew \in SUBSET sc.crew : StartBatch(crew)
    \/ CrewDone
    \/ \E ok \in BOOLEAN : Probe(ok)
    \/ GeneratorStops

WorkerStep(w) ==
    \/ RateLimited(w)
    \/ \E cat \in {"slo", "other"} : StartRead(w, cat)
    \/ \E kind \in KindSet : StartCreate(w, kind)
    \/ \E class \in FailureClasses : FinishCommand(w, class)

RecorderStep == \E ok \in BOOLEAN : Flush(ok) \/ LastFlush(ok)

ReaperStep ==
    \/ \E old \in SUBSET tracked : SweepBegins(old)
    \/ \E n \in todo : SweepDelete(n) \/ SweepDeleteFails(n)
    \/ SweepRemove \/ SweepEnds
    \/ FinalCleanupBegins \/ FinalDelete \/ FinalDeleteFails \/ ReaperStops

OrchestratorStep ==
    \/ SelectDone \/ Drained \/ AllStopped \/ ShutdownDeadline
    \/ CloseRecorder \/ Generate
    \/ \E others \in {"none", "degraded", "fail"} : Conclude(others)
    \/ \E s \in errCh : SelectError(s) \/ DrainError(s)

Environment ==
    \/ Deadline \/ Signal
    \/ \E n \in inflight : Create(n)
    \/ OthersReturn \/ MonitorFails

RunNext ==
    /\ opc # "done"
    /\ \/ GeneratorStep
       \/ \E w \in Workers : WorkerStep(w)
       \/ RecorderStep
       \/ ReaperStep
       \/ OrchestratorStep
       \/ Environment

RunSpec == RunInit /\ [][RunNext]_runVars

\* The deadline passes, every goroutine that can run is scheduled and kubectl
\* ends within its timeout; a select does not choose the reaper's ticker over
\* the end of the context for ever.  Where subsystems may hang, only the
\* generator and its workers are known to go on.
Running(A) == opc # "done" /\ A
NoHang(A) == "hang" \notin sc.faults /\ Running(A)

RunFairness ==
    /\ WF_runVars(Running(Deadline))
    /\ WF_runVars(Running(OrchestratorStep))
    /\ WF_runVars(Running(GeneratorStep))
    /\ \A w \in Workers : WF_runVars(Running(WorkerStep(w)))
    /\ WF_runVars(NoHang(OthersReturn))
    /\ WF_runVars(NoHang(ReaperStep))
    /\ SF_runVars(NoHang(FinalCleanupBegins))

FairRunSpec == RunSpec /\ RunFairness

-----------------------------------------------------------------------------
HoldsSlot(w) == worker[w].pc = "running" /\ worker[w].name # None

\* Types.
RunTypeOK ==
    /\ sc \in Scenarios
    /\ opc \in {"select", "drain", "wait", "close", "report", "verdict", "done"}
    /\ testDone \in BOOLEAN /\ signalled \in BOOLEAN /\ interrupted \in BOOLEAN
    /\ errCh \subseteq Subsystems /\ returned \subseteq Subsystems
    /\ gpc \in {"head", "crew", "probe", "returned"}
    /\ phase \in Phases /\ batch \in 0..MaxBatches
    /\ worker \in [Workers -> [pc : {"idle", "waiting", "running", "done"},
                               cat : {"slo", "other"}, name : Names \cup {None}]]
    /\ consecutive \in 0..MaxConsecutive /\ doubleFault \in BOOLEAN
    /\ tracked \subseteq Names /\ reserved \in Nat
    /\ inflight \subseteq Names /\ cluster \subseteq Names /\ failed \subseteq Names
    /\ buf \in [RowKinds -> Nat] /\ db \in [RowKinds -> Nat] /\ flushing \in BOOLEAN
    /\ rpc \in {"idle", "sweep", "remove", "final", "returned"}
    /\ todo \subseteq Names /\ deleted \in Names \cup {None}

\* The tracker counts a reservation for exactly the workers whose create is
\* running, and resources and reservations together never exceed its capacity
\* (ReserveSlot, CommitSlot, ReleaseSlot and Remove of any number of workers
\* and of the reaper, in every order).
SlotAccounting ==
    /\ reserved = Cardinality({w \in Workers : HoldsSlot(w)})
    /\ Cardinality(tracked) + reserved <= MaxResources

\* A resource in the cluster is tracked, or its create is still running, or
\* kubectl reported its create as failed: executeOneCommand and the reaper lose
\* no resource whose create succeeded.
CreatedIsTracked ==
    \A n \in cluster :
        \/ n \in tracked \cup failed
        \/ \E w \in Workers : HoldsSlot(w) /\ worker[w].name = n

\* A verdict other than FAIL is given only after every subsystem has stopped, and
\* when it counts no orphans, nothing but resources whose create kubectl reported
\* as failed is left in the cluster, although FinalCleanup ran while the last
\* commands of the workload were still ending.
CompleteUnlessFailed ==
    opc = "done" /\ report.verdict # "FAIL" =>
        /\ returned = Subsystems /\ reserved = 0
        /\ report.orphans = 0 => cluster \subseteq failed

\* A run that was stopped by a signal or by the error of a subsystem while the
\* orchestrator still waited ends with the verdict FAIL.
EarlyStopFails == opc = "done" /\ early => report.verdict = "FAIL"

\* The run ends with a report even if a subsystem never returns.
RunEnds == <>(opc = "done")

\* S3: once MaxConsecutive daemon errors came in a row the generator starts no
\* further batch, whatever the workers of the running batch still report.
DoubleFaultStops == [][doubleFault => batch' = batch]_batch

=============================================================================

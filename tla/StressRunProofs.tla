-------------------------- MODULE StressRunProofs --------------------------
(***************************************************************************)
(* Proofs about StressRun for any number of workers, any capacity of the   *)
(* tracker and every set of scenarios.                                     *)
(***************************************************************************)
EXTENDS StressRun, TLAPS

Holders == {w \in Workers : HoldsSlot(w)}

\* A batch begins only when every worker of the last one is done, and a worker
\* that runs a create names it after itself and its batch.
Crew ==
    /\ gpc = "crew" => batch > 0
    /\ gpc # "crew" => \A w \in Workers : worker[w].pc \in {"idle", "done"}
    /\ \A w \in Workers : HoldsSlot(w) => worker[w].name[2] = w /\ worker[w].name[3] = batch

\* Tracked names are old: no create that is still to begin will use one again.
Fresh ==
    /\ \A n \in tracked : n[3] <= batch /\ (n[3] = batch => worker[n[2]].pc \in {"idle", "done"})
    /\ tracked \cap inflight = {}

\* A create on its way is one that is running or one that kubectl gave up.
Sent == \A n \in inflight : n \in failed \/ \E w \in Workers : HoldsSlot(w) /\ worker[w].name = n

\* The reaper works on tracked resources, and what it is about to untrack is gone.
Swept ==
    /\ rpc \in {"sweep", "remove"} => todo \subseteq tracked
    /\ rpc = "remove" => deleted \in tracked /\ deleted \notin cluster \cup todo

\* The reason of an early stop is on record until the verdict is given.
Stopped ==
    early => /\ signalled \/ interrupted \/ errCh # {}
             /\ opc \notin {"select", "drain"} => interrupted
             /\ opc = "done" => report.verdict = "FAIL"

\* A double fault is seen while its batch runs.
Faulted == doubleFault => gpc \in {"crew", "returned"}

\* The workload has returned only when its last batch is over.  An orchestrator
\* that is past the wait and was not interrupted has seen every subsystem return,
\* and the verdict is given on what is tracked then.
Ended ==
    /\ "workload" \in returned => gpc = "returned"
    /\ opc \in {"close", "report", "verdict"} => interrupted \/ returned = Subsystems
    /\ opc = "done" => /\ report.verdict = "FAIL" \/ returned = Subsystems
                       /\ report.orphans = Cardinality(tracked)
    /\ \E rows, orphans, verdict :
          report = [rows |-> rows, orphans |-> orphans, verdict |-> verdict]

\* The tracker, the workers and the reaper together.
Tracking ==
    /\ IsFiniteSet(tracked) /\ SlotAccounting
    /\ Crew /\ Fresh /\ Sent /\ Swept /\ CreatedIsTracked

IInv == RunTypeOK /\ Tracking /\ Stopped /\ Faulted /\ Ended

\* Every step keeps the types.
LEMMA TypeStep ==
    ASSUME IInv, [RunNext]_runVars, \A w \in Workers : HoldsSlot(w) => reserved # 0
    PROVE  RunTypeOK'
<1> USE BoundsAssumption, ScenariosAssumption DEF IInv, RunTypeOK, Tracking
<1>1. ASSUME NEW crew \in SUBSET sc.crew, StartBatch(crew)
      PROVE  RunTypeOK'
  <2>1. batch' \in 0..MaxBatches
    <3>1. sc.batches \in 1..MaxBatches
        OBVIOUS
    <3> QED
        BY <1>1, <3>1 DEF StartBatch
  <2>2. worker' \in [Workers -> [pc : {"idle", "waiting", "running", "done"},
                    cat : {"slo", "other"}, name : Names \cup {None}]]
    BY <1>1 DEF StartBatch, Idle
  <2> QED
    BY <1>1, <2>1, <2>2 DEF StartBatch, orchVars, trackVars, recVars, reapVars
<1>2. CASE CrewDone
  <2>1. worker' \in [Workers -> [pc : {"idle", "waiting", "running", "done"},
                    cat : {"slo", "other"}, name : Names \cup {None}]]
    BY <1>2 DEF CrewDone, Idle
  <2>2. errCh' \subseteq Subsystems /\ returned' \subseteq Subsystems
    BY <1>2 DEF CrewDone, SendErr, Subsystems
  <2> QED
    BY <1>2, <2>1, <2>2 DEF CrewDone, trackVars, recVars, reapVars
<1>3. ASSUME NEW ok \in BOOLEAN, Probe(ok)
      PROVE  RunTypeOK'
  <2>1. buf' \in [RowKinds -> Nat]
    BY <1>3 DEF Probe, RecordResult, RowKinds
  <2> QED
    BY <1>3, <2>1 DEF Probe, RecordResult, orchVars, trackVars, reapVars
<1>4. CASE GeneratorStops
    BY <1>4 DEF GeneratorStops, trackVars, recVars, reapVars, Subsystems
<1>5. ASSUME NEW w \in Workers, RateLimited(w)
      PROVE  RunTypeOK'
  <2>1. worker' \in [Workers -> [pc : {"idle", "waiting", "running", "done"},
                    cat : {"slo", "other"}, name : Names \cup {None}]]
    BY <1>5 DEF RateLimited, Idle
  <2> QED
    BY <1>5, <2>1 DEF RateLimited, orchVars, trackVars, recVars, reapVars
<1>6. ASSUME NEW w \in Workers, NEW cat \in {"slo", "other"}, StartRead(w, cat)
      PROVE  RunTypeOK'
    BY <1>6 DEF StartRead, orchVars, trackVars, recVars, reapVars
<1>7. ASSUME NEW w \in Workers, NEW kind \in KindSet, StartCreate(w, kind)
      PROVE  RunTypeOK'
  <2>1. <<kind, w, batch>> \in Names
    BY <1>7 DEF StartCreate, Names, Crew
  <2>2. worker' \in [Workers -> [pc : {"idle", "waiting", "running", "done"},
                    cat : {"slo", "other"}, name : Names \cup {None}]]
    BY <1>7, <2>1 DEF StartCreate
  <2> QED
    BY <1>7, <2>1, <2>2 DEF StartCreate, ReserveSlot, orchVars, recVars, reapVars
<1>8. ASSUME NEW w \in Workers, NEW class \in FailureClasses, FinishCommand(w, class)
      PROVE  RunTypeOK'
  <2>1. worker' \in [Workers -> [pc : {"idle", "waiting", "running", "done"},
                    cat : {"slo", "other"}, name : Names \cup {None}]]
    BY <1>8 DEF FinishCommand, Idle
  <2>2. buf' \in [RowKinds -> Nat] /\ UNCHANGED <<db, flushing>>
    <3>1. worker[w].cat \in {"slo", "ipc", "other"} /\ (class = "none") \in BOOLEAN
        OBVIOUS
    <3>2. <<worker[w].cat, class = "none">> \in RowKinds
        BY <3>1, Zenon DEF RowKinds
    <3> QED
        BY <1>8, <3>2 DEF FinishCommand, RecordResult
  <2>3. consecutive' \in 0..MaxConsecutive
    BY <1>8 DEF FinishCommand, CountDaemonErrors
  <2>4. doubleFault' \in BOOLEAN
    BY <1>8, Zenon DEF FinishCommand, CountDaemonErrors
  <2>5. tracked' \subseteq Names /\ inflight' \subseteq Names /\ failed' \subseteq Names
    BY <1>8 DEF FinishCommand, SettleSlot, CommitSlot, ReleaseSlot
  <2>6. reserved' \in Nat
    <3>1. CASE worker[w].name = None
        BY <1>8, <3>1 DEF FinishCommand, SettleSlot
    <3>2. CASE worker[w].name # None
      <4>2. reserved # 0
        BY <1>8, <3>2 DEF HoldsSlot, FinishCommand
      <4>3. reserved' = reserved - 1
        BY <1>8, <3>2 DEF FinishCommand, SettleSlot, CommitSlot, ReleaseSlot
      <4> QED
        BY <4>2, <4>3
    <3> QED
        BY <3>1, <3>2
  <2> QED
    BY <1>8, <2>1, <2>2, <2>3, <2>4, <2>5, <2>6 DEF FinishCommand, orchVars, reapVars
<1>9. ASSUME NEW ok \in BOOLEAN, Flush(ok)
      PROVE  RunTypeOK'
  <2>1. buf' \in [RowKinds -> Nat] /\ db' \in [RowKinds -> Nat]
    BY <1>9 DEF Flush, FlushCommands, NoRows
  <2> QED
    BY <1>9, <2>1 DEF Flush, orchVars, genVars, trackVars, reapVars
<1>10. ASSUME NEW ok \in BOOLEAN, LastFlush(ok)
      PROVE  RunTypeOK'
  <2>1. buf' \in [RowKinds -> Nat] /\ db' \in [RowKinds -> Nat]
    BY <1>10 DEF LastFlush, FlushCommands, NoRows
  <2>2. flushing' \in BOOLEAN
    BY <1>10, Zenon DEF LastFlush
  <2> QED
    BY <1>10, <2>1, <2>2 DEF LastFlush, orchVars, genVars, trackVars, reapVars
<1>11. ASSUME NEW old \in SUBSET tracked, SweepBegins(old)
      PROVE  RunTypeOK'
    BY <1>11 DEF SweepBegins, orchVars, genVars, trackVars, recVars
<1>12. ASSUME NEW n \in todo, SweepDelete(n)
      PROVE  RunTypeOK'
    BY <1>12 DEF SweepDelete, orchVars, genVars, recVars
<1>13. ASSUME NEW n \in todo, SweepDeleteFails(n)
      PROVE  RunTypeOK'
    BY <1>13 DEF SweepDeleteFails, orchVars, genVars, trackVars, recVars
<1>14. CASE SweepRemove
    BY <1>14 DEF SweepRemove, orchVars, genVars, recVars
<1>15. CASE SweepEnds
    BY <1>15 DEF SweepEnds, orchVars, genVars, trackVars, recVars
<1>16. CASE FinalCleanupBegins
    BY <1>16 DEF FinalCleanupBegins, orchVars, genVars, trackVars, recVars
<1>17. CASE FinalDelete
    BY <1>17 DEF FinalDelete, orchVars, genVars, recVars
<1>18. CASE FinalDeleteFails
    BY <1>18 DEF FinalDeleteFails, orchVars, genVars, trackVars, recVars
<1>19. CASE ReaperStops
    BY <1>19 DEF ReaperStops, genVars, trackVars, recVars, Subsystems
<1>20. CASE SelectDone
    BY <1>20 DEF SelectDone, genVars, trackVars, recVars, reapVars
<1>21. CASE Drained
    BY <1>21 DEF Drained, genVars, trackVars, recVars, reapVars
<1>22. CASE AllStopped
    BY <1>22 DEF AllStopped, genVars, trackVars, recVars, reapVars
<1>23. CASE ShutdownDeadline
    BY <1>23 DEF ShutdownDeadline, genVars, trackVars, recVars, reapVars
<1>24. CASE CloseRecorder
    BY <1>24 DEF CloseRecorder, genVars, trackVars, recVars, reapVars
<1>25. CASE Generate
    BY <1>25 DEF Generate, genVars, trackVars, recVars, reapVars
<1>26. ASSUME NEW others \in {"none", "degraded", "fail"}, Conclude(others)
      PROVE  RunTypeOK'
    BY <1>26 DEF Conclude, genVars, trackVars, recVars, reapVars
<1>27. ASSUME NEW s \in errCh, SelectError(s)
      PROVE  RunTypeOK'
    BY <1>27 DEF SelectError, genVars, trackVars, recVars, reapVars
<1>28. ASSUME NEW s \in errCh, DrainError(s)
      PROVE  RunTypeOK'
    BY <1>28 DEF DrainError, genVars, trackVars, recVars, reapVars
<1>29. CASE Deadline
    BY <1>29 DEF Deadline, genVars, trackVars, recVars, reapVars
<1>30. CASE Signal
    BY <1>30 DEF Signal, genVars, trackVars, recVars, reapVars
<1>31. ASSUME NEW n \in inflight, Create(n)
      PROVE  RunTypeOK'
    BY <1>31 DEF Create, orchVars, genVars, recVars, reapVars
<1>32. CASE OthersReturn
    BY <1>32 DEF OthersReturn, genVars, trackVars, recVars, reapVars, Subsystems
<1>33. CASE MonitorFails
    BY <1>33 DEF MonitorFails, SendErr, genVars, trackVars, recVars, reapVars, Subsystems
<1>34. CASE UNCHANGED runVars
    BY <1>34 DEF runVars, orchVars, genVars, trackVars, recVars, reapVars
<1> QED
    BY <1>1, <1>2, <1>3, <1>4, <1>5, <1>6, <1>7, <1>8, <1>9, <1>10, <1>11, <1>12, <1>13, <1>14,
       <1>15, <1>16, <1>17, <1>18, <1>19, <1>20, <1>21, <1>22, <1>23, <1>24, <1>25, <1>26,
       <1>27, <1>28, <1>29, <1>30, <1>31, <1>32, <1>33, <1>34
    DEF RunNext, GeneratorStep, WorkerStep, RecorderStep, ReaperStep, OrchestratorStep, Environment

\* What the recorder, the orchestrator and the ends of the other subsystems leave
\* alone.
LEMMA Quiet ==
    ASSUME RecorderStep \/ OrchestratorStep \/ Deadline \/ Signal \/ OthersReturn \/ MonitorFails
    PROVE  UNCHANGED <<genVars, trackVars, reapVars>>
BY DEF RecorderStep, Flush, LastFlush, OrchestratorStep, SelectDone, Drained, AllStopped,
   ShutdownDeadline,
       CloseRecorder, Generate, Conclude, SelectError, DrainError, Deadline, Signal,
          OthersReturn, MonitorFails

\* The generator, the recorder and the reaper leave the orchestrator's record of a
\* stop alone, except for the error of a double fault.
LEMMA OutOfRecord ==
    ASSUME \/ GeneratorStep /\ ~CrewDone
           \/ RecorderStep \/ ReaperStep
           \/ \E w \in Workers : WorkerStep(w)
           \/ Deadline \/ OthersReturn \/ \E n \in inflight : Create(n)
    PROVE  UNCHANGED <<early, signalled, interrupted, errCh, opc, report>>
BY DEF GeneratorStep, StartBatch, Probe, GeneratorStops, RecorderStep, Flush, LastFlush,
   ReaperStep, SweepBegins,
       SweepDelete, SweepDeleteFails, SweepRemove, SweepEnds, FinalCleanupBegins, FinalDelete, FinalDeleteFails,
       ReaperStops, WorkerStep, RateLimited, StartRead, StartCreate, FinishCommand, Deadline,
          OthersReturn, Create,
       orchVars

\* Every step keeps the reason of an early stop: an error leaves the channel by
\* way of interrupted, a signal is looked at when the drain ends.
LEMMA StoppedStep ==
    ASSUME IInv, RunNext
    PROVE  Stopped'
<1> USE DEF IInv, RunTypeOK, Stopped
<1>1. CASE CrewDone
    BY <1>1 DEF CrewDone, SendErr
<1>2. CASE MonitorFails
    BY <1>2 DEF MonitorFails, SendErr
<1>3. CASE Signal
    BY <1>3 DEF Signal
<1>4. CASE SelectDone
    BY <1>4 DEF SelectDone
<1>5. ASSUME NEW s \in errCh, SelectError(s)
      PROVE  Stopped'
    BY <1>5 DEF SelectError
<1>6. ASSUME NEW s \in errCh, DrainError(s)
      PROVE  Stopped'
    BY <1>6 DEF DrainError
<1>7. CASE Drained
    BY <1>7 DEF Drained
<1>8. CASE AllStopped
    BY <1>8 DEF AllStopped
<1>9. CASE ShutdownDeadline
    BY <1>9 DEF ShutdownDeadline
<1>10. CASE CloseRecorder
    BY <1>10 DEF CloseRecorder
<1>11. CASE Generate
    BY <1>11 DEF Generate
<1>12. ASSUME NEW others \in {"none", "degraded", "fail"}, Conclude(others)
      PROVE  Stopped'
  <2>1. early => interrupted
    BY <1>12 DEF Conclude
  <2>2. interrupted => report'.verdict = "FAIL"
    BY <1>12 DEF Conclude, Verdict
  <2> QED
    BY <1>12, <2>1, <2>2 DEF Conclude
<1>13. CASE UNCHANGED <<early, signalled, interrupted, errCh, opc, report>>
    BY <1>13
<1> QED
    BY <1>1, <1>2, <1>3, <1>4, <1>5, <1>6, <1>7, <1>8, <1>9, <1>10, <1>11, <1>12, <1>13, OutOfRecord
    DEF RunNext, GeneratorStep, OrchestratorStep, Environment

\* Every step keeps a double fault inside its batch: it is seen while a worker
\* runs, and wg.Wait ends the generator's loop.
LEMMA FaultedStep ==
    ASSUME IInv, [RunNext]_runVars
    PROVE  Faulted'
<1> USE DEF IInv, RunTypeOK, Faulted
<1>1. ASSUME NEW crew \in SUBSET sc.crew, StartBatch(crew)
      PROVE  Faulted'
    BY <1>1 DEF StartBatch
<1>2. CASE CrewDone
    BY <1>2 DEF CrewDone
<1>3. ASSUME NEW ok \in BOOLEAN, Probe(ok)
      PROVE  Faulted'
    BY <1>3 DEF Probe
<1>4. CASE GeneratorStops
    BY <1>4 DEF GeneratorStops
<1>5. ASSUME NEW w \in Workers, RateLimited(w)
      PROVE  Faulted'
    BY <1>5 DEF RateLimited
<1>6. ASSUME NEW w \in Workers, NEW cat \in {"slo", "other"}, StartRead(w, cat)
      PROVE  Faulted'
    BY <1>6 DEF StartRead
<1>7. ASSUME NEW w \in Workers, NEW kind \in KindSet, StartCreate(w, kind)
      PROVE  Faulted'
    BY <1>7 DEF StartCreate
<1>8. ASSUME NEW w \in Workers, NEW class \in FailureClasses, FinishCommand(w, class)
      PROVE  Faulted'
    BY <1>8 DEF FinishCommand, Tracking, Crew
<1>9. CASE UNCHANGED genVars
    BY <1>9 DEF genVars
<1>10. ReaperStep \/ (\E n \in inflight : Create(n)) => UNCHANGED genVars
    BY DEF ReaperStep, SweepBegins, SweepDelete, SweepDeleteFails, SweepRemove, SweepEnds, FinalCleanupBegins,
           FinalDelete, FinalDeleteFails, ReaperStops, Create
<1> QED
    BY <1>1, <1>2, <1>3, <1>4, <1>5, <1>6, <1>7, <1>8, <1>9, <1>10, Quiet
    DEF RunNext, GeneratorStep, WorkerStep, Environment, runVars

\* A step that is not of the end of the run.
GoesOn ==
    /\ UNCHANGED <<opc, interrupted, report, gpc>>
    /\ returned \subseteq returned' /\ returned' \subseteq Subsystems
    /\ "workload" \in returned' => "workload" \in returned

\* Every step keeps the account of the end of the run: no step is taken after the
\* verdict, and the wait is left only when all have returned or by the deadline.
LEMMA EndedStep ==
    ASSUME IInv, RunNext
    PROVE  Ended'
<1> USE DEF IInv, RunTypeOK, Ended
<1>0. opc # "done"
    BY DEF RunNext
<1>1. ASSUME CrewDone \/ GeneratorStops PROVE Ended'
  <2>1. "workload" \notin returned /\ returned # Subsystems
    BY <1>1 DEF CrewDone, GeneratorStops, Subsystems
  <2>2. UNCHANGED <<opc, interrupted, report>> /\ (gpc' = "returned" \/ returned' = returned)
    BY <1>1 DEF CrewDone, GeneratorStops
  <2> QED
    BY <1>0, <2>1, <2>2
<1>3. ASSUME \/ \E crew \in SUBSET sc.crew : StartBatch(crew)
             \/ \E ok \in BOOLEAN : Probe(ok)
             \/ \E w \in Workers : WorkerStep(w)
      PROVE  Ended'
  <2>1. UNCHANGED orchVars /\ gpc # "returned"
    BY <1>3 DEF StartBatch, Probe, WorkerStep, RateLimited, StartRead, StartCreate,
       FinishCommand, Tracking, Crew
  <2> QED
    BY <1>0, <2>1 DEF orchVars
<1>4. CASE GoesOn
    BY <1>0, <1>4 DEF GoesOn
<1>5. RecorderStep \/ (\E n \in inflight : Create(n)) => GoesOn
    BY DEF RecorderStep, Flush, LastFlush, Create, orchVars, genVars, GoesOn
<1>6. ReaperStep => GoesOn
    BY DEF ReaperStep, SweepBegins, SweepDelete, SweepDeleteFails, SweepRemove, SweepEnds,
       FinalCleanupBegins, FinalDelete, FinalDeleteFails, ReaperStops, Subsystems, orchVars,
       genVars, GoesOn
<1>7. Deadline \/ Signal \/ OthersReturn \/ MonitorFails => GoesOn
    BY DEF Deadline, Signal, OthersReturn, MonitorFails, Subsystems, genVars, GoesOn
<1>8. CASE SelectDone
    BY <1>8 DEF SelectDone, genVars
<1>9. ASSUME NEW s \in errCh, SelectError(s) \/ DrainError(s)
      PROVE  Ended'
    BY <1>9 DEF SelectError, DrainError, genVars
<1>10. CASE Drained
    BY <1>10 DEF Drained, genVars
<1>11. CASE AllStopped
    BY <1>11 DEF AllStopped, genVars
<1>12. CASE ShutdownDeadline
    BY <1>12 DEF ShutdownDeadline, genVars
<1>13. CASE CloseRecorder
    BY <1>13 DEF CloseRecorder, genVars
<1>14. CASE Generate
    BY <1>14 DEF Generate, genVars
<1>15. ASSUME NEW others \in {"none", "degraded", "fail"}, Conclude(others)
      PROVE  Ended'
  <2>1. interrupted \/ returned = Subsystems
    BY <1>15 DEF Conclude
  <2>2. interrupted => report'.verdict = "FAIL"
    BY <1>15 DEF Conclude, Verdict
  <2>3. PICK rows, orphans, verdict :
            report = [rows |-> rows, orphans |-> orphans, verdict |-> verdict]
    OBVIOUS
  <2>4. PICK v : report' = [rows |-> rows, orphans |-> Cardinality(tracked), verdict |-> v]
    <3> DEFINE v == Verdict([report EXCEPT !.orphans = Cardinality(tracked)], interrupted, others)
    <3>1. report' = [[report EXCEPT !.orphans = Cardinality(tracked)] EXCEPT !.verdict = v]
        BY <1>15 DEF Conclude
    <3> HIDE DEF v
    <3>2. report' = [rows |-> rows, orphans |-> Cardinality(tracked), verdict |-> v]
        BY <2>3, <3>1
    <3> QED
        BY <3>2
  <2>5. report'.orphans = Cardinality(tracked') /\ opc' = "done"
    BY <1>15, <2>4 DEF Conclude, trackVars
  <2> QED
    BY <1>15, <2>1, <2>2, <2>4, <2>5 DEF Conclude, genVars
<1> QED
    BY <1>1, <1>3, <1>4, <1>5, <1>6, <1>7, <1>8, <1>9, <1>10, <1>11, <1>12, <1>13, <1>14, <1>15
    DEF RunNext, GeneratorStep, OrchestratorStep, Environment

-----------------------------------------------------------------------------
(* The tracker's books. *)

INSTANCE FiniteSetTheorems

\* The workers that hold a slot are finitely many.
LEMMA HoldersFinite == IsFiniteSet(Holders)
    BY WorkersAssumption, FS_Subset DEF Holders

\* A worker that holds a slot has it counted.
LEMMA HeldIsReserved ==
    ASSUME IInv
    PROVE  \A w \in Workers : HoldsSlot(w) => reserved # 0
BY HoldersFinite, FS_EmptySet DEF IInv, Tracking, SlotAccounting, Holders

\* Every step keeps the tracker's books: a slot is given back by the worker that
\* reserved it, and a name is untracked only when its resource is gone for good.
LEMMA TrackingStep ==
    ASSUME IInv, [RunNext]_runVars
    PROVE  Tracking'
<1> USE DEF IInv, RunTypeOK, Tracking
<1>1. ASSUME NEW crew \in SUBSET sc.crew, StartBatch(crew)
      PROVE  Tracking'
  <2>1. Holders = {} /\ Holders' = {}
    BY <1>1 DEF StartBatch, Idle, Holders, HoldsSlot, Crew
  <2>2. IsFiniteSet(tracked)' /\ SlotAccounting'
    BY <1>1, <2>1 DEF StartBatch, SlotAccounting, Holders, trackVars
  <2>3. Crew' /\ Fresh'
    BY <1>1 DEF StartBatch, Idle, HoldsSlot, Crew, Fresh, trackVars, Names
  <2>4. Sent' /\ CreatedIsTracked'
    BY <1>1, <2>1 DEF StartBatch, Sent, CreatedIsTracked, Holders, trackVars
  <2>5. Swept'
    BY <1>1 DEF StartBatch, Swept, trackVars, reapVars
  <2> QED
    BY <2>2, <2>3, <2>4, <2>5
<1>2. CASE CrewDone
  <2>1. Holders = {} /\ Holders' = {}
    BY <1>2 DEF CrewDone, Idle, Holders, HoldsSlot, Crew
  <2>2. IsFiniteSet(tracked)' /\ SlotAccounting'
    BY <1>2, <2>1 DEF CrewDone, SlotAccounting, Holders, trackVars
  <2>3. Crew' /\ Fresh'
    BY <1>2 DEF CrewDone, Idle, HoldsSlot, Crew, Fresh, trackVars, Names
  <2>4. Sent' /\ CreatedIsTracked'
    BY <1>2, <2>1 DEF CrewDone, Sent, CreatedIsTracked, Holders, trackVars
  <2>5. Swept'
    BY <1>2 DEF CrewDone, Swept, trackVars, reapVars
  <2> QED
    BY <2>2, <2>3, <2>4, <2>5
<1>3. ASSUME NEW ok \in BOOLEAN, Probe(ok)
      PROVE  Tracking'
    BY <1>3 DEF Probe, SlotAccounting, HoldsSlot, Crew, Fresh, Sent, Swept, CreatedIsTracked,
       trackVars, reapVars
<1>4. CASE GeneratorStops
    BY <1>4 DEF GeneratorStops, SlotAccounting, HoldsSlot, Crew, Fresh, Sent, Swept,
       CreatedIsTracked, trackVars, reapVars
<1>5. ASSUME NEW w \in Workers, RateLimited(w)
      PROVE  Tracking'
  <2>1. \A v \in Workers : /\ HoldsSlot(v)' <=> HoldsSlot(v)
                           /\ HoldsSlot(v) => worker'[v] = worker[v]
                           /\ worker[v].pc \in {"idle", "done"} => worker'[v].pc \in {"idle", "done"}
    BY <1>5 DEF RateLimited, Idle, HoldsSlot
  <2>2. Holders' = Holders
    BY <1>5 DEF RateLimited, Idle, Holders, HoldsSlot
  <2>3. IsFiniteSet(tracked)' /\ SlotAccounting'
    BY <1>5, <2>2 DEF RateLimited, SlotAccounting, Holders, trackVars
  <2>4. Crew'
    BY <1>5, <2>1 DEF RateLimited, Crew, HoldsSlot
  <2>5. Fresh'
    BY <1>5, <2>1 DEF RateLimited, Fresh, trackVars, Names
  <2>6. Sent' /\ CreatedIsTracked'
    BY <1>5, <2>1 DEF RateLimited, Sent, CreatedIsTracked, HoldsSlot, trackVars
  <2>7. Swept'
    BY <1>5 DEF RateLimited, Swept, trackVars, reapVars
  <2> QED
    BY <2>3, <2>4, <2>5, <2>6, <2>7
<1>6. ASSUME NEW w \in Workers, NEW cat \in {"slo", "other"}, StartRead(w, cat)
      PROVE  Tracking'
  <2>1. \A v \in Workers : /\ HoldsSlot(v)' <=> HoldsSlot(v)
                           /\ HoldsSlot(v) => worker'[v] = worker[v]
                           /\ worker[v].pc \in {"idle", "done"} => worker'[v].pc \in {"idle", "done"}
    BY <1>6 DEF StartRead, Idle, HoldsSlot
  <2>2. Holders' = Holders
    BY <1>6 DEF StartRead, Idle, Holders, HoldsSlot
  <2>3. IsFiniteSet(tracked)' /\ SlotAccounting'
    BY <1>6, <2>2 DEF StartRead, SlotAccounting, Holders, trackVars
  <2>4. Crew'
    BY <1>6, <2>1 DEF StartRead, Crew, HoldsSlot
  <2>5. Fresh'
    BY <1>6, <2>1 DEF StartRead, Fresh, trackVars, Names
  <2>6. Sent' /\ CreatedIsTracked'
    BY <1>6, <2>1 DEF StartRead, Sent, CreatedIsTracked, HoldsSlot, trackVars
  <2>7. Swept'
    BY <1>6 DEF StartRead, Swept, trackVars, reapVars
  <2> QED
    BY <2>3, <2>4, <2>5, <2>6, <2>7
<1>7. ASSUME NEW w \in Workers, NEW kind \in KindSet, StartCreate(w, kind)
      PROVE  Tracking'
  <2> DEFINE n == <<kind, w, batch>>
  <2>1. n \in Names /\ n # None /\ n[2] = w /\ n[3] = batch /\ gpc = "crew"
    BY <1>7, NoneAssumption DEF StartCreate, Names, Crew
  <2>2. /\ HoldsSlot(w)' /\ ~HoldsSlot(w) /\ worker'[w].name = n
        /\ \A v \in Workers \ {w} : worker'[v] = worker[v]
    BY <1>7, <2>1 DEF StartCreate, HoldsSlot
  <2>3. n \notin tracked
    BY <1>7, <2>1 DEF StartCreate, Fresh
  <2> HIDE DEF n
  <2>4. SlotAccounting' /\ IsFiniteSet(tracked)'
    <3>1. Holders' = Holders \cup {w} /\ w \notin Holders
        BY <2>2 DEF Holders, HoldsSlot
    <3>2. Cardinality(Holders') = Cardinality(Holders) + 1
        BY <3>1, HoldersFinite, FS_AddElement
    <3>3. Cardinality(tracked) \in Nat
        BY FS_CardinalityType
    <3> QED
        BY <1>7, <3>2, <3>3, ResourcesAssumption DEF StartCreate, ReserveSlot, CanReserve,
           SlotAccounting, Holders
  <2>5. Crew'
    BY <1>7, <2>1, <2>2 DEF StartCreate, Crew, HoldsSlot
  <2>6. Fresh'
    BY <1>7, <2>1, <2>2, <2>3 DEF StartCreate, ReserveSlot, Fresh, n, Names
  <2>a. \A v \in Workers : HoldsSlot(v) => HoldsSlot(v)' /\ worker'[v].name = worker[v].name
    BY <2>2 DEF HoldsSlot
  <2>b. /\ inflight' = inflight \cup {n}
        /\ UNCHANGED <<failed, tracked, cluster>>
    BY <1>7 DEF StartCreate, ReserveSlot, n
  <2>7. Sent' /\ CreatedIsTracked'
    BY <2>2, <2>a, <2>b DEF Sent, CreatedIsTracked
  <2>8. Swept'
    BY <1>7 DEF StartCreate, ReserveSlot, Swept, reapVars
  <2> QED
    BY <2>4, <2>5, <2>6, <2>7, <2>8
<1>8. ASSUME NEW w \in Workers, NEW class \in FailureClasses, FinishCommand(w, class)
      PROVE  Tracking'
  <2>1. /\ worker[w].pc = "running" /\ ~HoldsSlot(w)' /\ worker'[w].pc = "done" /\ gpc = "crew"
        /\ \A v \in Workers \ {w} : worker'[v] = worker[v] /\ (HoldsSlot(v)' <=> HoldsSlot(v))
    BY <1>8 DEF FinishCommand, Idle, HoldsSlot, Crew
  <2>2. Crew'
    BY <1>8, <2>1 DEF FinishCommand, Crew
  <2>3. CASE worker[w].name = None
    <3>1. UNCHANGED <<tracked, reserved, failed, inflight>>
        BY <1>8, <2>3 DEF FinishCommand, SettleSlot
    <3>2. ~HoldsSlot(w)
        BY <2>3 DEF HoldsSlot
    <3>3. Holders' = Holders
        BY <2>1, <3>2 DEF Holders
    <3>4. SlotAccounting' /\ IsFiniteSet(tracked)'
        BY <3>1, <3>3 DEF SlotAccounting, Holders
    <3>5. Fresh'
        BY <1>8, <2>1, <3>1 DEF FinishCommand, Fresh, Names
    <3>6. Sent' /\ CreatedIsTracked'
        BY <1>8, <2>1, <3>1, <3>2 DEF FinishCommand, Sent, CreatedIsTracked
    <3>7. Swept'
        BY <1>8, <3>1 DEF FinishCommand, Swept, reapVars
    <3> QED
        BY <2>2, <3>4, <3>5, <3>6, <3>7
  <2>4. CASE worker[w].name # None
    <3> DEFINE n == worker[w].name
    <3>1. HoldsSlot(w) /\ n \in Names /\ n[2] = w /\ n[3] = batch
        BY <2>1, <2>4 DEF HoldsSlot, Crew
    <3>2. n \notin tracked
        BY <2>1, <3>1 DEF Fresh
    <3>3. /\ reserved' = reserved - 1
          /\ \/ tracked' = tracked \cup {n} /\ n \notin inflight /\ UNCHANGED <<failed, inflight>>
             \/ tracked' = tracked /\ failed' = failed \cup {n} /\ inflight' \subseteq inflight
        BY <1>8, <2>4 DEF FinishCommand, SettleSlot, CommitSlot, ReleaseSlot
    <3> HIDE DEF n
    <3>4. Cardinality(Holders') = Cardinality(Holders) - 1
      <4>1. Holders' = Holders \ {w} /\ w \in Holders
        BY <2>1, <3>1 DEF Holders
      <4> QED
        BY <4>1, HoldersFinite, FS_RemoveElement
    <3>5. IsFiniteSet(tracked') /\ Cardinality(tracked') <= Cardinality(tracked) + 1
      <4>1. /\ IsFiniteSet(tracked \cup {n}) /\ Cardinality(tracked) \in Nat
            /\ Cardinality(tracked \cup {n}) = Cardinality(tracked) + 1
        BY <3>2, FS_AddElement, FS_CardinalityType
      <4>2. CASE tracked' = tracked \cup {n}
        BY <4>1, <4>2
      <4>3. CASE tracked' = tracked
        BY <4>1, <4>3
      <4> QED
        BY <3>3, <4>2, <4>3
    <3>6. SlotAccounting'
        BY <3>3, <3>4, <3>5, FS_CardinalityType, HoldersFinite, ResourcesAssumption DEF
           SlotAccounting, Holders
    <3>7. Fresh'
        BY <1>8, <2>1, <3>1, <3>3 DEF FinishCommand, Fresh, Names
    <3>8. Sent' /\ CreatedIsTracked'
        BY <1>8, <2>1, <3>3 DEF FinishCommand, Sent, CreatedIsTracked, n
    <3>9. Swept'
        BY <1>8, <3>3 DEF FinishCommand, Swept, reapVars
    <3> QED
        BY <2>2, <3>5, <3>6, <3>7, <3>8, <3>9
  <2> QED
    BY <2>3, <2>4
<1>9. ASSUME NEW old \in SUBSET tracked, SweepBegins(old)
      PROVE  Tracking'
    BY <1>9 DEF SweepBegins, SlotAccounting, HoldsSlot, Crew, Fresh, Sent, Swept,
       CreatedIsTracked, genVars, trackVars
<1>10. ASSUME NEW n \in todo, SweepDelete(n)
      PROVE  Tracking'
    BY <1>10 DEF SweepDelete, SlotAccounting, Holders, HoldsSlot, Crew, Fresh, Sent, Swept,
       CreatedIsTracked, orchVars, genVars
<1>11. ASSUME NEW n \in todo, SweepDeleteFails(n)
      PROVE  Tracking'
    BY <1>11 DEF SweepDeleteFails, SlotAccounting, HoldsSlot, Crew, Fresh, Sent, Swept,
       CreatedIsTracked, genVars, trackVars
<1>12. CASE SweepRemove
  <2>1. IsFiniteSet(tracked') /\ Cardinality(tracked') <= Cardinality(tracked)
    BY <1>12, FS_Subset DEF SweepRemove
  <2>2. SlotAccounting'
    BY <1>12, <2>1, FS_CardinalityType, ResourcesAssumption DEF SweepRemove, SlotAccounting,
       HoldsSlot, genVars
  <2>3. Crew' /\ Fresh' /\ Sent'
    BY <1>12 DEF SweepRemove, Crew, Fresh, Sent, HoldsSlot, genVars
  <2>4. Swept' /\ CreatedIsTracked'
    BY <1>12 DEF SweepRemove, Swept, CreatedIsTracked, HoldsSlot, genVars
  <2> QED
    BY <2>1, <2>2, <2>3, <2>4
<1>13. CASE SweepEnds
    BY <1>13 DEF SweepEnds, SlotAccounting, HoldsSlot, Crew, Fresh, Sent, Swept,
       CreatedIsTracked, genVars, trackVars
<1>14. CASE FinalCleanupBegins
    BY <1>14 DEF FinalCleanupBegins, SlotAccounting, HoldsSlot, Crew, Fresh, Sent, Swept,
       CreatedIsTracked, genVars, trackVars
<1>15. CASE FinalDelete
    BY <1>15 DEF FinalDelete, SlotAccounting, HoldsSlot, Crew, Fresh, Sent, Swept,
       CreatedIsTracked, genVars
<1>16. CASE FinalDeleteFails
    BY <1>16 DEF FinalDeleteFails, SlotAccounting, HoldsSlot, Crew, Fresh, Sent, Swept,
       CreatedIsTracked, genVars, trackVars
<1>17. CASE ReaperStops
    BY <1>17 DEF ReaperStops, SlotAccounting, HoldsSlot, Crew, Fresh, Sent, Swept,
       CreatedIsTracked, genVars, trackVars
<1>18. ASSUME NEW n \in inflight, Create(n)
      PROVE  Tracking'
  <2>1. IsFiniteSet(tracked)' /\ SlotAccounting'
    BY <1>18 DEF Create, SlotAccounting, HoldsSlot, genVars
  <2>2. Crew' /\ Fresh'
    BY <1>18 DEF Create, Crew, Fresh, HoldsSlot, genVars
  <2>3. Sent' /\ CreatedIsTracked'
    BY <1>18 DEF Create, Sent, CreatedIsTracked, HoldsSlot, genVars
  <2>4. Swept'
    BY <1>18 DEF Create, Swept, Fresh, reapVars
  <2> QED
    BY <2>1, <2>2, <2>3, <2>4
<1>19. CASE UNCHANGED <<genVars, trackVars, reapVars>>
    BY <1>19 DEF SlotAccounting, HoldsSlot, Crew, Fresh, Sent, Swept, CreatedIsTracked, genVars,
       trackVars, reapVars
<1> QED
    BY <1>1, <1>2, <1>3, <1>4, <1>5, <1>6, <1>7, <1>8, <1>9, <1>10, <1>11, <1>12, <1>13, <1>14,
       <1>15, <1>16, <1>17, <1>18, <1>19, Quiet
    DEF RunNext, GeneratorStep, WorkerStep, ReaperStep, Environment, runVars

\* The strengthening is inductive.
THEOREM Inductive == RunSpec => []IInv
<1>1. RunInit => IInv
  <2> SUFFICES ASSUME RunInit PROVE IInv
    OBVIOUS
  <2> USE DEF RunInit
  <2>1. RunTypeOK
    <3>1. /\ testDone \in BOOLEAN /\ signalled \in BOOLEAN /\ interrupted \in BOOLEAN
          /\ doubleFault \in BOOLEAN /\ flushing \in BOOLEAN
        BY Zenon
    <3> QED
        BY <3>1, BoundsAssumption DEF RunTypeOK, Idle, Phases, NoRows
  <2>2. Holders = {}
    BY DEF Holders, HoldsSlot, Idle
  <2>3. IsFiniteSet(tracked) /\ SlotAccounting
    <3>1. IsFiniteSet({}) /\ Cardinality({}) = 0
        BY FS_EmptySet
    <3> QED
        BY <2>2, <3>1, ResourcesAssumption DEF SlotAccounting, Holders
  <2>4. Crew /\ Fresh /\ Sent /\ Swept /\ CreatedIsTracked
    BY DEF Crew, Fresh, Sent, Swept, CreatedIsTracked, HoldsSlot, Idle
  <2>5. Stopped /\ Faulted /\ Ended
    BY DEF Stopped, Faulted, Ended, NoReport
  <2> QED
    BY <2>1, <2>3, <2>4, <2>5 DEF IInv, Tracking
<1>2. IInv /\ [RunNext]_runVars => IInv'
  <2> SUFFICES ASSUME IInv, [RunNext]_runVars PROVE IInv'
    OBVIOUS
  <2>1. Stopped' /\ Ended'
    <3>1. CASE UNCHANGED runVars
        BY <3>1 DEF IInv, Stopped, Ended, runVars, orchVars, genVars, trackVars
    <3> QED
        BY <3>1, StoppedStep, EndedStep
  <2>2. RunTypeOK'
    BY TypeStep, HeldIsReserved
  <2> QED
    BY <2>1, <2>2, TrackingStep, FaultedStep DEF IInv
<1> QED
    BY <1>1, <1>2, PTL DEF RunSpec

\* The types of a run, for every set of scenarios.
THEOREM TypeCorrect == RunSpec => []RunTypeOK
<1>1. IInv => RunTypeOK
    BY DEF IInv
<1> QED
    BY Inductive, <1>1, PTL

\* The tracker's capacity is never exceeded and no slot is lost, however many
\* workers create while the reaper sweeps.
THEOREM SlotsAccounted == RunSpec => []SlotAccounting
<1>1. IInv => SlotAccounting
    BY DEF IInv, Tracking
<1> QED
    BY Inductive, <1>1, PTL

\* No resource whose create succeeded escapes the tracker.
THEOREM NothingUntracked == RunSpec => []CreatedIsTracked
<1>1. IInv => CreatedIsTracked
    BY DEF IInv, Tracking
<1> QED
    BY Inductive, <1>1, PTL

\* A run that is stopped early never ends with a better verdict than FAIL.
THEOREM EarlyStopNeverPasses == RunSpec => []EarlyStopFails
<1>1. IInv => EarlyStopFails
    BY DEF IInv, Stopped, EarlyStopFails
<1> QED
    BY Inductive, <1>1, PTL

\* A verdict better than FAIL is given only on a run whose subsystems have all
\* stopped and whose slots are all settled; if it counts no orphans, the cluster
\* holds nothing but resources whose create kubectl reported as failed.
THEOREM NoFalseVerdict == RunSpec => []CompleteUnlessFailed
<1>1. IInv => CompleteUnlessFailed
  <2> SUFFICES ASSUME IInv, opc = "done", report.verdict # "FAIL"
               PROVE  /\ returned = Subsystems /\ reserved = 0
                      /\ report.orphans = 0 => cluster \subseteq failed
    BY DEF CompleteUnlessFailed
  <2>1. returned = Subsystems /\ gpc = "returned"
    BY DEF IInv, Ended, Subsystems
  <2>2. \A w \in Workers : ~HoldsSlot(w)
    BY <2>1 DEF IInv, Tracking, Crew, HoldsSlot
  <2>3. reserved = 0
    BY <2>2, FS_EmptySet DEF IInv, Tracking, SlotAccounting
  <2>4. ASSUME report.orphans = 0 PROVE tracked = {}
    BY <2>4, FS_EmptySet DEF IInv, Tracking, Ended
  <2>5. report.orphans = 0 => cluster \subseteq failed
    BY <2>2, <2>4 DEF IInv, Tracking, CreatedIsTracked
  <2> QED
    BY <2>1, <2>3, <2>5
<1> QED
    BY Inductive, <1>1, PTL

\* S3: no batch begins after a double fault.
THEOREM NoBatchAfterDoubleFault == RunSpec => DoubleFaultStops
<1>1. IInv /\ [RunNext]_runVars => [doubleFault => batch' = batch]_batch
  <2> SUFFICES ASSUME IInv, [RunNext]_runVars, doubleFault
               PROVE  batch' = batch
    OBVIOUS
  <2>1. ASSUME NEW crew \in SUBSET sc.crew, StartBatch(crew) PROVE FALSE
    BY <2>1 DEF IInv, Faulted, StartBatch
  <2>2. CASE CrewDone \/ GeneratorStops \/ \E ok \in BOOLEAN : Probe(ok)
    BY <2>2 DEF CrewDone, GeneratorStops, Probe
  <2>3. ASSUME NEW w \in Workers, WorkerStep(w) PROVE batch' = batch
    BY <2>3 DEF WorkerStep, RateLimited, StartRead, StartCreate, FinishCommand
  <2>4. CASE ReaperStep \/ \E n \in inflight : Create(n)
    BY <2>4 DEF ReaperStep, SweepBegins, SweepDelete, SweepDeleteFails, SweepRemove, SweepEnds,
       FinalCleanupBegins,
                FinalDelete, FinalDeleteFails, ReaperStops, Create, genVars
  <2> QED
    BY <2>1, <2>2, <2>3, <2>4, Quiet DEF RunNext, GeneratorStep, Environment, runVars, genVars
<1> QED
    BY Inductive, <1>1, PTL DEF RunSpec, DoubleFaultStops
=============================================================================

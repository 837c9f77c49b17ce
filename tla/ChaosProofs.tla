---------------------------- MODULE ChaosProofs ----------------------------
(***************************************************************************)
(* Proofs about Chaos for every exclusion window longer than the           *)
(* watchdog's interval, every set of scenarios and any number of daemons.  *)
(***************************************************************************)
EXTENDS Chaos, TLAPS

\* When the token is not in the file and nothing excuses it, the daemon that serves
\* holds it and its watchdog has not run since the corruption; and no kill is under
\* way.
Repairable ==
    /\ ~excused /\ file # "good" => serving \in token /\ sinceCorrupt <= watch
    /\ \A a \in KillLike : lpc[a] \in {"execute", "measure"} => file = "good" \/ excused

\* The daemon that serves is the youngest; the monitor's PID and the one that
\* delete_socket holds are older or its own, and every restart raised the PID.
Younger ==
    /\ serving \in {0, started} /\ daemonPID <= started /\ oldPID <= started
    /\ lpc["delete_socket"] = "measure" => serving = 0 \/ serving # oldPID
    /\ IF daemonPID = 0 THEN restarts = 0 ELSE restarts < daemonPID

\* What is held is held by the loop that will give it back.
Holding ==
    /\ diskFull => lpc["fill_disk"] = "hold" \/ leftover
    /\ connFull => lpc["fill_connections"] = "hold"
    /\ epc = "stability" => \A a \in Faults : lpc[a] = "none"
    /\ epc = "returned" => \A a \in Faults : lpc[a] \in {"none", "returned"}
    /\ \A a \in Faults \ scenario.faults : lpc[a] = "none"

IInv == ChaosTypeOK /\ Repairable /\ Younger /\ Holding

\* Every step keeps the types; a fault starts with the mutex in hand.
LEMMA TypeStep ==
    ASSUME IInv, [ChaosNext]_chaosVars
    PROVE  ChaosTypeOK'
<1> USE WindowAssumption, BoundsAssumption, ScenariosAssumption DEF IInv, ChaosTypeOK, Pids, Faults
<1>1. CASE StartLoops
    BY <1>1 DEF StartLoops, monVars, daemonVars, resourceVars
<1>2. CASE EngineReturns
    BY <1>2 DEF EngineReturns, monVars, daemonVars, resourceVars
<1>3. ASSUME NEW a \in scenario.faults, IntervalOver(a) PROVE ChaosTypeOK'
    BY <1>3 DEF IntervalOver, Goto, monVars, daemonVars, resourceVars
<1>4. ASSUME NEW a \in scenario.faults, LoopReturns(a) PROVE ChaosTypeOK'
    BY <1>4 DEF LoopReturns, Goto, monVars, daemonVars, resourceVars
<1>5. ASSUME NEW a \in scenario.faults, AwaitCooldown(a) PROVE ChaosTypeOK'
    BY <1>5 DEF AwaitCooldown, Goto, monVars, daemonVars, resourceVars
<1>6. ASSUME NEW a \in scenario.faults, CooldownOver(a) PROVE ChaosTypeOK'
    BY <1>6 DEF CooldownOver, Goto, monVars, daemonVars, resourceVars
<1>7. ASSUME NEW a \in scenario.faults, Begin(a) PROVE ChaosTypeOK'
  <2>1. cool' \in BOOLEAN
    BY <1>7, Zenon DEF Begin
  <2>2. a \in Faults /\ a # "none"
    OBVIOUS
  <2>3. CASE Goto(a, "interval") /\ UNCHANGED held
    BY <1>7, <2>1, <2>2, <2>3 DEF Begin, Goto, monVars, daemonVars, resourceVars
  <2>4. CASE Goto(a, "execute") /\ held' = a
    BY <1>7, <2>1, <2>2, <2>4 DEF Begin, Goto, monVars, daemonVars, resourceVars
  <2> QED
    BY <1>7, <2>3, <2>4 DEF Begin
<1>8. CASE KillNothing
    BY <1>8 DEF KillNothing, Finish, Goto, KillLike, monVars, daemonVars, resourceVars
<1>9. CASE KillDaemon
    BY <1>9 DEF KillDaemon, Dies, Goto, monVars, resourceVars
<1>10. CASE KillMeasured
    BY <1>10 DEF KillMeasured, Finish, Goto, KillLike, monVars, daemonVars, resourceVars
<1>11. CASE ClearIntentional
  <2>1. clearing' \in BOOLEAN /\ intentional' \in BOOLEAN
    BY <1>11, Zenon DEF ClearIntentional
  <2> QED
    BY <1>11, <2>1 DEF ClearIntentional, monVars, daemonVars, resourceVars
<1>12. CASE DeleteNothing
    BY <1>12 DEF DeleteNothing, Finish, Goto, KillLike, monVars, daemonVars, resourceVars
<1>13. CASE DeleteSocket
  <2>1. sockFile' \in BOOLEAN
    BY <1>13, Zenon DEF DeleteSocket
  <2> QED
    BY <1>13, <2>1 DEF DeleteSocket, Goto, monVars, resourceVars
<1>14. CASE KillOrphan
  <2>1. procs' \subseteq procs /\ token' \subseteq procs' /\ serving' \in procs' \cup {0}
    <3>1. CASE Dies(oldPID)
        BY <3>1, Zenon DEF Dies
    <3>2. CASE UNCHANGED <<procs, token, serving>>
        BY <3>2
    <3> QED
        BY <1>14, <3>1, <3>2, Zenon DEF KillOrphan
  <2> QED
    BY <1>14, <2>1 DEF KillOrphan, Finish, Goto, KillLike, monVars, resourceVars
<1>15. ASSUME NEW hit \in BOOLEAN, CorruptTokenFiles(hit) PROVE ChaosTypeOK'
    BY <1>15 DEF CorruptTokenFiles, Finish, Goto, KillLike, monVars, resourceVars
<1>16. CASE FillDisk
    BY <1>16 DEF FillDisk, Goto, monVars, daemonVars
<1>17. ASSUME NEW failed \in BOOLEAN, FreeDisk(failed) PROVE ChaosTypeOK'
  <2>1. diskFull' \in BOOLEAN /\ leftover' \in BOOLEAN
    BY <1>17, Zenon DEF FreeDisk
  <2> QED
    BY <1>17, <2>1 DEF FreeDisk, Finish, Goto, KillLike, monVars, daemonVars
<1>18. CASE FillConnections
    BY <1>18 DEF FillConnections, Goto, monVars, daemonVars
<1>19. CASE ReleaseConnections
  <2>1. connFull' \in BOOLEAN
    BY <1>19, Zenon DEF ReleaseConnections
  <2> QED
    BY <1>19, <2>1 DEF ReleaseConnections, Finish, Goto, KillLike, monVars, daemonVars
<1>20. CASE Restart
    BY <1>20 DEF Restart, loopVars, monVars, resourceVars
<1>21. CASE WatchdogFires
  <2>1. excused' \in BOOLEAN
    BY <1>21, Zenon DEF WatchdogFires
  <2> QED
    BY <1>21, <2>1 DEF WatchdogFires, loopVars, monVars, resourceVars
<1>22. CASE IdleExit
  <2>1. sockFile' \in BOOLEAN /\ excused' \in BOOLEAN
    BY <1>22, Zenon DEF IdleExit
  <2> QED
    BY <1>22, <2>1 DEF IdleExit, Dies, loopVars, monVars, resourceVars
<1>23. ASSUME NEW p \in procs, OrphanSaves(p) PROVE ChaosTypeOK'
    BY <1>23 DEF OrphanSaves, loopVars, monVars, resourceVars
<1>24. ASSUME NEW p \in procs, OrphanExits(p) PROVE ChaosTypeOK'
    BY <1>24 DEF OrphanExits, loopVars, monVars, resourceVars
<1>25. CASE PollFails
    BY <1>25 DEF PollFails, Polls, loopVars, monVars, daemonVars, resourceVars
<1>26. CASE PollSocket
  <2>1. serving \in 1 .. MaxDaemons /\ daemonPID' = serving
    BY <1>26 DEF PollSocket, Responsive, ProcessOnly
  <2>2. restarts' \in Pids
    BY <1>26, <2>1 DEF PollSocket, Younger
  <2> QED
    BY <1>26, <2>1, <2>2 DEF PollSocket, Polls, loopVars, daemonVars, resourceVars
<1>27. ASSUME NEW tooBig \in BOOLEAN, PollProcess(tooBig) PROVE ChaosTypeOK'
    BY <1>27 DEF PollProcess, Polls, loopVars, monVars, daemonVars, resourceVars
<1>28. CASE Tick
    BY <1>28 DEF Tick, monVars, resourceVars
<1>29. CASE EndTest
    BY <1>29 DEF EndTest, loopVars, monVars, daemonVars, resourceVars
<1>30. CASE SetPhase
    BY <1>30 DEF SetPhase, loopVars, monVars, daemonVars, resourceVars
<1>31. CASE LoadToken
  <2>1. file' \in {"good", "corrupt", "none"}
    BY <1>31, Zenon DEF LoadToken
  <2>2. token' \subseteq procs
    BY <1>31, Zenon DEF LoadToken
  <2>3. watch' = 0 \/ watch' = watch
    BY <1>31, Zenon DEF LoadToken
  <2> QED
    BY <1>31, <2>1, <2>2, <2>3 DEF LoadToken, loopVars, monVars, resourceVars
<1>32. CASE UNCHANGED chaosVars
    BY <1>32 DEF chaosVars, loopVars, monVars, daemonVars, resourceVars
<1> QED
    BY <1>1, <1>2, <1>3, <1>4, <1>5, <1>6, <1>7, <1>8, <1>9, <1>10, <1>11, <1>12, <1>13,
       <1>14, <1>15, <1>16, <1>17, <1>18, <1>19, <1>20, <1>21, <1>22, <1>23, <1>24, <1>25,
       <1>26, <1>27, <1>28, <1>29, <1>30, <1>31, <1>32
    DEF ChaosNext, Loop, Execute, Daemon, Monitor

\* S2: a kill begins only when the window has passed, which the watchdog of the
\* serving daemon does not outlast.
LEMMA RepairStep ==
    ASSUME IInv, [ChaosNext]_chaosVars
    PROVE  Repairable'
<1> USE WindowAssumption DEF IInv, ChaosTypeOK, Repairable, Faults, KillLike
<1>1. CASE StartLoops
    BY <1>1 DEF StartLoops, monVars, daemonVars, resourceVars
<1>2. CASE EngineReturns
    BY <1>2 DEF EngineReturns, monVars, daemonVars, resourceVars
<1>3. ASSUME NEW a \in scenario.faults, IntervalOver(a) PROVE Repairable'
    BY <1>3 DEF IntervalOver, Goto, monVars, daemonVars, resourceVars
<1>4. ASSUME NEW a \in scenario.faults, LoopReturns(a) PROVE Repairable'
    BY <1>4 DEF LoopReturns, Goto, monVars, daemonVars, resourceVars
<1>5. ASSUME NEW a \in scenario.faults, AwaitCooldown(a) PROVE Repairable'
    BY <1>5 DEF AwaitCooldown, Goto, monVars, daemonVars, resourceVars
<1>6. ASSUME NEW a \in scenario.faults, CooldownOver(a) PROVE Repairable'
    BY <1>6 DEF CooldownOver, Goto, monVars, daemonVars, resourceVars
<1>7. ASSUME NEW a \in scenario.faults, Begin(a) PROVE Repairable'
    BY <1>7 DEF Begin, Goto, Excluded, KillLike, monVars, daemonVars, resourceVars
<1>8. CASE KillNothing
    BY <1>8 DEF KillNothing, Finish, Goto, KillLike, monVars, daemonVars, resourceVars
<1>9. CASE KillDaemon
    BY <1>9 DEF KillDaemon, Dies, Goto, monVars, resourceVars
<1>10. CASE KillMeasured
    BY <1>10 DEF KillMeasured, Finish, Goto, KillLike, monVars, daemonVars, resourceVars
<1>11. CASE ClearIntentional
    BY <1>11 DEF ClearIntentional, monVars, daemonVars, resourceVars
<1>12. CASE DeleteNothing
    BY <1>12 DEF DeleteNothing, Finish, Goto, KillLike, monVars, daemonVars, resourceVars
<1>13. CASE DeleteSocket
    BY <1>13 DEF DeleteSocket, Goto, monVars, resourceVars
<1>14. CASE KillOrphan
    BY <1>14 DEF KillOrphan, Finish, Goto, Dies, KillLike, monVars, resourceVars
<1>15. ASSUME NEW hit \in BOOLEAN, CorruptTokenFiles(hit) PROVE Repairable'
    BY <1>15 DEF CorruptTokenFiles, Finish, Goto, KillLike, monVars, resourceVars
<1>16. CASE FillDisk
    BY <1>16 DEF FillDisk, Goto, monVars, daemonVars
<1>17. ASSUME NEW failed \in BOOLEAN, FreeDisk(failed) PROVE Repairable'
    BY <1>17 DEF FreeDisk, Finish, Goto, KillLike, monVars, daemonVars
<1>18. CASE FillConnections
    BY <1>18 DEF FillConnections, Goto, monVars, daemonVars
<1>19. CASE ReleaseConnections
    BY <1>19 DEF ReleaseConnections, Finish, Goto, KillLike, monVars, daemonVars
<1>20. CASE Restart
    BY <1>20 DEF Restart, loopVars, monVars, resourceVars
<1>21. CASE WatchdogFires
    BY <1>21 DEF WatchdogFires, loopVars, monVars, resourceVars
<1>22. CASE IdleExit
    BY <1>22 DEF IdleExit, Dies, loopVars, monVars, resourceVars
<1>23. ASSUME NEW p \in procs, OrphanSaves(p) PROVE Repairable'
    BY <1>23 DEF OrphanSaves, loopVars, monVars, resourceVars
<1>24. ASSUME NEW p \in procs, OrphanExits(p) PROVE Repairable'
    BY <1>24 DEF OrphanExits, loopVars, monVars, resourceVars
<1>25. CASE PollFails
    BY <1>25 DEF PollFails, Polls, loopVars, monVars, daemonVars, resourceVars
<1>26. CASE PollSocket
    BY <1>26 DEF PollSocket, Polls, Responsive, ProcessOnly, loopVars, monVars, daemonVars, resourceVars
<1>27. ASSUME NEW tooBig \in BOOLEAN, PollProcess(tooBig) PROVE Repairable'
    BY <1>27 DEF PollProcess, Polls, loopVars, monVars, daemonVars, resourceVars
<1>28. CASE Tick
    BY <1>28 DEF Tick, monVars, resourceVars
<1>29. CASE EndTest
    BY <1>29 DEF EndTest, loopVars, monVars, daemonVars, resourceVars
<1>30. CASE SetPhase
    BY <1>30 DEF SetPhase, loopVars, monVars, daemonVars, resourceVars
<1>31. CASE LoadToken
    BY <1>31 DEF LoadToken, loopVars, monVars, resourceVars
<1>32. CASE UNCHANGED chaosVars
    BY <1>32 DEF chaosVars, loopVars, monVars, daemonVars, resourceVars
<1> QED
    BY <1>1, <1>2, <1>3, <1>4, <1>5, <1>6, <1>7, <1>8, <1>9, <1>10, <1>11, <1>12, <1>13,
       <1>14, <1>15, <1>16, <1>17, <1>18, <1>19, <1>20, <1>21, <1>22, <1>23, <1>24, <1>25,
       <1>26, <1>27, <1>28, <1>29, <1>30, <1>31, <1>32
    DEF ChaosNext, Loop, Execute, Daemon, Monitor

\* A daemon that starts is younger than every PID on record.
LEMMA YoungerStep ==
    ASSUME IInv, [ChaosNext]_chaosVars
    PROVE  Younger'
<1> USE BoundsAssumption DEF IInv, ChaosTypeOK, Younger, Pids, Faults
<1>1. CASE StartLoops
    BY <1>1 DEF StartLoops, monVars, daemonVars, resourceVars
<1>2. CASE EngineReturns
    BY <1>2 DEF EngineReturns, monVars, daemonVars, resourceVars
<1>3. ASSUME NEW a \in scenario.faults, IntervalOver(a) PROVE Younger'
    BY <1>3 DEF IntervalOver, Goto, monVars, daemonVars, resourceVars
<1>4. ASSUME NEW a \in scenario.faults, LoopReturns(a) PROVE Younger'
    BY <1>4 DEF LoopReturns, Goto, monVars, daemonVars, resourceVars
<1>5. ASSUME NEW a \in scenario.faults, AwaitCooldown(a) PROVE Younger'
    BY <1>5 DEF AwaitCooldown, Goto, monVars, daemonVars, resourceVars
<1>6. ASSUME NEW a \in scenario.faults, CooldownOver(a) PROVE Younger'
    BY <1>6 DEF CooldownOver, Goto, monVars, daemonVars, resourceVars
<1>7. ASSUME NEW a \in scenario.faults, Begin(a) PROVE Younger'
    BY <1>7 DEF Begin, Goto, Excluded, KillLike, monVars, daemonVars, resourceVars
<1>8. CASE KillNothing
    BY <1>8 DEF KillNothing, Finish, Goto, KillLike, monVars, daemonVars, resourceVars
<1>9. CASE KillDaemon
    BY <1>9 DEF KillDaemon, Dies, Goto, monVars, resourceVars
<1>10. CASE KillMeasured
    BY <1>10 DEF KillMeasured, Finish, Goto, KillLike, monVars, daemonVars, resourceVars
<1>11. CASE ClearIntentional
    BY <1>11 DEF ClearIntentional, monVars, daemonVars, resourceVars
<1>12. CASE DeleteNothing
    BY <1>12 DEF DeleteNothing, Finish, Goto, KillLike, monVars, daemonVars, resourceVars
<1>13. CASE DeleteSocket
    BY <1>13 DEF DeleteSocket, Goto, monVars, resourceVars
<1>14. CASE KillOrphan
    BY <1>14 DEF KillOrphan, Finish, Goto, Dies, KillLike, monVars, resourceVars
<1>15. ASSUME NEW hit \in BOOLEAN, CorruptTokenFiles(hit) PROVE Younger'
    BY <1>15 DEF CorruptTokenFiles, Finish, Goto, KillLike, monVars, resourceVars
<1>16. CASE FillDisk
    BY <1>16 DEF FillDisk, Goto, monVars, daemonVars
<1>17. ASSUME NEW failed \in BOOLEAN, FreeDisk(failed) PROVE Younger'
    BY <1>17 DEF FreeDisk, Finish, Goto, KillLike, monVars, daemonVars
<1>18. CASE FillConnections
    BY <1>18 DEF FillConnections, Goto, monVars, daemonVars
<1>19. CASE ReleaseConnections
    BY <1>19 DEF ReleaseConnections, Finish, Goto, KillLike, monVars, daemonVars
<1>20. CASE Restart
    BY <1>20 DEF Restart, loopVars, monVars, resourceVars
<1>21. CASE WatchdogFires
    BY <1>21 DEF WatchdogFires, loopVars, monVars, resourceVars
<1>22. CASE IdleExit
    BY <1>22 DEF IdleExit, Dies, loopVars, monVars, resourceVars
<1>23. ASSUME NEW p \in procs, OrphanSaves(p) PROVE Younger'
    BY <1>23 DEF OrphanSaves, loopVars, monVars, resourceVars
<1>24. ASSUME NEW p \in procs, OrphanExits(p) PROVE Younger'
    BY <1>24 DEF OrphanExits, loopVars, monVars, resourceVars
<1>25. CASE PollFails
    BY <1>25 DEF PollFails, Polls, loopVars, monVars, daemonVars, resourceVars
<1>26. CASE PollSocket
    BY <1>26 DEF PollSocket, Polls, Responsive, ProcessOnly, loopVars, monVars, daemonVars, resourceVars
<1>27. ASSUME NEW tooBig \in BOOLEAN, PollProcess(tooBig) PROVE Younger'
    BY <1>27 DEF PollProcess, Polls, loopVars, monVars, daemonVars, resourceVars
<1>28. CASE Tick
    BY <1>28 DEF Tick, monVars, resourceVars
<1>29. CASE EndTest
    BY <1>29 DEF EndTest, loopVars, monVars, daemonVars, resourceVars
<1>30. CASE SetPhase
    BY <1>30 DEF SetPhase, loopVars, monVars, daemonVars, resourceVars
<1>31. CASE LoadToken
    BY <1>31 DEF LoadToken, loopVars, monVars, resourceVars
<1>32. CASE UNCHANGED chaosVars
    BY <1>32 DEF chaosVars, loopVars, monVars, daemonVars, resourceVars
<1> QED
    BY <1>1, <1>2, <1>3, <1>4, <1>5, <1>6, <1>7, <1>8, <1>9, <1>10, <1>11, <1>12, <1>13,
       <1>14, <1>15, <1>16, <1>17, <1>18, <1>19, <1>20, <1>21, <1>22, <1>23, <1>24, <1>25,
       <1>26, <1>27, <1>28, <1>29, <1>30, <1>31, <1>32
    DEF ChaosNext, Loop, Execute, Daemon, Monitor

\* The loop that fills the disk or the connections leaves hold by emptying them.
LEMMA HoldingStep ==
    ASSUME IInv, [ChaosNext]_chaosVars
    PROVE  Holding'
<1> USE ScenariosAssumption DEF IInv, ChaosTypeOK, Holding, Faults
<1>1. CASE StartLoops
    BY <1>1 DEF StartLoops, monVars, daemonVars, resourceVars
<1>2. CASE EngineReturns
    BY <1>2 DEF EngineReturns, monVars, daemonVars, resourceVars
<1>3. ASSUME NEW a \in scenario.faults, IntervalOver(a) PROVE Holding'
    BY <1>3 DEF IntervalOver, Goto, monVars, daemonVars, resourceVars
<1>4. ASSUME NEW a \in scenario.faults, LoopReturns(a) PROVE Holding'
    BY <1>4 DEF LoopReturns, Goto, monVars, daemonVars, resourceVars
<1>5. ASSUME NEW a \in scenario.faults, AwaitCooldown(a) PROVE Holding'
    BY <1>5 DEF AwaitCooldown, Goto, monVars, daemonVars, resourceVars
<1>6. ASSUME NEW a \in scenario.faults, CooldownOver(a) PROVE Holding'
    BY <1>6 DEF CooldownOver, Goto, monVars, daemonVars, resourceVars
<1>7. ASSUME NEW a \in scenario.faults, Begin(a) PROVE Holding'
    BY <1>7 DEF Begin, Goto, Excluded, KillLike, monVars, daemonVars, resourceVars
<1>8. CASE KillNothing
    BY <1>8 DEF KillNothing, Finish, Goto, KillLike, monVars, daemonVars, resourceVars
<1>9. CASE KillDaemon
    BY <1>9 DEF KillDaemon, Dies, Goto, monVars, resourceVars
<1>10. CASE KillMeasured
    BY <1>10 DEF KillMeasured, Finish, Goto, KillLike, monVars, daemonVars, resourceVars
<1>11. CASE ClearIntentional
    BY <1>11 DEF ClearIntentional, monVars, daemonVars, resourceVars
<1>12. CASE DeleteNothing
    BY <1>12 DEF DeleteNothing, Finish, Goto, KillLike, monVars, daemonVars, resourceVars
<1>13. CASE DeleteSocket
    BY <1>13 DEF DeleteSocket, Goto, monVars, resourceVars
<1>14. CASE KillOrphan
    BY <1>14 DEF KillOrphan, Finish, Goto, Dies, KillLike, monVars, resourceVars
<1>15. ASSUME NEW hit \in BOOLEAN, CorruptTokenFiles(hit) PROVE Holding'
    BY <1>15 DEF CorruptTokenFiles, Finish, Goto, KillLike, monVars, resourceVars
<1>16. CASE FillDisk
    BY <1>16 DEF FillDisk, Goto, monVars, daemonVars
<1>17. ASSUME NEW failed \in BOOLEAN, FreeDisk(failed) PROVE Holding'
    BY <1>17 DEF FreeDisk, Finish, Goto, KillLike, monVars, daemonVars
<1>18. CASE FillConnections
    BY <1>18 DEF FillConnections, Goto, monVars, daemonVars
<1>19. CASE ReleaseConnections
    BY <1>19 DEF ReleaseConnections, Finish, Goto, KillLike, monVars, daemonVars
<1>20. CASE Restart
    BY <1>20 DEF Restart, loopVars, monVars, resourceVars
<1>21. CASE WatchdogFires
    BY <1>21 DEF WatchdogFires, loopVars, monVars, resourceVars
<1>22. CASE IdleExit
    BY <1>22 DEF IdleExit, Dies, loopVars, monVars, resourceVars
<1>23. ASSUME NEW p \in procs, OrphanSaves(p) PROVE Holding'
    BY <1>23 DEF OrphanSaves, loopVars, monVars, resourceVars
<1>24. ASSUME NEW p \in procs, OrphanExits(p) PROVE Holding'
    BY <1>24 DEF OrphanExits, loopVars, monVars, resourceVars
<1>25. CASE PollFails
    BY <1>25 DEF PollFails, Polls, loopVars, monVars, daemonVars, resourceVars
<1>26. CASE PollSocket
    BY <1>26 DEF PollSocket, Polls, Responsive, ProcessOnly, loopVars, monVars, daemonVars, resourceVars
<1>27. ASSUME NEW tooBig \in BOOLEAN, PollProcess(tooBig) PROVE Holding'
    BY <1>27 DEF PollProcess, Polls, loopVars, monVars, daemonVars, resourceVars
<1>28. CASE Tick
    BY <1>28 DEF Tick, monVars, resourceVars
<1>29. CASE EndTest
    BY <1>29 DEF EndTest, loopVars, monVars, daemonVars, resourceVars
<1>30. CASE SetPhase
    BY <1>30 DEF SetPhase, loopVars, monVars, daemonVars, resourceVars
<1>31. CASE LoadToken
    BY <1>31 DEF LoadToken, loopVars, monVars, resourceVars
<1>32. CASE UNCHANGED chaosVars
    BY <1>32 DEF chaosVars, loopVars, monVars, daemonVars, resourceVars
<1> QED
    BY <1>1, <1>2, <1>3, <1>4, <1>5, <1>6, <1>7, <1>8, <1>9, <1>10, <1>11, <1>12, <1>13,
       <1>14, <1>15, <1>16, <1>17, <1>18, <1>19, <1>20, <1>21, <1>22, <1>23, <1>24, <1>25,
       <1>26, <1>27, <1>28, <1>29, <1>30, <1>31, <1>32
    DEF ChaosNext, Loop, Execute, Daemon, Monitor

\* The strengthening is inductive.
THEOREM Inductive == ChaosSpec => []IInv
<1>1. ChaosInit => IInv
  <2> SUFFICES ASSUME ChaosInit PROVE IInv
    OBVIOUS
  <2> USE DEF ChaosInit
  <2>1. ChaosTypeOK
    <3>1. /\ testDone \in BOOLEAN /\ quiescent \in BOOLEAN /\ cool \in BOOLEAN
          /\ intentional \in BOOLEAN /\ clearing \in BOOLEAN /\ diskFull \in BOOLEAN
          /\ leftover \in BOOLEAN /\ connFull \in BOOLEAN /\ sockFile \in BOOLEAN /\ excused \in BOOLEAN
        BY Zenon
    <3> QED
        BY <3>1, WindowAssumption, BoundsAssumption DEF ChaosTypeOK, Pids, Faults
  <2>2. Repairable
    BY DEF Repairable, KillLike, Faults
  <2>3. Younger
    BY DEF Younger, Faults
  <2>4. Holding
    BY DEF Holding, Faults
  <2> QED
    BY <2>1, <2>2, <2>3, <2>4 DEF IInv
<1>2. IInv /\ [ChaosNext]_chaosVars => IInv'
    BY TypeStep, RepairStep, YoungerStep, HoldingStep DEF IInv
<1> QED
    BY <1>1, <1>2, PTL DEF ChaosSpec

\* The types of engine, monitor and daemon, and a fault never runs without the
\* mutex.
THEOREM TypeCorrect == ChaosSpec => []ChaosTypeOK
<1>1. IInv => ChaosTypeOK
    BY DEF IInv
<1> QED
    BY Inductive, <1>1, PTL

\* For every window longer than the watchdog's interval, no kill and no socket
\* deletion costs the token because the file was corrupt.
THEOREM ExclusionWindowSuffices == ChaosSpec => []TokenSurvives
<1>1. IInv => TokenSurvives
    BY DEF IInv, Repairable, TokenSurvives
<1> QED
    BY Inductive, <1>1, PTL

\* Whenever the engine returns, the connections are free, and so is the disk unless
\* a fill file could not be removed.
THEOREM EngineUndoesFaults == ChaosSpec => []FaultsUndone
<1>1. IInv => FaultsUndone
    BY DEF IInv, Holding, FaultsUndone, Faults
<1> QED
    BY Inductive, <1>1, PTL

\* The monitor counts only restarts that happened.
THEOREM MonitorCountsRestarts == ChaosSpec => []RestartsReal
<1>1. IInv => RestartsReal
    BY BoundsAssumption DEF IInv, Younger, ChaosTypeOK, Pids, RestartsReal
<1> QED
    BY Inductive, <1>1, PTL

\* The kill that ends delete_socket never hits the daemon that serves.
THEOREM OrphanKilledOnly == ChaosSpec => OrphanOnly
<1> DEFINE Spares == lpc["delete_socket"] = "measure" /\ lpc'["delete_socket"] = "interval" => serving' = serving
<1>1. IInv /\ [ChaosNext]_chaosVars => [Spares]_chaosVars
  <2> SUFFICES ASSUME IInv, ChaosNext, lpc["delete_socket"] = "measure", lpc'["delete_socket"] = "interval"
               PROVE  serving' = serving
    OBVIOUS
  <2> USE DEF IInv, ChaosTypeOK, Faults
  <2>1. CASE KillOrphan
    BY <2>1 DEF KillOrphan, Dies, Younger
  <2>2. CASE UNCHANGED daemonVars
    BY <2>2 DEF daemonVars
  <2>3. CASE UNCHANGED lpc
    BY <2>3
  <2>4. CASE UNCHANGED loopVars
    BY <2>4 DEF loopVars
  <2>5. CASE KillDaemon
    BY <2>5 DEF KillDaemon, Goto
  <2>6. CASE DeleteSocket
    BY <2>6 DEF DeleteSocket, Goto
  <2>7. ASSUME NEW hit \in BOOLEAN, CorruptTokenFiles(hit) PROVE serving' = serving
    BY <2>7 DEF CorruptTokenFiles
  <2>8. ASSUME NEW a \in scenario.faults, Loop(a) PROVE UNCHANGED daemonVars
    BY <2>8 DEF Loop, IntervalOver, LoopReturns, AwaitCooldown, CooldownOver, Begin
  <2>9. CASE Execute
    BY <2>1, <2>2, <2>5, <2>6, <2>7, <2>9
    DEF Execute, KillNothing, KillMeasured, DeleteNothing, FillDisk, FreeDisk, FillConnections,
        ReleaseConnections
  <2>10. CASE Daemon \/ Monitor
    BY <2>4, <2>10
    DEF Daemon, Restart, LoadToken, WatchdogFires, IdleExit, OrphanSaves, OrphanExits, Monitor, PollFails, PollSocket,
        PollProcess
  <2> QED
    BY <2>2, <2>3, <2>8, <2>9, <2>10
    DEF ChaosNext, StartLoops, EngineReturns, ClearIntentional, Tick, EndTest, SetPhase
<1> QED
    BY Inductive, <1>1, PTL DEF ChaosSpec, OrphanOnly
=============================================================================

------------------------------- MODULE Chaos -------------------------------
(***************************************************************************)
(* The fault injection of the stress test (stresstest/internal/chaos) and  *)
(* its health monitor (stresstest/internal/health), around the daemon they *)
(* disturb and observe.                                                    *)
(*                                                                         *)
(* Each enabled fault has a loop; the loops share a mutex, a cooldown and  *)
(* the exclusion window S2 between corrupting the token file and killing   *)
(* the daemon.  The daemon appears as what the engine can do to it: its    *)
(* processes, the one that serves the socket, the token in their memory    *)
(* and the token file, which a watchdog rewrites (TokenManager.tla); how a *)
(* daemon starts is the subject of DaemonLifecycle.tla.  Time is counted   *)
(* in steps of Tick where S2 depends on it and is left open everywhere     *)
(* else.  Unix: delete_socket removes the socket file.                     *)
(***************************************************************************)
EXTENDS Integers, FiniteSets

CONSTANTS
    Scenarios,     \* the configurations explored, see ScenariosAssumption
    Window,        \* exclusionWindow (6 minutes in the code)
    Watchdog,      \* persistInterval of the daemon (5 minutes)
    MaxDaemons     \* bound on the daemon processes started

Faults == {"kill_daemon", "delete_socket", "corrupt_token_files", "fill_connections", "fill_disk"}

ASSUME WindowAssumption ==
    /\ Watchdog \in Nat \ {0} /\ Window \in Nat /\ Watchdog < Window
ASSUME BoundsAssumption == MaxDaemons \in Nat \ {0}

\* faults: the enabled ones; phases: the workload has quiescent phases;
\* idleAware: IdleAwareProbing; exit: the failed polls that exceed ExitThreshold,
\* 0 if it is not set.
ASSUME ScenariosAssumption ==
    Scenarios \subseteq [faults : SUBSET Faults, phases : BOOLEAN, idleAware : BOOLEAN, exit : Nat]

VARIABLES
    testDone,      \* testCtx is done
    quiescent,     \* the workload phase the monitor was told
    scenario,      \* the configuration of this run
    epc,           \* where Engine.Run stands
    lpc,           \* where each chaosLoop stands
    held,          \* the loop that holds e.mu, "none" if free
    cool,          \* GlobalCooldown has passed since lastChaosTime
    sinceCorrupt,  \* time since lastCorruptTime, at most Window
    sinceKill,     \* time since lastKillTime, at most Window
    oldPID,        \* the PID delete_socket loaded before it removed the socket
    intentional,   \* o.intentionalKill
    clearing,      \* an AfterFunc that clears it is pending
    daemonPID,     \* o.daemonPID, 0 if unknown
    restarts,      \* o.daemonRestarts
    failures,      \* consecutiveFailures of the monitor
    mpc,           \* where Monitor.Run stands
    serving,       \* the daemon behind the socket, 0 if there is none
    procs,         \* the daemon processes that live
    token,         \* the processes that hold the token in memory
    started,       \* daemon processes started so far
    watch,         \* time since the watchdog of the serving daemon ran, or began
    file,          \* the token file: "good", "corrupt" or "none"
    diskFull,      \* writes fail
    leftover,      \* history: a fill file could not be removed
    connFull,      \* the daemon's connections are exhausted
    sockFile,      \* the socket file exists
    excused        \* history: an event outside S2 kept the watchdog from repairing the file

loopVars == <<epc, lpc, held, cool, sinceCorrupt, sinceKill, oldPID, clearing>>
monVars == <<restarts, failures, mpc>>
daemonVars == <<serving, procs, token, started, watch, file, sockFile, excused>>
resourceVars == <<diskFull, leftover, connFull>>
chaosVars == <<testDone, quiescent, scenario, loopVars, intentional, daemonPID, monVars,
               daemonVars, resourceVars>>

\* cleanStaleFillFiles and probeDaemon have run: the disk is free, and the PID of
\* a running daemon is known unless its nonce could not be read.
ChaosInit ==
    /\ testDone = FALSE /\ quiescent = FALSE /\ scenario \in Scenarios
    /\ epc = "stability" /\ lpc = [a \in Faults |-> "none"] /\ held = "none" /\ cool = TRUE
    /\ sinceCorrupt = Window /\ sinceKill = Window /\ oldPID = 0
    /\ intentional = FALSE /\ clearing = FALSE
    /\ daemonPID \in {0, 1} /\ restarts = 0 /\ failures = 0 /\ mpc = "run"
    /\ serving = 1 /\ procs = {1} /\ token = {1} /\ started = 1 /\ watch = 0 /\ file = "good"
    /\ diskFull = FALSE /\ leftover = FALSE /\ connFull = FALSE /\ sockFile = TRUE /\ excused = FALSE

Goto(a, l) == lpc' = [lpc EXCEPT ![a] = l]

-----------------------------------------------------------------------------
(***************************************************************************)
(* Engine.Run and chaosLoop.                                               *)
(***************************************************************************)

\* InitialStabilityPeriod is over: one loop for every enabled fault.
StartLoops ==
    /\ epc = "stability" /\ ~testDone /\ scenario.faults # {}
    /\ epc' = "loops"
    /\ lpc' = [a \in Faults |-> IF a \in scenario.faults THEN "interval" ELSE "none"]
    /\ UNCHANGED <<testDone, quiescent, scenario, held, cool, sinceCorrupt, sinceKill, oldPID, clearing,
                   intentional, daemonPID, monVars, daemonVars, resourceVars>>

\* The context ends the stability period, or wg.Wait has seen every loop return.
EngineReturns ==
    /\ \/ epc = "stability" /\ testDone
       \/ epc = "loops" /\ \A a \in scenario.faults : lpc[a] = "returned"
    /\ epc' = "returned"
    /\ UNCHANGED <<testDone, quiescent, scenario, lpc, held, cool, sinceCorrupt, sinceKill, oldPID, clearing,
                   intentional, daemonPID, monVars, daemonVars, resourceVars>>

\* The interval is over before the context is done (both at once is one or the
\* other).  That of kill_daemon is far longer than the 5s after which AfterFunc
\* clears intentionalKill.
IntervalOver(a) ==
    /\ lpc[a] = "interval" /\ ~testDone
    /\ a = "kill_daemon" => ~clearing
    /\ Goto(a, "lock")
    /\ UNCHANGED <<testDone, quiescent, scenario, epc, held, cool, sinceCorrupt, sinceKill, oldPID, clearing,
                   intentional, daemonPID, monVars, daemonVars, resourceVars>>

\* The two selects that watch the context.
LoopReturns(a) ==
    /\ lpc[a] \in {"interval", "cooldown"} /\ testDone
    /\ Goto(a, "returned")
    /\ UNCHANGED <<testDone, quiescent, scenario, epc, held, cool, sinceCorrupt, sinceKill, oldPID, clearing,
                   intentional, daemonPID, monVars, daemonVars, resourceVars>>

\* Mutant: the mutex is kept for the rest of the cooldown, and taken again.
AwaitLocked(a) ==
    /\ lpc[a] = "lock" /\ held = "none" /\ ~cool
    /\ Goto(a, "cooldown") /\ held' = a
    /\ UNCHANGED <<testDone, quiescent, scenario, epc, cool, sinceCorrupt, sinceKill, oldPID, clearing,
                   intentional, daemonPID, monVars, daemonVars, resourceVars>>

\* Within the cooldown the mutex is given back for the rest of it.
AwaitCooldown(a) ==
    /\ lpc[a] = "lock" /\ held = "none" /\ ~cool
    /\ Goto(a, "cooldown")
    /\ UNCHANGED <<testDone, quiescent, scenario, epc, held, cool, sinceCorrupt, sinceKill, oldPID, clearing,
                   intentional, daemonPID, monVars, daemonVars, resourceVars>>

CooldownOver(a) ==
    /\ lpc[a] = "cooldown" /\ ~testDone
    /\ Goto(a, "relock")
    /\ UNCHANGED <<testDone, quiescent, scenario, epc, held, cool, sinceCorrupt, sinceKill, oldPID, clearing,
                   intentional, daemonPID, monVars, daemonVars, resourceVars>>

KillLike == {"kill_daemon", "delete_socket"}

\* Mutant: the window is compared with the watchdog's interval.
ExcludedTooShort(a) ==
    \/ a \in KillLike /\ sinceCorrupt < Watchdog
    \/ a = "corrupt_token_files" /\ sinceKill < Window

\* S2: no kill or socket deletion within the window of a corruption, and no
\* corruption within the window of one of those.
Excluded(a) ==
    \/ a \in KillLike /\ sinceCorrupt < Window
    \/ a = "corrupt_token_files" /\ sinceKill < Window

\* The mutex is held and the cooldown is over, or was waited for once.
Begin(a) ==
    /\ \/ lpc[a] = "lock" /\ cool
       \/ lpc[a] = "relock"
    /\ held = "none"
    /\ cool' = FALSE
    /\ IF Excluded(a) THEN Goto(a, "interval") /\ UNCHANGED held
                      ELSE Goto(a, "execute") /\ held' = a
    /\ UNCHANGED <<testDone, quiescent, scenario, epc, sinceCorrupt, sinceKill, oldPID, clearing,
                   intentional, daemonPID, monVars, daemonVars, resourceVars>>

\* execute has returned: the time is recorded and the mutex given back.
Finish(a) ==
    /\ Goto(a, "interval") /\ held' = "none" /\ oldPID' = 0
    /\ sinceCorrupt' = IF a = "corrupt_token_files" THEN 0 ELSE sinceCorrupt
    /\ sinceKill' = IF a \in KillLike THEN 0 ELSE sinceKill
    /\ UNCHANGED <<epc, cool>>

-----------------------------------------------------------------------------
(***************************************************************************)
(* The faults.                                                             *)
(***************************************************************************)

\* A process is gone; the socket of a killed daemon refuses connections.
Dies(p) ==
    /\ procs' = procs \ {p} /\ token' = token \ {p}
    /\ serving' = IF serving = p THEN 0 ELSE serving

\* killDaemon, with a PID that is unknown or no longer alive.
KillNothing ==
    /\ lpc["kill_daemon"] = "execute" /\ daemonPID \notin procs
    /\ Finish("kill_daemon")
    /\ intentional' = (intentional \/ daemonPID # 0) /\ clearing' = (clearing \/ daemonPID # 0)
    /\ UNCHANGED <<testDone, quiescent, scenario, daemonPID, monVars, daemonVars, resourceVars>>

KillDaemon ==
    /\ lpc["kill_daemon"] = "execute" /\ daemonPID \in procs
    /\ intentional' = TRUE
    /\ Dies(daemonPID)
    /\ Goto("kill_daemon", "measure")
    /\ UNCHANGED <<testDone, quiescent, scenario, epc, held, cool, sinceCorrupt, sinceKill, oldPID, clearing,
                   daemonPID, monVars, started, watch, file, sockFile, excused, resourceVars>>

\* The socket accepts connections again, 30s are over, or the context is done.
KillMeasured ==
    /\ lpc["kill_daemon"] = "measure"
    /\ Finish("kill_daemon") /\ clearing' = TRUE
    /\ UNCHANGED <<testDone, quiescent, scenario, intentional, daemonPID, monVars, daemonVars, resourceVars>>

ClearIntentional ==
    /\ clearing
    /\ clearing' = FALSE /\ intentional' = FALSE
    /\ UNCHANGED <<testDone, quiescent, scenario, epc, lpc, held, cool, sinceCorrupt, sinceKill, oldPID,
                   daemonPID, monVars, daemonVars, resourceVars>>

\* deleteSocketUnix finds no socket.
DeleteNothing ==
    /\ lpc["delete_socket"] = "execute" /\ ~sockFile
    /\ Finish("delete_socket")
    /\ UNCHANGED <<testDone, quiescent, scenario, clearing, intentional, daemonPID, monVars, daemonVars, resourceVars>>

\* The daemon lives on behind a socket that nobody can find; a killed one has
\* left its file behind.
DeleteSocket ==
    /\ lpc["delete_socket"] = "execute" /\ sockFile
    /\ oldPID' = daemonPID
    /\ serving' = 0 /\ sockFile' = FALSE
    /\ Goto("delete_socket", "measure")
    /\ UNCHANGED <<testDone, quiescent, scenario, epc, held, cool, sinceCorrupt, sinceKill, clearing,
                   intentional, daemonPID, monVars, procs, token, started, watch, file, excused, resourceVars>>

\* Mutant: the PID is loaded after the recovery was measured.
KillCurrent ==
    /\ lpc["delete_socket"] = "measure"
    /\ Finish("delete_socket")
    /\ IF daemonPID \in procs THEN Dies(daemonPID) ELSE UNCHANGED <<procs, token, serving>>
    /\ UNCHANGED <<testDone, quiescent, scenario, clearing, intentional, daemonPID, monVars,
                   started, watch, file, sockFile, excused, resourceVars>>

\* measureRecovery returns; the old daemon is killed if it is still a daemon.
KillOrphan ==
    /\ lpc["delete_socket"] = "measure"
    /\ Finish("delete_socket")
    /\ IF oldPID \in procs THEN Dies(oldPID) ELSE UNCHANGED <<procs, token, serving>>
    /\ UNCHANGED <<testDone, quiescent, scenario, clearing, intentional, daemonPID, monVars,
                   started, watch, file, sockFile, excused, resourceVars>>

\* corruptTokenFiles overwrites the file in place, by any of its strategies, or
\* misses it: no file was found, another was picked, or the write failed.  Unless
\* the daemon that serves has loaded the token, there is nobody to repair it.
CorruptTokenFiles(hit) ==
    /\ lpc["corrupt_token_files"] = "execute"
    /\ hit => file # "none"
    /\ Finish("corrupt_token_files")
    /\ file' = IF hit THEN "corrupt" ELSE file
    /\ excused' = (excused \/ (hit /\ serving \notin token))
    /\ UNCHANGED <<testDone, quiescent, scenario, clearing, intentional, daemonPID, monVars,
                   serving, procs, token, started, watch, sockFile, resourceVars>>

\* fillDisk writes until ENOSPC or until its cap ...
FillDisk ==
    /\ lpc["fill_disk"] = "execute"
    /\ diskFull' \in BOOLEAN
    /\ Goto("fill_disk", "hold")
    /\ UNCHANGED <<testDone, quiescent, scenario, epc, held, cool, sinceCorrupt, sinceKill, oldPID, clearing,
                   intentional, daemonPID, monVars, daemonVars, leftover, connFull>>

\* Mutant: the fill files are left behind when the context ends the hold.
FreeDiskUnlessDone(failed) ==
    /\ lpc["fill_disk"] = "hold"
    /\ leftover' = (leftover \/ (failed /\ ~testDone))
    /\ diskFull' \in IF leftover' \/ testDone THEN {FALSE, diskFull} ELSE {FALSE}
    /\ Finish("fill_disk")
    /\ UNCHANGED <<testDone, quiescent, scenario, clearing, intentional, daemonPID, monVars, daemonVars, connFull>>

\* ... and removes its files when the hold is over or the context is done.  A file
\* that cannot be removed is only mentioned in the event, and stays; a later fill,
\* whose files have the same names, may or may not reach it.
FreeDisk(failed) ==
    /\ lpc["fill_disk"] = "hold"
    /\ leftover' = (leftover \/ failed)
    /\ diskFull' \in IF leftover' THEN {FALSE, diskFull} ELSE {FALSE}
    /\ Finish("fill_disk")
    /\ UNCHANGED <<testDone, quiescent, scenario, clearing, intentional, daemonPID, monVars, daemonVars, connFull>>

\* fillConnections takes every slot that it gets ...
FillConnections ==
    /\ lpc["fill_connections"] = "execute"
    /\ connFull' = (serving # 0)
    /\ Goto("fill_connections", "hold")
    /\ UNCHANGED <<testDone, quiescent, scenario, epc, held, cool, sinceCorrupt, sinceKill, oldPID, clearing,
                   intentional, daemonPID, monVars, daemonVars, diskFull, leftover>>

\* ... closes them, and tries for some seconds to connect again.
ReleaseConnections ==
    /\ lpc["fill_connections"] = "hold"
    /\ connFull' = FALSE
    /\ Finish("fill_connections")
    /\ UNCHANGED <<testDone, quiescent, scenario, clearing, intentional, daemonPID, monVars, daemonVars, diskFull, leftover>>

-----------------------------------------------------------------------------
(***************************************************************************)
(* The daemons.                                                            *)
(***************************************************************************)

\* The shim of a kubectl finds no daemon and starts one, which has no token yet.
Restart ==
    /\ serving = 0 /\ started < MaxDaemons
    /\ started' = started + 1
    /\ serving' = started + 1 /\ procs' = procs \cup {started + 1}
    /\ sockFile' = TRUE
    /\ UNCHANGED <<testDone, quiescent, scenario, loopVars, intentional, daemonPID, monVars,
                   token, watch, file, excused, resourceVars>>

\* A get-token finds no manager in the daemon: the token file is loaded, and the
\* watchdog of the new manager starts; a corrupt file is deleted.
LoadToken ==
    /\ serving # 0 /\ serving \notin token /\ ~connFull
    /\ IF file = "good" THEN token' = token \cup {serving} /\ watch' = 0
                        ELSE UNCHANGED <<token, watch>>
    /\ file' = IF file = "corrupt" THEN "none" ELSE file
    /\ UNCHANGED <<testDone, quiescent, scenario, loopVars, intentional, daemonPID, monVars,
                   serving, procs, started, sockFile, excused, resourceVars>>

\* persistWatchdogCallback of the serving daemon, on time.
WatchdogFires ==
    /\ serving \in token /\ watch = Watchdog
    /\ watch' = 0
    /\ file' = IF diskFull THEN file ELSE "good"
    /\ excused' = (excused \/ (diskFull /\ file # "good"))
    /\ UNCHANGED <<testDone, quiescent, scenario, loopVars, intentional, daemonPID, monVars,
                   serving, procs, token, started, sockFile, resourceVars>>

\* An unreachable daemon: its watchdog may rewrite the file, and the daemon
\* exits when it finds its socket gone.
OrphanSaves(p) ==
    /\ p \in procs \ {serving} /\ p \in token /\ ~diskFull
    /\ file' = "good"
    /\ UNCHANGED <<testDone, quiescent, scenario, loopVars, intentional, daemonPID, monVars,
                   serving, procs, token, started, watch, sockFile, excused, resourceVars>>

OrphanExits(p) ==
    /\ p \in procs \ {serving}
    /\ procs' = procs \ {p} /\ token' = token \ {p}
    /\ UNCHANGED <<testDone, quiescent, scenario, loopVars, intentional, daemonPID, monVars,
                   serving, started, watch, file, sockFile, excused, resourceVars>>

\* The idle timeout: Shutdown removes the socket and persists nothing.
IdleExit ==
    /\ serving # 0 /\ quiescent /\ ~connFull
    /\ Dies(serving)
    /\ sockFile' = FALSE
    /\ excused' = (excused \/ file # "good")
    /\ UNCHANGED <<testDone, quiescent, scenario, loopVars, intentional, daemonPID, monVars,
                   started, watch, file, resourceVars>>

-----------------------------------------------------------------------------
(***************************************************************************)
(* The health monitor.                                                     *)
(***************************************************************************)

\* The ticker fires before the context is done.
Polls == mpc = "run" /\ ~testDone

\* IdleAwareProbing: a quiescent daemon is not asked, so that it may go idle.
ProcessOnly == scenario.idleAware /\ quiescent

\* A look at the process, or probeSocket.
Responsive == IF ProcessOnly THEN daemonPID \in procs ELSE serving # 0 /\ ~connFull

\* A failed poll: it counts only in an active phase and outside a kill.
PollFails ==
    /\ Polls /\ ~Responsive
    /\ failures' = IF intentional THEN 0
                   ELSE IF quiescent \/ scenario.exit = 0 THEN failures ELSE failures + 1
    /\ mpc' = IF failures' >= scenario.exit /\ scenario.exit > 0 THEN "failed" ELSE "run"
    /\ UNCHANGED <<testDone, quiescent, scenario, loopVars, intentional, daemonPID, restarts, daemonVars, resourceVars>>

\* Mutant: the restart is counted again at every poll until the daemon's PID
\* is the one the run began with.
PollCountsTwice ==
    /\ Polls /\ Responsive /\ ~ProcessOnly
    /\ failures' = 0 /\ daemonPID' = serving
    /\ restarts' = IF serving # 1 /\ daemonPID # 0 /\ restarts < MaxDaemons THEN restarts + 1 ELSE restarts
    /\ UNCHANGED <<testDone, quiescent, scenario, loopVars, intentional, mpc, daemonVars, resourceVars>>

\* A good answer over the socket: a new PID is a restart.
PollSocket ==
    /\ Polls /\ Responsive /\ ~ProcessOnly
    /\ failures' = 0 /\ daemonPID' = serving
    /\ restarts' = IF daemonPID \notin {0, serving} THEN restarts + 1 ELSE restarts
    /\ UNCHANGED <<testDone, quiescent, scenario, loopVars, intentional, mpc, daemonVars, resourceVars>>

\* The process lives: only this way of probing reads the memory it uses, and
\* too much of it ends the run.
PollProcess(tooBig) ==
    /\ Polls /\ Responsive /\ ProcessOnly
    /\ failures' = 0
    /\ mpc' = IF tooBig THEN "failed" ELSE "run"
    /\ UNCHANGED <<testDone, quiescent, scenario, loopVars, intentional, daemonPID, restarts, daemonVars, resourceVars>>

-----------------------------------------------------------------------------
\* Time passes; the watchdog's timer is punctual.
Tick ==
    /\ serving \in token => watch < Watchdog
    /\ watch' = IF serving \in token THEN watch + 1 ELSE watch
    /\ sinceCorrupt' = IF sinceCorrupt < Window THEN sinceCorrupt + 1 ELSE Window
    /\ sinceKill' = IF sinceKill < Window THEN sinceKill + 1 ELSE Window
    /\ cool' = TRUE
    /\ UNCHANGED <<testDone, quiescent, scenario, epc, lpc, held, oldPID, clearing, intentional, daemonPID, monVars,
                   serving, procs, token, started, file, sockFile, excused, resourceVars>>

\* The orchestrator ends the run, by its deadline or otherwise.
EndTest ==
    /\ ~testDone /\ testDone' = TRUE
    /\ UNCHANGED <<quiescent, scenario, loopVars, intentional, daemonPID, monVars, daemonVars, resourceVars>>

\* The generator enters another phase.
SetPhase ==
    /\ scenario.phases /\ quiescent' = ~quiescent
    /\ UNCHANGED <<testDone, scenario, loopVars, intentional, daemonPID, monVars, daemonVars, resourceVars>>

Loop(a) == IntervalOver(a) \/ LoopReturns(a) \/ AwaitCooldown(a) \/ CooldownOver(a) \/ Begin(a)

Execute ==
    \/ KillNothing \/ KillDaemon \/ KillMeasured
    \/ DeleteNothing \/ DeleteSocket \/ KillOrphan
    \/ \E hit \in BOOLEAN : CorruptTokenFiles(hit)
    \/ FillDisk \/ (\E failed \in BOOLEAN : FreeDisk(failed))
    \/ FillConnections \/ ReleaseConnections

Daemon ==
    \/ Restart \/ LoadToken \/ WatchdogFires \/ IdleExit
    \/ \E p \in procs : OrphanSaves(p) \/ OrphanExits(p)

Monitor ==
    \/ PollFails \/ PollSocket
    \/ \E tooBig \in BOOLEAN : PollProcess(tooBig)

ChaosNext ==
    \/ StartLoops \/ EngineReturns \/ Execute \/ ClearIntentional
    \/ \E a \in scenario.faults : Loop(a)
    \/ Daemon \/ Monitor
    \/ Tick \/ EndTest \/ SetPhase

ChaosSpec == ChaosInit /\ [][ChaosNext]_chaosVars

\* Timers expire, a mutex that is free is taken, and every fault is bounded by
\* its own timeouts and by the 2 minutes of actionCtx.
ChaosFairness ==
    /\ WF_chaosVars(StartLoops \/ EngineReturns)
    /\ WF_chaosVars(Execute)
    /\ \A a \in Faults : WF_chaosVars(a \in scenario.faults /\ Loop(a))

FairChaosSpec == ChaosSpec /\ ChaosFairness

-----------------------------------------------------------------------------
(***************************************************************************)
(* Properties.                                                             *)
(***************************************************************************)

Pids == 0 .. MaxDaemons

\* The types of the engine's, the monitor's and the daemon's state: the counted
\* restarts fit the daemons that can start, and a fault runs under the mutex.
ChaosTypeOK ==
    /\ testDone \in BOOLEAN /\ quiescent \in BOOLEAN /\ scenario \in Scenarios
    /\ epc \in {"stability", "loops", "returned"}
    /\ lpc \in [Faults -> {"none", "interval", "lock", "cooldown", "relock", "execute", "measure", "hold",
                           "returned"}]
    /\ held \in Faults \cup {"none"} /\ cool \in BOOLEAN
    /\ sinceCorrupt \in 0 .. Window /\ sinceKill \in 0 .. Window /\ oldPID \in Pids
    /\ intentional \in BOOLEAN /\ clearing \in BOOLEAN
    /\ daemonPID \in Pids /\ restarts \in Pids /\ failures \in Nat /\ mpc \in {"run", "failed"}
    /\ serving \in procs \cup {0} /\ procs \subseteq 1 .. started /\ token \subseteq procs
    /\ started \in 1 .. MaxDaemons
    /\ watch \in 0 .. Watchdog /\ file \in {"good", "corrupt", "none"}
    /\ diskFull \in BOOLEAN /\ leftover \in BOOLEAN /\ connFull \in BOOLEAN /\ sockFile \in BOOLEAN /\ excused \in BOOLEAN
    /\ \A a \in Faults : lpc[a] \in {"execute", "measure", "hold"} => held = a

\* S2 does what it is for: killing a daemon or deleting its socket never costs
\* the token because the file was corrupt.  The token is in the file or in the
\* daemon that serves, or something else explains its loss: no daemon that had
\* loaded it served when the file was corrupted, the disk was full when the
\* watchdog saved, or the daemon went idle before it did.
TokenSurvives == excused \/ file = "good" \/ serving \in token

\* The kill at the end of delete_socket hits the daemon that lost its socket and
\* never the one that has replaced it, whatever the monitor learned meanwhile.
OrphanOnly ==
    [][lpc["delete_socket"] = "measure" /\ lpc'["delete_socket"] = "interval" => serving' = serving]_chaosVars

\* Once the engine has returned, whenever the context ended it, the connections
\* are free, and so is the disk unless a fill file could not be removed.
FaultsUndone == epc = "returned" => ~connFull /\ (diskFull => leftover)

\* The monitor never reports more restarts than there were, although it sees
\* only some of the daemons and the PID it starts from may be unknown.
RestartsReal == restarts < started

\* The engine returns once the test is over: no loop is stuck on the mutex, in a
\* cooldown or in a fault.
ChaosStops == testDone ~> epc = "returned"
=============================================================================

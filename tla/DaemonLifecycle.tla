-------------------------- MODULE DaemonLifecycle --------------------------
(***************************************************************************)
(* Which daemon serves a runtime directory: the election by bind           *)
(* (Server.ListenAndServe, transport_unix.go), the nonce file, the idle    *)
(* watcher's ghost detection, Shutdown, and the shims that send get-token  *)
(* and start a daemon when none answers, or replace one that speaks an     *)
(* older protocol (pkg/shim).  Unix only: named pipes have neither a       *)
(* socket file nor an inode.                                               *)
(*                                                                         *)
(* The directory holds three things: the socket file (named by the daemon  *)
(* that bound it, which stands for its inode), the nonce file (named by    *)
(* the daemon that wrote it) and the .starting guard (named by the shim    *)
(* that made it).  Each action is one system call on one of them, or one   *)
(* request.                                                                *)
(***************************************************************************)
EXTENDS Naturals, FiniteSets

CONSTANTS
  Daemons,  \* daemon processes that may ever be started
  Shims,    \* get-token commands
  None,     \* no such file; inode 0
  Scenarios \* the environments explored, see ScenariosAssumption

\* A daemon is started by hand, stopped, killed, or fails to set itself up; a
\* shim is killed, or gives up waiting for a daemon that is on its way.
AllFaults == {"hand", "stop", "crash", "setup", "die", "slow"}

\* daemons and shims: the processes there are; old: the daemon of an older
\* version that serves at first, if any; dead: one that died before, if any;
\* calls: how often each shim is called, once (a bound), any number of times, or
\* always again.
ASSUME ScenariosAssumption ==
  \A sc \in Scenarios :
    /\ sc \in [faults : SUBSET AllFaults, daemons : SUBSET Daemons,
              shims : SUBSET Shims, old : SUBSET Daemons, dead : SUBSET Daemons,
              calls : {"once", "any", "always"}]
    /\ sc.old \subseteq sc.daemons /\ \A d, e \in sc.old : d = e
    /\ sc.dead \subseteq sc.daemons \ sc.old

ASSUME NoneAssumption == None \notin Daemons \cup Shims

VARIABLES
  scenario,
  sock,       \* the daemon whose socket file is at the path
  nonceFile,  \* the daemon whose nonce is in the nonce file
  guard,      \* the shim whose .starting directory exists
  dpc,        \* position of each daemon process
  listening,  \* daemons whose listener is open
  inode,      \* per daemon: s.socketInode
  spc,        \* position of each shim
  snonce,     \* per shim: the nonce it read
  sconn,      \* per shim: the daemon it is connected to
  tries,      \* per shim: requests attempted
  started,    \* per shim: autoStarted
  incidents   \* history: how a living owner has lost a file so far

fileVars   == <<sock, nonceFile, guard, incidents>>
daemonVars == <<dpc, listening, inode>>
shimVars   == <<spc, snonce, sconn, tries, started>>
sysVars == <<fileVars, daemonVars, shimVars>>
vars == <<scenario, sysVars>>

MaxTries == 3             \* the attempts of GetTokenFromDaemon
LastTry  == MaxTries + 1  \* its one request after a version mismatch

\* The socket of a listening daemon was removed because of a probe made before it
\* listened, or by the Shutdown of a daemon that never bound; the nonce of a
\* serving daemon was removed by another's Shutdown; the guard of a shim that is
\* starting a daemon was removed as stale.
SocketIncidents == {"stale probe", "no inode"}
Incidents == SocketIncidents \cup {"nonce", "guard"}

May(fault) == fault \in scenario.faults
Old(d)     == d \in scenario.old

TypeOK ==
  /\ scenario \in Scenarios
  /\ sock \in Daemons \cup {None} /\ nonceFile \in Daemons \cup {None}
  /\ guard \in Shims \cup {None}
  /\ dpc \in [Daemons -> {"off", "probe", "clean", "bind", "stat", "setup",
                          "nonce", "serve", "cleanup", "unlink", "close",
                          "unnonce", "exited"}]
  /\ listening \in SUBSET Daemons
  /\ inode \in [Daemons -> Daemons \cup {None}]
  /\ spc \in [Shims -> {"idle", "nonce", "dial", "sent", "probe", "unsock",
                        "mkdir", "stale", "mkdir2", "fork", "ready",
                        "waiting", "unguard", "failed", "shut", "refused",
                        "accepted", "kill", "gone"}]
  /\ snonce \in [Shims -> Daemons \cup {None}]
  /\ sconn \in [Shims -> Daemons \cup {None}]
  /\ tries \in [Shims -> 0..LastTry]
  /\ scenario.old = {} => tries \in [Shims -> 0..MaxTries]
  /\ started \in [Shims -> BOOLEAN]
  /\ incidents \subseteq Incidents

\* The directory may hold what an earlier daemon or shim left when it died, or
\* an old daemon serves it.
Init ==
  /\ scenario \in Scenarios
  /\ dpc = [d \in Daemons |-> IF d \in scenario.old THEN "serve"
                             ELSE IF d \in scenario.dead THEN "exited" ELSE "off"]
  /\ inode = [d \in Daemons |-> IF d \in scenario.old THEN d ELSE None]
  /\ LET left == IF scenario.old = {} THEN scenario.dead \cup {None} ELSE scenario.old
     IN  sock \in left /\ nonceFile \in left
  /\ guard \in scenario.shims \cup {None} /\ incidents = {}
  /\ listening = scenario.old
  /\ spc = [s \in Shims |-> "idle"] /\ snonce = [s \in Shims |-> None]
  /\ sconn = [s \in Shims |-> None]
  /\ tries = [s \in Shims |-> 0] /\ started = [s \in Shims |-> FALSE]

\* TransportProbeAlive: someone accepts connections at the path.
Alive == sock \in listening

\* History: an incident has happened in this step if cond holds.
Note(incident, cond) ==
  incidents' = IF cond THEN incidents \cup {incident} ELSE incidents

-----------------------------------------------------------------------------
(* The daemon process: runDaemonStart and ListenAndServe. *)

DaemonGoto(d, l) == dpc' = [dpc EXCEPT ![d] = l]

\* A new process; which of the unused names it gets does not matter.
Unused(d) ==
  /\ d \in scenario.daemons /\ dpc[d] = "off"
  /\ d = CHOOSE e \in scenario.daemons : dpc[e] = "off"

StartByHand(d) ==
  /\ May("hand") /\ Unused(d) /\ DaemonGoto(d, "probe")
  /\ UNCHANGED <<fileVars, listening, inode, shimVars>>

\* A live socket is an error other than EADDRINUSE, and every such error makes
\* runDaemonStart call Shutdown.
Probe(d) ==
  /\ dpc[d] = "probe"
  /\ DaemonGoto(d, IF Alive THEN "cleanup" ELSE "clean")
  /\ UNCHANGED <<fileVars, listening, inode, shimVars>>

\* TransportCleanup(path, 0): whatever is at the path goes.
RemoveStaleSocket(d) ==
  /\ dpc[d] = "clean" /\ DaemonGoto(d, "bind")
  /\ sock' = None /\ Note("stale probe", Alive)
  /\ UNCHANGED <<nonceFile, guard, listening, inode, shimVars>>

\* EADDRINUSE: os.Exit(1), nothing is cleaned up.
Bind(d) ==
  /\ dpc[d] = "bind"
  /\ IF sock = None
       THEN sock' = d /\ listening' = listening \cup {d} /\ DaemonGoto(d, "stat")
       ELSE DaemonGoto(d, "exited") /\ UNCHANGED <<sock, listening>>
  /\ UNCHANGED <<nonceFile, guard, incidents, inode, shimVars>>

\* transportListen finds the inode of its own socket by a stat of the path.
StatInode(d) ==
  /\ dpc[d] = "stat" /\ DaemonGoto(d, "setup")
  /\ inode' = [inode EXCEPT ![d] = sock]
  /\ UNCHANGED <<fileVars, listening, shimVars>>

\* Permissions of the directory and, given an inode, of the socket file.
Setup(d) ==
  /\ dpc[d] = "setup" /\ ~(inode[d] # None /\ sock = None)
  /\ DaemonGoto(d, "nonce")
  /\ UNCHANGED <<fileVars, listening, inode, shimVars>>

\* Setup or the writing of the nonce fails, as setup must when the socket is
\* gone: close, TransportCleanup(path, 0), then runDaemonStart's Shutdown.
SetupFails(d) ==
  /\ \/ dpc[d] = "setup" /\ inode[d] # None /\ sock = None
     \/ dpc[d] \in {"setup", "nonce"} /\ May("setup")
  /\ DaemonGoto(d, "cleanup")
  /\ listening' = listening \ {d} /\ sock' = None
  /\ UNCHANGED <<nonceFile, guard, incidents, inode, shimVars>>

\* Mutant: an existing nonce file is kept.
KeepNonce(d) ==
  /\ dpc[d] = "nonce" /\ DaemonGoto(d, "serve")
  /\ nonceFile' = IF nonceFile = None THEN d ELSE nonceFile
  /\ UNCHANGED <<sock, guard, incidents, listening, inode, shimVars>>

GenerateNonce(d) ==
  /\ dpc[d] = "nonce" /\ DaemonGoto(d, "serve")
  /\ nonceFile' = d
  /\ UNCHANGED <<sock, guard, incidents, listening, inode, shimVars>>

\* A tick of the idle watcher: the socket file is gone or has another inode.
\* Without an inode there is nothing to compare.
GhostTick(d) ==
  /\ dpc[d] = "serve" /\ inode[d] # None /\ sock # inode[d]
  /\ DaemonGoto(d, "cleanup")
  /\ UNCHANGED <<fileVars, listening, inode, shimVars>>

\* A shutdown request, a signal, the idle timeout or a fatal accept error.
Terminate(d) ==
  /\ May("stop") /\ dpc[d] = "serve" /\ DaemonGoto(d, "cleanup")
  /\ UNCHANGED <<fileVars, listening, inode, shimVars>>

\* Mutant: TransportCleanup removes the socket without a look at its inode.
ShutdownUnchecked(d) ==
  /\ dpc[d] = "cleanup"
  /\ DaemonGoto(d, IF sock # None THEN "unlink" ELSE "close")
  /\ UNCHANGED <<fileVars, listening, inode, shimVars>>

\* Shutdown: TransportCleanup compares the inode at the path with the recorded
\* one, 0 being equal to any ...
ShutdownStat(d) ==
  /\ dpc[d] = "cleanup"
  /\ DaemonGoto(d, IF sock # None /\ inode[d] \in {None, sock} THEN "unlink"
                   ELSE "close")
  /\ UNCHANGED <<fileVars, listening, inode, shimVars>>

\* ... and then removes what is there ...
ShutdownUnlink(d) ==
  /\ dpc[d] = "unlink" /\ DaemonGoto(d, "close")
  /\ sock' = None /\ Note("no inode", inode[d] = None /\ Alive)
  /\ UNCHANGED <<nonceFile, guard, listening, inode, shimVars>>

\* ... the listener is closed, the managers are stopped ...
ShutdownListener(d) ==
  /\ dpc[d] = "close" /\ DaemonGoto(d, "unnonce")
  /\ listening' = listening \ {d}
  /\ UNCHANGED <<fileVars, inode, shimVars>>

\* ... and the nonce file is removed, whoever wrote it.
ShutdownNonce(d) ==
  /\ dpc[d] = "unnonce" /\ DaemonGoto(d, "exited")
  /\ nonceFile' = None /\ Note("nonce", nonceFile # None /\ dpc[nonceFile] = "serve")
  /\ UNCHANGED <<sock, guard, listening, inode, shimVars>>

\* kill -9 or out of memory: the files stay.  The last process that can still
\* be started does not crash (a bound on crashes).
Crash(d) ==
  /\ May("crash") /\ \E e \in scenario.daemons : dpc[e] = "off"
  /\ dpc[d] \notin {"off", "exited"} /\ DaemonGoto(d, "exited")
  /\ listening' = listening \ {d}
  /\ UNCHANGED <<fileVars, inode, shimVars>>

-----------------------------------------------------------------------------
(* The shim: GetTokenFromDaemon. *)

ShimGoto(s, l) == spc' = [spc EXCEPT ![s] = l]

\* The answer, or an error, goes to kubectl.
Finish(s) ==
  /\ ShimGoto(s, IF scenario.calls = "once" THEN "gone" ELSE "idle")
  /\ snonce' = [snonce EXCEPT ![s] = None]
  /\ sconn' = [sconn EXCEPT ![s] = None]
  /\ tries' = [tries EXCEPT ![s] = 0]
  /\ started' = [started EXCEPT ![s] = FALSE]

Invoke(s) ==
  /\ s \in scenario.shims /\ spc[s] = "idle" /\ ShimGoto(s, "nonce")
  /\ UNCHANGED <<fileVars, daemonVars, snonce, sconn, tries, started>>

\* Mutant: attempts are not counted.
ReadNonceUncounted(s) ==
  /\ spc[s] = "nonce" /\ ShimGoto(s, "dial")
  /\ snonce' = [snonce EXCEPT ![s] = nonceFile]
  /\ UNCHANGED <<fileVars, daemonVars, sconn, tries, started>>

\* The nonce is read before the connection is made.
ReadNonce(s) ==
  /\ spc[s] = "nonce" /\ ShimGoto(s, "dial")
  /\ snonce' = [snonce EXCEPT ![s] = nonceFile]
  /\ tries' = [tries EXCEPT ![s] = IF @ = LastTry THEN @ ELSE @ + 1]
  /\ UNCHANGED <<fileVars, daemonVars, sconn, started>>

\* Mutant: a failed connection is retried without end.
DialUnbounded(s) ==
  /\ spc[s] = "dial"
  /\ IF Alive
       THEN ShimGoto(s, "sent") /\ sconn' = [sconn EXCEPT ![s] = sock]
       ELSE ShimGoto(s, IF ~started[s] THEN "probe" ELSE "nonce")
            /\ UNCHANGED sconn
  /\ UNCHANGED <<fileVars, daemonVars, snonce, tries, started>>

\* Nobody there: start a daemon the first time, later only try again.
Dial(s) ==
  /\ spc[s] = "dial"
  /\ IF Alive
       THEN ShimGoto(s, "sent") /\ sconn' = [sconn EXCEPT ![s] = sock]
       ELSE /\ ShimGoto(s, IF ~started[s] THEN "probe"
                           ELSE IF tries[s] < MaxTries THEN "nonce"
                           ELSE "failed")
            /\ UNCHANGED sconn
  /\ UNCHANGED <<fileVars, daemonVars, snonce, tries, started>>

\* An error of another version leads to the replacement of the daemon, once.
Mismatch(s) == Old(sconn[s]) /\ tries[s] # LastTry

\* The daemon takes the connection off its backlog once it serves, checks the
\* nonce and then the version.
Served(s) ==
  /\ spc[s] = "sent" /\ dpc[sconn[s]] = "serve" /\ snonce[s] = sconn[s] /\ ~Mismatch(s)
  /\ Finish(s)
  /\ UNCHANGED <<fileVars, daemonVars>>

Rejected(s) ==
  /\ spc[s] = "sent" /\ dpc[sconn[s]] = "serve" /\ snonce[s] # sconn[s] /\ ~Mismatch(s)
  /\ Finish(s)
  /\ UNCHANGED <<fileVars, daemonVars>>

\* The connection is cut or the 12s deadline passes.
Disconnected(s) ==
  /\ spc[s] = "sent" /\ dpc[sconn[s]] # "serve"
  /\ Finish(s)
  /\ UNCHANGED <<fileVars, daemonVars>>

Fails(s) ==
  /\ spc[s] = "failed" /\ Finish(s)
  /\ UNCHANGED <<fileVars, daemonVars>>

(* The version mismatch. *)

\* The PID of the old daemon is in its answer (sconn), but not in the one to a
\* wrong nonce.
VersionMismatch(s) ==
  /\ spc[s] = "sent" /\ dpc[sconn[s]] = "serve" /\ Mismatch(s)
  /\ ShimGoto(s, "shut")
  /\ sconn' = [sconn EXCEPT ![s] = IF snonce[s] = @ THEN @ ELSE None]
  /\ snonce' = [snonce EXCEPT ![s] = None]
  /\ tries' = [tries EXCEPT ![s] = LastTry] /\ started' = [started EXCEPT ![s] = TRUE]
  /\ UNCHANGED <<fileVars, daemonVars>>

\* sendShutdown goes to whoever listens now, with the nonce that is there now and
\* in the shim's version, so that an old daemon refuses it.
SendShutdown(s) ==
  /\ spc[s] = "shut"
  /\ IF Alive /\ dpc[sock] = "serve" /\ nonceFile = sock /\ ~Old(sock)
       THEN DaemonGoto(sock, "cleanup") /\ ShimGoto(s, "accepted")
       ELSE /\ Alive => dpc[sock] \notin {"stat", "setup", "nonce"}
            /\ ShimGoto(s, "refused") /\ UNCHANGED dpc
  /\ UNCHANGED <<fileVars, listening, inode, snonce, sconn, tries, started>>

\* Within six polls the daemon is gone ...
PollGone(s) ==
  /\ spc[s] \in {"refused", "accepted"} /\ ~Alive
  /\ ShimGoto(s, "probe") /\ sconn' = [sconn EXCEPT ![s] = None]
  /\ UNCHANGED <<fileVars, daemonVars, snonce, tries, started>>

\* Mutant: an old daemon that refuses to shut down is left alone.
PollSpares(s) ==
  /\ spc[s] \in {"refused", "accepted"} /\ Alive
  /\ ShimGoto(s, "probe")
  /\ sconn' = [sconn EXCEPT ![s] = None]
  /\ UNCHANGED <<fileVars, daemonVars, snonce, tries, started>>

\* ... or it is killed by its PID; without one, a refusal is the end.
PollAlive(s) ==
  /\ spc[s] \in {"refused", "accepted"} /\ Alive
  /\ ShimGoto(s, IF sconn[s] # None THEN "kill"
                 ELSE IF spc[s] = "refused" THEN "failed" ELSE "probe")
  /\ UNCHANGED <<fileVars, daemonVars, snonce, sconn, tries, started>>

KillOld(s) ==
  /\ spc[s] = "kill"
  /\ DaemonGoto(sconn[s], "exited") /\ listening' = listening \ {sconn[s]}
  /\ ShimGoto(s, "probe") /\ sconn' = [sconn EXCEPT ![s] = None]
  /\ UNCHANGED <<fileVars, inode, snonce, tries, started>>

(* autoStartDaemonCommon. *)

StartReturns(s) == ShimGoto(s, IF tries[s] # MaxTries THEN "nonce" ELSE "failed")
                   /\ started' = [started EXCEPT ![s] = TRUE]

AutoProbe(s) ==
  /\ spc[s] = "probe"
  /\ IF Alive THEN StartReturns(s)
     ELSE ShimGoto(s, "unsock") /\ UNCHANGED started
  /\ UNCHANGED <<fileVars, daemonVars, snonce, sconn, tries>>

\* cleanupStaleUnixSocket, on the strength of the probe.
CleanupStaleUnixSocket(s) ==
  /\ spc[s] = "unsock" /\ ShimGoto(s, "mkdir")
  /\ sock' = None /\ Note("stale probe", Alive)
  /\ UNCHANGED <<nonceFile, guard, daemonVars, snonce, sconn, tries, started>>

\* Exactly one mkdir succeeds.  The others wait for the daemon, or find the
\* guard older than 10 seconds.
MkdirGuard(s) ==
  /\ spc[s] = "mkdir"
  /\ \/ guard = None /\ guard' = s /\ ShimGoto(s, "fork")
     \/ guard # None /\ UNCHANGED guard /\ ShimGoto(s, "waiting")
     \/ guard # None /\ UNCHANGED guard /\ ShimGoto(s, "stale")
  /\ UNCHANGED <<sock, nonceFile, incidents, daemonVars, snonce, sconn, tries, started>>

\* The shim that made the guard and has not removed it yet.
Starting(s) == spc[s] \in {"fork", "ready", "unguard"}

\* Mutant: a stale guard is not removed.
KeepStaleGuard(s) ==
  /\ spc[s] = "stale" /\ ShimGoto(s, "mkdir2")
  /\ UNCHANGED <<fileVars, daemonVars, snonce, sconn, tries, started>>

RemoveStaleGuard(s) ==
  /\ spc[s] = "stale" /\ ShimGoto(s, "mkdir2")
  /\ guard' = None /\ Note("guard", guard # None /\ Starting(guard))
  /\ UNCHANGED <<sock, nonceFile, daemonVars, snonce, sconn, tries, started>>

\* Mutant: os.MkdirAll, which does not mind a directory that exists.
MkdirAllAgain(s) ==
  /\ spc[s] = "mkdir2" /\ guard' = s /\ ShimGoto(s, "fork")
  /\ UNCHANGED <<sock, nonceFile, incidents, daemonVars, snonce, sconn, tries, started>>

MkdirGuardAgain(s) ==
  /\ spc[s] = "mkdir2"
  /\ IF guard = None THEN guard' = s /\ ShimGoto(s, "fork")
     ELSE UNCHANGED guard /\ ShimGoto(s, "waiting")
  /\ UNCHANGED <<sock, nonceFile, incidents, daemonVars, snonce, sconn, tries, started>>

Fork(s, d) ==
  /\ spc[s] = "fork" /\ Unused(d)
  /\ ShimGoto(s, "ready") /\ DaemonGoto(d, "probe")
  /\ UNCHANGED <<fileVars, listening, inode, snonce, sconn, tries, started>>

\* waitForReady sees a connection accepted.  The shim that forked then
\* removes the guard (deferred), the others just go on.
Ready(s) ==
  /\ spc[s] \in {"ready", "waiting"} /\ Alive
  /\ IF spc[s] = "ready" THEN ShimGoto(s, "unguard") /\ UNCHANGED started
     ELSE StartReturns(s)
  /\ UNCHANGED <<fileVars, daemonVars, snonce, sconn, tries>>

\* A daemon is starting, or is about to be forked.
Coming ==
  \/ \E d \in Daemons : dpc[d] \in {"probe", "clean", "bind"}
  \/ \E s \in Shims, d \in scenario.daemons : spc[s] = "fork" /\ dpc[d] = "off"

\* waitForReady gives up, or the fork failed (here: no process is left).
NotReady(s) ==
  /\ spc[s] \in {"fork", "ready", "waiting"}
  /\ \/ May("slow") \/ ~(Alive \/ Coming)
     \/ spc[s] = "fork" /\ \A d \in scenario.daemons : dpc[d] # "off"
  /\ ShimGoto(s, "failed")
  /\ guard' = IF spc[s] = "waiting" THEN guard ELSE None
  /\ UNCHANGED <<sock, nonceFile, incidents, daemonVars, snonce, sconn, tries, started>>

\* defer os.Remove(startingDir), whoever made it.
RemoveGuard(s) ==
  /\ spc[s] = "unguard"
  /\ guard' = None /\ StartReturns(s)
  /\ UNCHANGED <<sock, nonceFile, incidents, daemonVars, snonce, sconn, tries>>

\* kubectl kills the shim: a guard it made stays.
ShimDies(s) ==
  /\ May("die") /\ spc[s] \notin {"idle", "gone"} /\ Finish(s)
  /\ UNCHANGED <<fileVars, daemonVars>>

-----------------------------------------------------------------------------
StartUp(d) == Probe(d) \/ RemoveStaleSocket(d) \/ Bind(d) \/ StatInode(d)
              \/ Setup(d) \/ SetupFails(d) \/ GenerateNonce(d)

Shutdown(d) == ShutdownStat(d) \/ ShutdownUnlink(d) \/ ShutdownListener(d)
               \/ ShutdownNonce(d)

ShimStep(s) ==
  \/ ReadNonce(s) \/ Dial(s) \/ Served(s) \/ Rejected(s) \/ Disconnected(s)
  \/ Fails(s) \/ AutoProbe(s) \/ CleanupStaleUnixSocket(s) \/ MkdirGuard(s)
  \/ RemoveStaleGuard(s) \/ MkdirGuardAgain(s) \/ Ready(s) \/ NotReady(s)
  \/ RemoveGuard(s) \/ VersionMismatch(s) \/ SendShutdown(s) \/ PollGone(s)
  \/ PollAlive(s) \/ KillOld(s) \/ \E d \in scenario.daemons : Fork(s, d)

Steps ==
  \/ \E d \in Daemons : StartByHand(d) \/ StartUp(d) \/ GhostTick(d)
                        \/ Terminate(d) \/ Shutdown(d) \/ Crash(d)
  \/ \E s \in Shims : Invoke(s) \/ ShimStep(s) \/ ShimDies(s)

Next == Steps /\ UNCHANGED scenario

Spec == Init /\ [][Next]_vars

\* Processes that run are scheduled; the idle watcher ticks.
Fairness ==
  /\ \A d \in Daemons : WF_sysVars(StartUp(d) \/ GhostTick(d) \/ Shutdown(d))
  /\ \A s \in Shims : WF_sysVars(ShimStep(s))

\* Where there is demand, kubectl keeps calling, and a guard that nobody removes
\* passes the age of 10 seconds.
Demand ==
  /\ \A s \in Shims : WF_sysVars(scenario.calls = "always" /\ Invoke(s))
  /\ \A s \in Shims : SF_sysVars(scenario.calls = "always" /\ MkdirGuard(s) /\ spc'[s] = "stale")

FairSpec == Spec /\ Fairness /\ Demand

-----------------------------------------------------------------------------
(* Properties. *)

\* get-token ends, with an answer or an error, over every race with daemons
\* that start, stop and crash: no cycle of attempts, restarts and waits.
ShimReturns ==
  \A s \in Shims : spc[s] \notin {"idle", "gone"} ~> spc[s] \in {"idle", "gone"}

\* After the last crash, whatever socket, nonce or guard the dead left behind
\* and whether an old daemon was serving, the next calls bring up a daemon of
\* their own version that accepts the nonce they read.
Recovers ==
  scenario.calls = "always" => <>[](Alive /\ nonceFile = sock /\ dpc[sock] = "serve" /\ ~Old(sock))

\* Daemons are started by shims only and stop only by crashing.
OnDemand == scenario.faults \subseteq {"crash"}

\* "Each forked daemon tries bind(socket) -> exactly one succeeds".
OneDaemonServes ==
  OnDemand => \A d, e \in Daemons : dpc[d] = "serve" /\ dpc[e] = "serve" => d = e

\* Whatever shims and daemons start, stop, die and overlap, a serving daemon is
\* the one behind the socket path and has recorded its own inode, so that there
\* is one and it would notice a theft, until one of two things has happened: a
\* socket was removed on the strength of an old probe (autostart.go:32,
\* server.go:172-180), or a daemon that never bound shut down (main.go:1392).
ServersReachable ==
  incidents \cap SocketIncidents = {}
    => \A d \in Daemons : dpc[d] = "serve" => sock = d /\ inode[d] = d

\* The nonce in the file is a serving daemon's own at all times, over starts
\* that fail, crashes and replacements, until the socket was taken as above or
\* another daemon's Shutdown, which removes the nonce last, has taken it
\* (server.go:292).
NonceReadable ==
  incidents \cap (SocketIncidents \cup {"nonce"}) = {}
    => \A d \in Daemons : dpc[d] = "serve" => nonceFile = d

\* "only one should fork a new daemon process" (autostart_common.go:50): of
\* shims that find nothing one is starting a daemon, whoever is killed
\* and whatever guard is left, until the guard of a living shim has been taken
\* for a stale one.
OneStarts ==
  "guard" \notin incidents
    => \A s, t \in Shims : Starting(s) /\ Starting(t) => s = t

=============================================================================

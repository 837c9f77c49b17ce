----------------------- MODULE DaemonLifecycleProofs -----------------------
(***************************************************************************)
(* Proofs about DaemonLifecycle, for any number of daemons and shims, any  *)
(* overlap of them and any faults: the types, whose socket and nonce a     *)
(* serving daemon finds until one of the named incidents has happened, and *)
(* how many shims start a daemon at a time.                                *)
(***************************************************************************)
EXTENDS DaemonLifecycle, TLAPS

-----------------------------------------------------------------------------
(* The inductive invariants. *)

\* A shim that is going to make an attempt has one left, or it is the one that
\* follows the replacement of a daemon.
AttemptsLeft ==
  \A s \in Shims : /\ spc[s] = "idle" => tries[s] = 0
                   /\ spc[s] = "nonce" => tries[s] # MaxTries

\* No socket has been taken from a daemon that listens on it.
NoTheft == incidents \cap SocketIncidents = {}

\* A daemon that has bound has the path until its Shutdown removes the socket,
\* and what it records is its own inode; one that has not bound has none.
Owner(d) ==
  /\ dpc[d] \in {"stat", "setup", "nonce", "serve"} => sock = d /\ d \in listening
  /\ dpc[d] \in {"setup", "nonce", "serve"} => inode[d] = d
  /\ dpc[d] \in {"off", "probe", "clean", "bind", "stat"} => inode[d] = None
  /\ inode[d] \in {None, d}
  /\ dpc[d] = "cleanup" /\ inode[d] = d /\ sock = d => d \in listening
  /\ dpc[d] = "unlink" /\ inode[d] = d => sock = d /\ d \in listening

\* The nonce of a serving daemon, and the guard of a shim that is starting one.
NonceOwned == \A d \in Daemons : dpc[d] = "serve" => nonceFile = d
GuardOwned == \A s \in Shims : Starting(s) => guard = s

OwnInv ==
  /\ NoTheft => \A d \in Daemons : Owner(d)
  /\ NoTheft /\ "nonce" \notin incidents => NonceOwned
  /\ "guard" \notin incidents => GuardOwned

-----------------------------------------------------------------------------
(* The types. *)

IInv == TypeOK /\ AttemptsLeft

DaemonStep(d) ==
  StartByHand(d) \/ StartUp(d) \/ GhostTick(d) \/ Terminate(d) \/ Shutdown(d) \/ Crash(d)

\* A daemon's step leaves the shims and their guard alone.
LEMMA ShimsAside ==
  ASSUME NEW d \in Daemons, DaemonStep(d)
  PROVE  UNCHANGED shimVars /\ guard' = guard
BY DEF fileVars, DaemonStep, StartByHand, StartUp, Probe, RemoveStaleSocket, Bind, StatInode, Setup,
   SetupFails, GenerateNonce, GhostTick, Terminate, Shutdown, ShutdownStat, ShutdownUnlink,
   ShutdownListener, ShutdownNonce, Crash

LEMMA DaemonTypes ==
  ASSUME TypeOK, NEW d \in Daemons, DaemonStep(d), UNCHANGED scenario
  PROVE  TypeOK'
<1>1. UNCHANGED shimVars
  BY ShimsAside
<1>2. \E l \in {"probe", "clean", "bind", "stat", "setup", "nonce", "serve", "cleanup", "unlink",
                "close", "unnonce", "exited"} : DaemonGoto(d, l)
  <2>1. CASE StartByHand(d) \/ Probe(d) \/ RemoveStaleSocket(d) \/ Bind(d) \/ StatInode(d)
    BY <2>1 DEF StartByHand, Probe, RemoveStaleSocket, Bind, StatInode
  <2>2. CASE Setup(d) \/ SetupFails(d) \/ GenerateNonce(d) \/ GhostTick(d) \/ Terminate(d)
    BY <2>2 DEF Setup, SetupFails, GenerateNonce, GhostTick, Terminate
  <2>3. CASE Shutdown(d) \/ Crash(d)
    BY <2>3 DEF Shutdown, ShutdownStat, ShutdownUnlink, ShutdownListener, ShutdownNonce, Crash
  <2> QED
    BY <2>1, <2>2, <2>3 DEF DaemonStep, StartUp
<1>3. /\ sock' \in {sock, None, d} /\ nonceFile' \in {nonceFile, None, d} /\ guard' = guard
      /\ listening' \in {listening, listening \cup {d}, listening \ {d}}
      /\ inode' \in {inode, [inode EXCEPT ![d] = sock]}
      /\ incidents' \in {incidents} \cup {incidents \cup {i} : i \in Incidents}
  <2> USE DEF fileVars, Note, Incidents, SocketIncidents
  <2>1. CASE StartByHand(d) \/ Probe(d) \/ RemoveStaleSocket(d) \/ Bind(d) \/ StatInode(d)
    BY <2>1 DEF StartByHand, Probe, RemoveStaleSocket, Bind, StatInode
  <2>2. CASE Setup(d) \/ SetupFails(d) \/ GenerateNonce(d) \/ GhostTick(d) \/ Terminate(d)
    BY <2>2 DEF Setup, SetupFails, GenerateNonce, GhostTick, Terminate
  <2>3. CASE Shutdown(d) \/ Crash(d)
    BY <2>3 DEF Shutdown, ShutdownStat, ShutdownUnlink, ShutdownListener, ShutdownNonce, Crash
  <2> QED
    BY <2>1, <2>2, <2>3 DEF DaemonStep, StartUp
<1>4. dpc' \in [Daemons -> {"off", "probe", "clean", "bind", "stat", "setup", "nonce", "serve",
                            "cleanup", "unlink", "close", "unnonce", "exited"}]
  BY <1>2 DEF TypeOK, DaemonGoto
<1>5. inode' \in [Daemons -> Daemons \cup {None}]
  BY <1>3 DEF TypeOK
<1>6. incidents' \subseteq Incidents
  BY <1>3 DEF TypeOK
<1> QED
  BY <1>1, <1>3, <1>4, <1>5, <1>6 DEF TypeOK, shimVars

\* What a shim's step may do to the files and the daemons ...
LEMMA ShimEffects ==
  ASSUME NEW s \in Shims, Invoke(s) \/ ShimStep(s) \/ ShimDies(s)
  PROVE  /\ sock' \in {sock, None} /\ nonceFile' = nonceFile /\ guard' \in {guard, None, s}
         /\ inode' = inode
         /\ incidents' \in {incidents} \cup {incidents \cup {i} : i \in Incidents}
         /\ \/ UNCHANGED <<dpc, listening>>
            \/ \E d, l : /\ DaemonGoto(d, l) /\ l \in {"probe", "cleanup", "exited"}
                         /\ listening' \in {listening, listening \ {d}}
<1> USE DEF fileVars, daemonVars, Note, Incidents, SocketIncidents
<1>1. CASE Invoke(s) \/ ReadNonce(s) \/ Dial(s) \/ Served(s) \/ Rejected(s) \/ Disconnected(s)
           \/ Fails(s) \/ AutoProbe(s) \/ ShimDies(s) \/ VersionMismatch(s) \/ PollGone(s)
           \/ PollAlive(s) \/ Ready(s)
  BY <1>1 DEF Invoke, ReadNonce, Dial, Served, Rejected, Disconnected, Fails, AutoProbe, ShimDies,
     VersionMismatch, PollGone, PollAlive, Ready
<1>2. CASE CleanupStaleUnixSocket(s) \/ MkdirGuard(s) \/ RemoveStaleGuard(s) \/ MkdirGuardAgain(s)
           \/ NotReady(s) \/ RemoveGuard(s)
  BY <1>2 DEF CleanupStaleUnixSocket, MkdirGuard, RemoveStaleGuard, MkdirGuardAgain, NotReady,
     RemoveGuard
<1>3. CASE SendShutdown(s)
  BY <1>3 DEF SendShutdown
<1>4. CASE KillOld(s)
  BY <1>4 DEF KillOld
<1>5. CASE \E d \in scenario.daemons : Fork(s, d)
  BY <1>5 DEF Fork
<1> QED
  BY <1>1, <1>2, <1>3, <1>4, <1>5 DEF ShimStep

ShimTypeOK ==
  /\ spc \in [Shims -> {"idle", "nonce", "dial", "sent", "probe", "unsock",
                        "mkdir", "stale", "mkdir2", "fork", "ready",
                        "waiting", "unguard", "failed", "shut", "refused",
                        "accepted", "kill", "gone"}]
  /\ snonce \in [Shims -> Daemons \cup {None}]
  /\ sconn \in [Shims -> Daemons \cup {None}]
  /\ tries \in [Shims -> 0..LastTry]
  /\ scenario.old = {} => tries \in [Shims -> 0..MaxTries]
  /\ started \in [Shims -> BOOLEAN]

\* ... and to itself.
LEMMA ShimTypes ==
  ASSUME IInv, NEW s \in Shims, Invoke(s) \/ ShimStep(s) \/ ShimDies(s), UNCHANGED scenario
  PROVE  ShimTypeOK' /\ AttemptsLeft'
<1> USE DEF IInv, TypeOK, ShimTypeOK, AttemptsLeft, ShimGoto, MaxTries, LastTry
<1>0. ShimTypeOK
  OBVIOUS
<1>1. ASSUME Finish(s) PROVE ShimTypeOK' /\ AttemptsLeft'
  <2>1. started' \in [Shims -> BOOLEAN]
    BY <1>1, Zenon DEF Finish
  <2> QED
    BY <1>1, <2>1 DEF Finish
<1>2. ASSUME StartReturns(s), UNCHANGED <<snonce, sconn, tries>> PROVE ShimTypeOK' /\ AttemptsLeft'
  <2>1. started' \in [Shims -> BOOLEAN]
    BY <1>2, Zenon DEF StartReturns
  <2> QED
    BY <1>2, <2>1 DEF StartReturns
<1>3. CASE Served(s) \/ Rejected(s) \/ Disconnected(s) \/ Fails(s) \/ ShimDies(s)
  BY <1>1, <1>3, Zenon DEF Served, Rejected, Disconnected, Fails, ShimDies
<1>4. CASE Invoke(s)
  BY <1>4 DEF Invoke
<1>5. CASE ReadNonce(s)
  BY <1>5 DEF ReadNonce
<1>6. CASE Dial(s)
  BY <1>6 DEF Dial, Alive
<1>7. CASE VersionMismatch(s)
  <2>1. started' \in [Shims -> BOOLEAN]
    BY <1>7, Zenon DEF VersionMismatch
  <2>2. scenario.old # {}
    BY <1>7 DEF VersionMismatch, Mismatch, Old
  <2> QED
    BY <1>7, <2>1, <2>2 DEF VersionMismatch
<1>8. CASE SendShutdown(s) \/ PollGone(s) \/ PollAlive(s) \/ KillOld(s)
  BY <1>8 DEF SendShutdown, PollGone, PollAlive, KillOld
<1>9. CASE AutoProbe(s)
  BY <1>2, <1>9 DEF AutoProbe
<1>10. CASE CleanupStaleUnixSocket(s) \/ MkdirGuard(s) \/ RemoveStaleGuard(s)
            \/ MkdirGuardAgain(s) \/ NotReady(s)
  BY <1>10 DEF CleanupStaleUnixSocket, MkdirGuard, RemoveStaleGuard, MkdirGuardAgain, NotReady
<1>11. CASE \E d \in scenario.daemons : Fork(s, d)
  BY <1>11 DEF Fork
<1>12. CASE Ready(s)
  BY <1>2, <1>12 DEF Ready
<1>13. CASE RemoveGuard(s)
  BY <1>2, <1>13 DEF RemoveGuard
<1> QED
  BY <1>3, <1>4, <1>5, <1>6, <1>7, <1>8, <1>9, <1>10, <1>11, <1>12, <1>13 DEF ShimStep

LEMMA AlwaysIInv == Spec => []IInv
<1>1. Init => IInv
  <2> SUFFICES ASSUME Init PROVE IInv
    OBVIOUS
  <2>1. /\ scenario.old \subseteq Daemons /\ scenario.dead \subseteq Daemons
        /\ scenario.shims \subseteq Shims
    BY ScenariosAssumption DEF Init
  <2>2. /\ sock \in Daemons \cup {None} /\ nonceFile \in Daemons \cup {None}
        /\ inode \in [Daemons -> Daemons \cup {None}]
        /\ dpc \in [Daemons -> {"off", "probe", "clean", "bind", "stat", "setup", "nonce", "serve",
                                "cleanup", "unlink", "close", "unnonce", "exited"}]
    BY <2>1 DEF Init
  <2>3. started \in [Shims -> BOOLEAN]
    BY Zenon DEF Init
  <2> QED
    BY <2>1, <2>2, <2>3 DEF Init, IInv, TypeOK, AttemptsLeft, MaxTries, LastTry
<1>2. IInv /\ [Next]_vars => IInv'
  <2> SUFFICES ASSUME IInv, [Next]_vars PROVE IInv'
    OBVIOUS
  <2>1. CASE UNCHANGED vars
    BY <2>1 DEF IInv, TypeOK, AttemptsLeft, vars, sysVars, fileVars, daemonVars, shimVars
  <2>2. ASSUME NEW d \in Daemons, DaemonStep(d), UNCHANGED scenario PROVE IInv'
    BY <2>2, DaemonTypes, ShimsAside DEF IInv, AttemptsLeft, shimVars
  <2>3. ASSUME NEW s \in Shims, Invoke(s) \/ ShimStep(s) \/ ShimDies(s), UNCHANGED scenario
        PROVE  IInv'
    <3>1. ShimTypeOK' /\ AttemptsLeft'
      BY <2>3, ShimTypes
    <3>2. /\ sock' \in Daemons \cup {None} /\ nonceFile' \in Daemons \cup {None}
          /\ incidents' \subseteq Incidents
          /\ guard' \in Shims \cup {None} /\ inode' \in [Daemons -> Daemons \cup {None}]
      BY <2>3, ShimEffects DEF IInv, TypeOK
    <3>3. /\ listening' \in SUBSET Daemons
          /\ dpc' \in [Daemons -> {"off", "probe", "clean", "bind", "stat", "setup", "nonce", "serve",
                                   "cleanup", "unlink", "close", "unnonce", "exited"}]
      <4>1. \/ UNCHANGED <<dpc, listening>>
            \/ \E d, l : /\ DaemonGoto(d, l) /\ l \in {"probe", "cleanup", "exited"}
                         /\ listening' \in {listening, listening \ {d}}
        BY <2>3, ShimEffects
      <4> QED
        BY <4>1 DEF IInv, TypeOK, DaemonGoto
    <3> QED
      BY <2>3, <3>1, <3>2, <3>3 DEF IInv, TypeOK, ShimTypeOK
  <2> QED
    BY <2>1, <2>2, <2>3 DEF Next, Steps, DaemonStep
<1> QED
  BY <1>1, <1>2, PTL DEF Spec

\* The types; without an old daemon a shim makes at most three attempts.
THEOREM TypeCorrect == Spec => []TypeOK
  BY AlwaysIInv, PTL DEF IInv

-----------------------------------------------------------------------------
(* Who has the socket path. *)

\* A daemon that does not move keeps what it has when the path stays as it is
\* or loses the socket of nobody who listens, or of another.
LEMMA OwnerKept ==
  ASSUME NEW e \in Daemons, Owner(e), dpc'[e] = dpc[e], inode'[e] = inode[e],
         e \in listening' <=> e \in listening,
         sock' = sock \/ (sock' # e /\ (sock # e \/ e \notin listening))
  PROVE  Owner(e)'
BY DEF Owner

\* What a daemon's step does to the path, if it is no incident.
LEMMA PathKept ==
  ASSUME NoTheft', NEW d \in Daemons, Owner(d), DaemonStep(d)
  PROVE  \/ sock' = sock
         \/ sock' \in {None, d} /\ (sock \in {None, d} \/ sock \notin listening)
<1> USE DEF fileVars, NoTheft, SocketIncidents
<1>1. CASE StartByHand(d) \/ Probe(d) \/ Bind(d) \/ StatInode(d) \/ Setup(d) \/ GenerateNonce(d)
           \/ GhostTick(d) \/ Terminate(d) \/ ShutdownStat(d) \/ ShutdownListener(d)
           \/ ShutdownNonce(d) \/ Crash(d)
  BY <1>1 DEF StartByHand, Probe, Bind, StatInode, Setup, GenerateNonce, GhostTick, Terminate,
     ShutdownStat, ShutdownListener, ShutdownNonce, Crash
<1>2. CASE RemoveStaleSocket(d)
  BY <1>2 DEF RemoveStaleSocket, Note, Alive
<1>3. CASE SetupFails(d)
  BY <1>3 DEF SetupFails, Owner
<1>4. CASE ShutdownUnlink(d)
  BY <1>4 DEF ShutdownUnlink, Note, Alive, Owner
<1> QED
  BY <1>1, <1>2, <1>3, <1>4 DEF DaemonStep, StartUp, Shutdown

\* The daemon that moves.
LEMMA OwnerMoves ==
  ASSUME TypeOK, NEW d \in Daemons, Owner(d), DaemonStep(d)
  PROVE  Owner(d)'
<1> USE NoneAssumption DEF TypeOK, Owner, fileVars
<1>1. CASE StartByHand(d) \/ Probe(d)
  BY <1>1 DEF StartByHand, Unused, Probe, DaemonGoto
<1>2. CASE RemoveStaleSocket(d)
  <2>1. dpc[d] = "clean" /\ DaemonGoto(d, "bind") /\ UNCHANGED <<listening, inode>>
    BY <1>2, Zenon DEF RemoveStaleSocket
  <2> QED
    BY <2>1 DEF DaemonGoto
<1>3. CASE Bind(d)
  BY <1>3 DEF Bind, DaemonGoto
<1>4. CASE StatInode(d)
  BY <1>4 DEF StatInode, DaemonGoto
<1>5. CASE Setup(d) \/ GenerateNonce(d) \/ GhostTick(d) \/ Terminate(d)
  BY <1>5 DEF Setup, GenerateNonce, GhostTick, Terminate, DaemonGoto
<1>6. CASE SetupFails(d)
  BY <1>6 DEF SetupFails, DaemonGoto
<1>7. CASE ShutdownStat(d)
  BY <1>7 DEF ShutdownStat, DaemonGoto
<1>8. CASE ShutdownUnlink(d) \/ ShutdownListener(d) \/ ShutdownNonce(d)
  <2>1. /\ DaemonGoto(d, "close") \/ DaemonGoto(d, "unnonce") \/ DaemonGoto(d, "exited")
        /\ UNCHANGED inode
    BY <1>8, Zenon DEF ShutdownUnlink, ShutdownListener, ShutdownNonce
  <2> QED
    BY <2>1 DEF DaemonGoto
<1>9. CASE Crash(d)
  BY <1>9 DEF Crash, DaemonGoto
<1> QED
  BY <1>1, <1>2, <1>3, <1>4, <1>5, <1>6, <1>7, <1>8, <1>9 DEF DaemonStep, StartUp, Shutdown

\* A daemon's step leaves the others alone.
LEMMA OthersAside ==
  ASSUME TypeOK, NEW d \in Daemons, DaemonStep(d), NEW e \in Daemons, e # d
  PROVE  dpc'[e] = dpc[e] /\ inode'[e] = inode[e] /\ (e \in listening' <=> e \in listening)
<1> USE DEF TypeOK, DaemonGoto
<1>1. CASE StartByHand(d) \/ Probe(d) \/ RemoveStaleSocket(d)
  BY <1>1, Zenon DEF StartByHand, Probe, RemoveStaleSocket
<1>2. CASE Bind(d) \/ StatInode(d)
  BY <1>2 DEF Bind, StatInode
<1>3. CASE Setup(d) \/ SetupFails(d) \/ GenerateNonce(d) \/ GhostTick(d) \/ Terminate(d)
  BY <1>3 DEF Setup, SetupFails, GenerateNonce, GhostTick, Terminate
<1>4. CASE Shutdown(d) \/ Crash(d)
  BY <1>4 DEF Shutdown, ShutdownStat, ShutdownUnlink, ShutdownListener, ShutdownNonce, Crash
<1> QED
  BY <1>1, <1>2, <1>3, <1>4 DEF DaemonStep, StartUp

LEMMA DaemonOwners ==
  ASSUME TypeOK, NoTheft', \A e \in Daemons : Owner(e), NEW d \in Daemons, DaemonStep(d)
  PROVE  \A e \in Daemons : Owner(e)'
<1> SUFFICES ASSUME NEW e \in Daemons, e # d PROVE Owner(e)'
  BY OwnerMoves
<1>1. dpc'[e] = dpc[e] /\ inode'[e] = inode[e] /\ (e \in listening' <=> e \in listening)
  BY OthersAside
<1>2. sock' = sock \/ (sock' # e /\ (sock # e \/ e \notin listening))
  BY PathKept, NoneAssumption
<1> QED
  BY <1>1, <1>2, OwnerKept

LEMMA ShimOwners ==
  ASSUME TypeOK, NoTheft', \A e \in Daemons : Owner(e),
         NEW s \in Shims, Invoke(s) \/ ShimStep(s) \/ ShimDies(s)
  PROVE  \A e \in Daemons : Owner(e)'
<1> USE DEF fileVars, daemonVars
<1>1. CASE Invoke(s) \/ ReadNonce(s) \/ Dial(s) \/ Served(s) \/ Rejected(s) \/ Disconnected(s)
           \/ Fails(s) \/ AutoProbe(s) \/ ShimDies(s) \/ VersionMismatch(s) \/ PollGone(s)
           \/ PollAlive(s) \/ Ready(s) \/ MkdirGuard(s) \/ RemoveStaleGuard(s)
           \/ MkdirGuardAgain(s) \/ NotReady(s) \/ RemoveGuard(s)
  <2>1. UNCHANGED <<sock, dpc, inode, listening>>
    <3>1. CASE Invoke(s) \/ ReadNonce(s) \/ Dial(s) \/ Served(s) \/ Rejected(s) \/ Disconnected(s)
               \/ Fails(s) \/ AutoProbe(s) \/ ShimDies(s) \/ VersionMismatch(s)
      BY <3>1 DEF Invoke, ReadNonce, Dial, Served, Rejected, Disconnected, Fails, AutoProbe,
         ShimDies, VersionMismatch
    <3>2. CASE PollGone(s) \/ PollAlive(s) \/ Ready(s) \/ MkdirGuard(s) \/ RemoveStaleGuard(s)
               \/ MkdirGuardAgain(s) \/ NotReady(s) \/ RemoveGuard(s)
      BY <3>2 DEF PollGone, PollAlive, Ready, MkdirGuard, RemoveStaleGuard, MkdirGuardAgain,
         NotReady, RemoveGuard
    <3> QED
      BY <1>1, <3>1, <3>2
  <2> QED
    BY <2>1, OwnerKept
<1>2. CASE CleanupStaleUnixSocket(s)
  <2>1. /\ UNCHANGED <<dpc, inode, listening>> /\ sock' = None /\ sock \notin listening
    BY <1>2 DEF CleanupStaleUnixSocket, Note, Alive, NoTheft, SocketIncidents
  <2> QED
    BY <2>1, OwnerKept, NoneAssumption
<1>3. CASE SendShutdown(s)
  BY <1>3 DEF SendShutdown, Owner, DaemonGoto, TypeOK
<1>4. CASE KillOld(s)
  BY <1>4 DEF KillOld, Owner, DaemonGoto, TypeOK
<1>5. CASE \E d \in scenario.daemons : Fork(s, d)
  BY <1>5 DEF Fork, Unused, Owner, DaemonGoto, TypeOK
<1> QED
  BY <1>1, <1>2, <1>3, <1>4, <1>5 DEF ShimStep

-----------------------------------------------------------------------------
(* The nonce and the guard. *)

\* An incident is not forgotten.
LEMMA IncidentsStay ==
  ASSUME \/ \E d \in Daemons : DaemonStep(d)
         \/ \E s \in Shims : Invoke(s) \/ ShimStep(s) \/ ShimDies(s)
  PROVE  incidents \subseteq incidents'
<1> USE DEF fileVars, Note
<1>1. ASSUME NEW d \in Daemons, DaemonStep(d) PROVE incidents \subseteq incidents'
  <2>1. CASE StartByHand(d) \/ Probe(d) \/ RemoveStaleSocket(d) \/ Bind(d) \/ StatInode(d)
    BY <2>1 DEF StartByHand, Probe, RemoveStaleSocket, Bind, StatInode
  <2>2. CASE Setup(d) \/ SetupFails(d) \/ GenerateNonce(d) \/ GhostTick(d) \/ Terminate(d)
    BY <2>2 DEF Setup, SetupFails, GenerateNonce, GhostTick, Terminate
  <2>3. CASE Shutdown(d) \/ Crash(d)
    BY <2>3 DEF Shutdown, ShutdownStat, ShutdownUnlink, ShutdownListener, ShutdownNonce, Crash
  <2> QED
    BY <1>1, <2>1, <2>2, <2>3 DEF DaemonStep, StartUp
<1>2. ASSUME NEW s \in Shims, Invoke(s) \/ ShimStep(s) \/ ShimDies(s)
      PROVE  incidents \subseteq incidents'
  BY <1>2, ShimEffects
<1> QED
  BY <1>1, <1>2

\* Two daemons that have bound are one: both have the path.
LEMMA DaemonNonce ==
  ASSUME TypeOK, \A e \in Daemons : Owner(e), NonceOwned, "nonce" \notin incidents',
         NEW d \in Daemons, DaemonStep(d)
  PROVE  NonceOwned'
<1> SUFFICES ASSUME NEW e \in Daemons, dpc'[e] = "serve" PROVE nonceFile' = e
  BY DEF NonceOwned
<1>1. CASE GenerateNonce(d)
  <2>1. e # d => dpc[e] = "serve"
    BY OthersAside
  <2>2. e # d => sock = e /\ sock = d
    BY <1>1, <2>1 DEF Owner, GenerateNonce
  <2> QED
    BY <1>1, <2>2 DEF GenerateNonce
<1>2. CASE ShutdownNonce(d)
  <2>1. e # d
    BY <1>2 DEF ShutdownNonce, DaemonGoto, TypeOK
  <2>2. nonceFile = e /\ dpc[e] = "serve"
    BY <2>1, OthersAside DEF NonceOwned
  <2>3. "nonce" \in incidents'
    BY <1>2, <2>2, NoneAssumption DEF ShutdownNonce, Note
  <2> QED
    BY <2>3
<1>3. CASE ~GenerateNonce(d) /\ ~ShutdownNonce(d)
  <2>1. nonceFile' = nonceFile /\ \E l : l # "serve" /\ DaemonGoto(d, l)
    <3> USE DEF fileVars
    <3>1. CASE StartByHand(d) \/ Probe(d) \/ RemoveStaleSocket(d) \/ Bind(d) \/ StatInode(d)
      BY <3>1, Zenon DEF StartByHand, Probe, RemoveStaleSocket, Bind, StatInode
    <3>2. CASE Setup(d) \/ SetupFails(d) \/ GhostTick(d) \/ Terminate(d)
      BY <3>2, Zenon DEF Setup, SetupFails, GhostTick, Terminate
    <3>3. CASE ShutdownStat(d) \/ ShutdownUnlink(d) \/ ShutdownListener(d) \/ Crash(d)
      BY <3>3, Zenon DEF ShutdownStat, ShutdownUnlink, ShutdownListener, Crash
    <3> QED
      BY <1>3, <3>1, <3>2, <3>3 DEF DaemonStep, StartUp, Shutdown
  <2>2. e # d
    BY <2>1 DEF DaemonGoto, TypeOK
  <2> QED
    BY <2>1, <2>2, OthersAside DEF NonceOwned
<1> QED
  BY <1>1, <1>2, <1>3

LEMMA ShimNonce ==
  ASSUME TypeOK, NonceOwned, NEW s \in Shims, Invoke(s) \/ ShimStep(s) \/ ShimDies(s)
  PROVE  NonceOwned'
<1>1. nonceFile' = nonceFile
  BY ShimEffects
<1>2. \/ dpc' = dpc
      \/ \E d, l : DaemonGoto(d, l) /\ l \in {"probe", "cleanup", "exited"}
  BY ShimEffects
<1> QED
  BY <1>1, <1>2 DEF NonceOwned, DaemonGoto, TypeOK

\* A shim gets into the section that the guard protects by making the guard.
LEMMA ShimGuard ==
  ASSUME TypeOK, GuardOwned, "guard" \notin incidents',
         NEW s \in Shims, Invoke(s) \/ ShimStep(s) \/ ShimDies(s)
  PROVE  GuardOwned'
<1> USE NoneAssumption DEF GuardOwned, Starting, ShimGoto, TypeOK
<1>1. CASE Invoke(s) \/ ReadNonce(s) \/ Dial(s) \/ CleanupStaleUnixSocket(s)
  BY <1>1 DEF Invoke, ReadNonce, Dial, CleanupStaleUnixSocket, fileVars, Alive, Note
<1>2. CASE Served(s) \/ Rejected(s) \/ Disconnected(s) \/ Fails(s) \/ ShimDies(s)
  BY <1>2 DEF Served, Rejected, Disconnected, Fails, ShimDies, Finish, fileVars
<1>3. CASE VersionMismatch(s) \/ SendShutdown(s) \/ PollGone(s) \/ PollAlive(s) \/ KillOld(s)
  BY <1>3 DEF VersionMismatch, SendShutdown, PollGone, PollAlive, KillOld, fileVars
<1>4. CASE MkdirGuard(s) \/ MkdirGuardAgain(s)
  BY <1>4 DEF MkdirGuard, MkdirGuardAgain
<1>5. CASE RemoveStaleGuard(s)
  BY <1>5 DEF RemoveStaleGuard, Note
<1>6. CASE Ready(s) \/ NotReady(s) \/ RemoveGuard(s)
  BY <1>6 DEF Ready, NotReady, RemoveGuard, StartReturns, fileVars
<1>7. CASE \E d \in scenario.daemons : Fork(s, d)
  BY <1>7 DEF Fork, fileVars
<1>8. CASE AutoProbe(s)
  BY <1>8 DEF AutoProbe, StartReturns, fileVars, Alive
<1> QED
  BY <1>1, <1>2, <1>3, <1>4, <1>5, <1>6, <1>7, <1>8 DEF ShimStep

LEMMA AlwaysOwnInv == Spec => []OwnInv
<1>1. Init => OwnInv
  <2> SUFFICES ASSUME Init PROVE OwnInv
    OBVIOUS
  <2>1. scenario.old \subseteq Daemons /\ \A d, e \in scenario.old : d = e
    BY ScenariosAssumption DEF Init
  <2>2. ASSUME NEW d \in Daemons, d \in scenario.old PROVE Owner(d) /\ nonceFile = d
    BY <2>1, <2>2 DEF Init, Owner
  <2>3. ASSUME NEW d \in Daemons, d \notin scenario.old PROVE Owner(d) /\ dpc[d] # "serve"
    BY <2>3 DEF Init, Owner
  <2>4. GuardOwned
    BY DEF Init, GuardOwned, Starting
  <2> QED
    BY <2>2, <2>3, <2>4 DEF OwnInv, NonceOwned
<1>2. TypeOK /\ OwnInv /\ [Next]_vars => OwnInv'
  <2> SUFFICES ASSUME TypeOK, OwnInv, [Next]_vars PROVE OwnInv'
    OBVIOUS
  <2>1. CASE UNCHANGED vars
    BY <2>1 DEF OwnInv, NoTheft, Owner, NonceOwned, GuardOwned, Starting, vars, sysVars, fileVars,
       daemonVars, shimVars
  <2>2. ASSUME incidents \subseteq incidents' PROVE NoTheft' => NoTheft
    BY <2>2 DEF NoTheft
  <2>3. ASSUME NEW d \in Daemons, DaemonStep(d) PROVE OwnInv'
    <3>1. incidents \subseteq incidents'
      BY <2>3, IncidentsStay
    <3>2. NoTheft' => \A e \in Daemons : Owner(e)'
      BY <2>2, <2>3, <3>1, DaemonOwners DEF OwnInv
    <3>3. NoTheft' /\ "nonce" \notin incidents' => NonceOwned'
      BY <2>2, <2>3, <3>1, DaemonNonce DEF OwnInv
    <3>4. "guard" \notin incidents' => GuardOwned'
      <4>1. guard' = guard /\ spc' = spc
        BY <2>3, ShimsAside DEF shimVars
      <4> QED
        BY <3>1, <4>1 DEF OwnInv, GuardOwned, Starting
    <3> QED
      BY <3>2, <3>3, <3>4 DEF OwnInv
  <2>4. ASSUME NEW s \in Shims, Invoke(s) \/ ShimStep(s) \/ ShimDies(s) PROVE OwnInv'
    <3>1. incidents \subseteq incidents'
      BY <2>4, IncidentsStay
    <3>2. NoTheft' => \A e \in Daemons : Owner(e)'
      BY <2>2, <2>4, <3>1, ShimOwners DEF OwnInv
    <3>3. NoTheft' /\ "nonce" \notin incidents' => NonceOwned'
      BY <2>2, <2>4, <3>1, ShimNonce DEF OwnInv
    <3>4. "guard" \notin incidents' => GuardOwned'
      BY <2>4, <3>1, ShimGuard DEF OwnInv
    <3> QED
      BY <3>2, <3>3, <3>4 DEF OwnInv
  <2> QED
    BY <2>1, <2>3, <2>4 DEF Next, Steps, DaemonStep
<1> QED
  BY <1>1, <1>2, TypeCorrect, PTL DEF Spec

\* However shims and daemons overlap, start, stop and die: as long as no socket
\* was removed because of an old probe or by the Shutdown of a daemon that never
\* bound, a serving daemon has the path and its own inode, so there is only one.
THEOREM ServersHavePath == Spec => []ServersReachable
<1>1. OwnInv => ServersReachable
  BY DEF OwnInv, NoTheft, Owner, ServersReachable
<1> QED
  BY <1>1, AlwaysOwnInv, PTL

\* And as long as besides no Shutdown removed another's nonce, shims read the
\* nonce of the daemon that serves.
THEOREM ServersHaveNonce == Spec => []NonceReadable
<1>1. OwnInv => NonceReadable
  BY DEF OwnInv, NoTheft, NonceOwned, NonceReadable
<1> QED
  BY <1>1, AlwaysOwnInv, PTL

\* The .starting guard lets one shim at a time start a daemon, whoever dies with
\* it, unless it is taken from a living shim as stale.
THEOREM GuardExcludes == Spec => []OneStarts
<1>1. OwnInv => OneStarts
  BY DEF OwnInv, GuardOwned, OneStarts
<1> QED
  BY <1>1, AlwaysOwnInv, PTL

=============================================================================

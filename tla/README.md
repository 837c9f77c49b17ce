# kubelogin-daemon in TLA+

kubelogin-daemon is a credential plugin for kubectl. A short-lived *shim* (`get-token`)
asks a per-user *daemon* for an OIDC token over a Unix socket. The daemon keeps tokens in
memory, refreshes them in the background, and saves refresh tokens to files. If no daemon
answers, the shim starts one. If a person is needed, `kubelogin-daemon login` runs the
browser flow and hands the tokens to the daemon. A second program, the *stress test* under
`stresstest/`, drives kubectl against a live daemon for hours, injects faults and gives a verdict.

Most of the program is small sequential Go. What is hard to test is how its goroutines,
timers, processes and files interleave, and that is what these modules model.
Paths below are relative to `src/`.

## 1. The system

| part | code | how it interacts | model |
|---|---|---|---|
| Token manager | `pkg/daemon/token_manager.go` | one per cache key: an atomically swapped entry, a singleflight refresh, a proactive/retry timer, a persist watchdog, and `Stop`, which waits for the callbacks | `TokenManager`, `TokenRestart`, `CallbackDrain` |
| OIDC refresher | `pkg/daemon/refresher.go` | called by the manager; the provider may rotate, reject, or answer too late | in `TokenManager` |
| State machine | `pkg/daemon/state.go` | VALID, REFRESHING, NEEDS_LOGIN, LOGIN_IN_PROGRESS per key; locks each method only | `AuthState` |
| Request handlers | `pkg/daemon/server.go` | one goroutine per connection: read the state, use the manager, write the state | `AuthState`, `ManagerTable` |
| Manager table | `pkg/daemon/server.go` | `sync.Map` with a cap, eviction and a mutex; post-wake refreshes; `Shutdown` stops what is in it | `ManagerTable` |
| Persistence | `pkg/daemon/persist.go` | temporary file, fsync, rename; corrupt files deleted; migration from a legacy directory | `PersistFile` |
| Start, election, shutdown | `pkg/daemon/server.go`, `transport_unix.go`, `main.go` | bind decides who serves; inode and nonce identify the winner | `DaemonLifecycle` |
| Shim | `pkg/shim/*.go` | three attempts, auto-start behind a `.starting` guard, replacement of a daemon of another version | `DaemonLifecycle` |
| Login command | `main.go` | begin-login, browser, store-token, cancel-login, daemon replacement | client side of `AuthState`; its cache key in `ExecArgs` |
| Setup commands | `main.go` | `setup install`, `migrate`, `upgrade` rewrite the kubeconfig, which other tools write too | `Setup`, `ExecArgs` |
| Stress run | `stresstest/internal/{orchestrator,workload,reaper,recorder,reporter}` | four subsystems under one deadline; workers share a resource tracker with the reaper; the report reads what the recorder wrote | `StressRun` |
| Chaos engine, health monitor | `stresstest/internal/{chaos,health}` | a loop per fault behind one mutex; the monitor polls the daemon they disturb | `Chaos` |

Section 6 says what is not modelled and why.

## 2. The modules

Every module takes an action to be one critical section, one atomic access, one system
call or one message, whichever the code has there. Tokens are numbers or classes
(fresh, expired, none), time is a set of things that have expired and timers that may fire
at any moment, processes are elements of a constant set.

### TokenManager

State: the fields of the Go struct (`current`, `timer`, `retryCount`, `wd`, `wg`,
`stopped`), where the one refresh closure is (`flight`), the positions of callers,
callbacks, logins and Stop calls, the persist file (`disk`), and the provider's side
(`issued`, `live`, `consumed`). `lost` and `reused` are history.

Actions follow the code: `Flight*` is the closure in `Refresh` (load, exchange, store, persist,
reset, reschedule); `ScheduleProactiveRefresh` and `ScheduleRetry` are the two schedulers
with the WaitGroup bookkeeping of `Rearm`; `Callback*` and `Watchdog*` are the timer
callbacks; `Login*` is store-token on an existing manager; `StopLocked` and `StopWait` are
the halves of `Stop`. `ProviderGrant` may or may not rotate; its answer may be lost.
The check of `m.ctx` at the head of a callback is merged with the load or the singleflight
entry after it: both orders with `Stop` lead to the same states.

`CallbackDrain` is the abstract promise of `Stop`: background work comes and goes, then only
drains, then is gone. `DrainSpec` is that specification under the mapping
*tasks = armed timers + running callbacks*.

`TokenRestart` extends it with crashes: `Restart` rebuilds the manager from the file.

### AuthState

One key's state, the age of its login, the manager's token and the file, with handlers
(get-token, refresh, check, post-wake) and login commands. `GetState` is two actions,
because the code releases its read lock before it takes the write lock. `EvictManager`
and `EvictStale` are the daemon's two ways to drop an entry. A handler whose manager was evicted under
it keeps the old object (`gone`). A refresh may also panic: the connection's deferred function recovers
and sets no state (`RefreshPanics`, `Recover`). What `Refresh` does inside is TokenManager's business.

### ManagerTable

The table, `managerCount`, `managerMu`, and goroutines that build a manager outside the
mutex and publish or stop it inside. Eviction is five steps: pick and read, save, stop,
wait, delete. Any manager in the table may be the victim, so the result does not depend on
the LRU order. Managers are objects with an identity; `Garbage`/`Release` are the collector.
Reading the victim's token belongs to the locking step, and the map lookup to the
request step; both commute with everything that may come between.
State entries are left to AuthState, the watchdog to TokenManager.

`Shutdown` ranges over the table one key at a time (`StopNext`, `PassOver`, `Stopped`) and takes no
mutex, so handlers publish and evict around it; `ahead` holds the keys the range has still to
visit, `current` the manager whose callbacks it waits for, and `targets` remembers what was in the
table when it began. A wake goroutine that waits for a slot gives up when the daemon goes down
(`WakeGivesUp`), and `Exit` ends the process with whatever handlers are still under way.

### PersistFile

One key's file. A file has a token, whether it parses, and whether its data are on the disk.
`stable` is what the directory on the disk points to, because the code does not sync the
directory. Writers, readers, two starting daemons that migrate, and the cleanup run
concurrently; a daemon may be killed and the power may fail at every step. The temporary files that a
killed process leaves are not followed: they have names of their own and nothing reads them.

### DaemonLifecycle

The three files of the runtime directory (socket, nonce, `.starting`), each named by who
made it, daemons and shims as processes. A scenario fixes what the environment does (start by hand,
orderly stop, kill, set-up failure, a shim killed or giving up), which daemons may be started,
which of them is of an older version and serves at first or is dead and has left its files, and how often
kubectl calls. `incidents` is history: it notes the four removals that take something from a process which
still uses it (a socket removed because of an old probe, or by a daemon that never bound; a nonce removed by
another's Shutdown; a guard that was not stale).
A shim that meets the older version asks it to shut down, polls, kills it if it stays, and
starts its own (`VersionMismatch` to `KillOld`).

### ExecArgs and Setup

`ExecArgs` has no state. An argument is a token (`--name=value`, `--name`, or a word), and the
module has both readings of an argument list: `parseExecArgs` with `resolveFromKubeconfig`, by which
`login` finds its cache key, and pflag's, by which `get-token` does. pflag is external and
modelled from the flags `main.go` registers. `ComputeChecksum` is the *set* of keys a
configuration may get: the code hashes a gob encoding, and gob writes a map in iteration
order. `PlainArgs` names the spellings on which the two readings are meant to agree (section 4
has the others), and `PlainFlags` those that `setup install` writes so that they are read back. Texts are
opaque; five constants say what the functions of Go's `strings` and `csv` packages make of
those they take apart or change (`CommaLists`, `CsvLists`, `Trimmed`, `Unquoted`, `KeyValues`).

`Setup` runs install, migrate and upgrade as processes: load, confirm or test login, back up,
write, stop the daemon, delete old binaries, all on one kubeconfig file. Other tools edit the file between any two steps, and
`Abandon` ends a command at any step. `made`, `unprotected` and `alone` are history.

### StressRun

One run, from the start of the subsystems to the verdict. The orchestrator's select, drain, 60 s wait,
closing of the recorder, report and verdict are one action each. The generator works in batches; a
worker reserves a slot, runs its command, and commits or releases the slot. The reaper sweeps and, when the test
context ends, cleans up while the last commands are still ending. The cluster is external: a
create takes effect at any time until it is answered, and may still do so after kubectl was cut off
(`inflight`, `failed`). A row of the database is what the report tells apart: its kind and
whether it succeeded. Scenarios fix the crew, the batches, the command mix and what may go wrong.

### Chaos

The five fault loops with their mutex, global cooldown and the exclusion window S2 between a kill and a
corruption; the daemons they kill, orphan and starve; the token file, which a new daemon loads at its first
get-token (`LoadToken`, not `Restart`) and its watchdog rewrites; and the three branches of a health poll,
with and without `IdleAwareProbing`. Time is counted only where S2 depends on
it: `Tick` advances the time since the last kill, the last corruption and the last watchdog run.
`leftover` is history: a fill file could not be removed. So is `excused`: it becomes true when something
outside S2 kept the watchdog from repairing the file.

### How they fit

`TokenRestart` extends `TokenManager`; `TokenManager` implements `CallbackDrain`. The others meet at
interfaces one module abstracts and another details: `Persist` in ManagerTable and the
persist steps of TokenManager (replaced or untouched) are what PersistFile justifies by
`NeverTorn` and `KeptOnceSaved`; ManagerTable's wait in `EvictDelete` ends because of
`StopReturns`; AuthState's `RefreshOk`/`RefreshError` are the two results TokenManager's
`RefreshReturns` promises; ManagerTable's `StopNext`/`Stopped` are the halves of TokenManager's Stop; the
daemon of Chaos restarts as `Recovers` says and saves as `DiskConverges` says; StressRun's chaos and
health subsystems return because of `ChaosStops`. This is an argument, not a checked composition.

## 3. Runs

| run | instance | shows | states |
|---|---|---|---|
| `TokenManager_live` | 1 caller, 1 callback, 1 Stop, 2 tokens | `NoTokenUsedTwice`, `StopReturns`, `RefreshReturns`, `DiskConverges`, `DrainSpec` | 76 000 |
| `TokenRestart_crash` | 1 callback, 1 login, 2 Stops, 2 tokens, 2 crashes | `WgAccounting`, `WatchdogAlive`, `RestartLossesExplained` | 438 000 |
| `AuthState_login` | 1 handler and 2 logins, or 2 handlers | `OrphanedByPanic`, `ReadersKeepLogin`, `StateHeals`, `RefreshingEnds` | 295 000 |
| `Setup_commands` | 2 processes, 2 users, 4 argument lists, 2 commands | `TypeOK`, `EntriesRunnable`, `EditsRecoverable`, `KeysAgree`, `InstallRoundTrip` | 156 000 |
| `ManagerTable_table` | 2 keys, cap 1, 2 goroutines, 4 objects; failing saves, or a shutdown | `CountExact`, `NoOrphan`, `StoppedAtExit` | 405 000 |
| `PersistFile_crash` | 2 writers, 1 reader, 2 migrators, 2 crashes | `NeverTorn`, `KeptOnceSaved`, `MigrationKeepsToken` | 785 000 |
| `DaemonLifecycle_serving` | 1 shim, up to 3 daemons: crashes under demand, or all faults, from an empty directory, from a dead daemon's and with an old daemon; 2 shims and 2 daemons, with and without an old one | `TypeOK`, `ServersReachable`, `NonceReadable`, `OneStarts`, `Recovers`, `ShimReturns` | 215 000 |
| `StressRun_run` | up to 2 workers and 3 batches, capacity 1, six scenarios | `SlotAccounting`, `CreatedIsTracked`, `CompleteUnlessFailed`, `EarlyStopFails`, `RunEnds`, `DoubleFaultStops` | 424 000 |
| `Chaos_faults` | window 3, watchdog 2, 2 daemons, eight sets of faults | `TokenSurvives`, `FaultsUndone`, `RestartsReal`, `OrphanOnly`, `ChaosStops` | 348 000 |
| `TokenManager_coverage` | 1 callback, 1 login | violates `ProactiveCoverage` | |
| `ManagerTable_eviction` | as the table, no failing save | violates `EvictionKeepsToken` | |
| `DaemonLifecycle_election` | 2 shims, 2 daemons, no fault | violates `OneDaemonServes` | |

To run one: `tlc -workers 2 -config ManagerTable_table.cfg MCManagerTable`. The module is
`MC` + the part before the underscore (`PersistFile_crash` runs `PersistFile` itself).

Type invariants that are proved for every instance (section 5), and with them `LockDiscipline` and
`StopWaitsForCallbacks`, are not checked again here. What the properties say, beyond their names:

- `WgAccounting`: the WaitGroup equals the armed timers and running callbacks in every state. One slot
  too many hangs `Stop`; one too few panics the daemon.
- `NoTokenUsedTwice`: a refresh token the provider has rotated away is presented again only if the
  answer carrying its successor was lost. That case cannot be avoided by the client.
- `DiskConverges`: once a live manager's token stops changing, the file ends up holding
  it, whatever failed and stale saves came before.
- `RestartLossesExplained`: a restart with a dead refresh token has one of four
  causes: lost answer, failed save, crash before the save, or a stale save by a concurrent writer.
- `OrphanedByPanic`: REFRESHING, which no timeout ends, has a handler on its way to replace it; of all steps only
  a recovered panic of that handler's refresh takes it away.
- `RefreshingEnds`: also then the key does not stay REFRESHING. Requests go past that state to the manager and
  set one of their own, so it ends with the first one that does not panic.
- `ReadersKeepLogin`: the unlocked gap in `GetState` never ends a login that is in its time.
- `StateHeals`: a key with a fresh token becomes VALID again and again, whatever dead logins,
  overwritten states and evictions came before.
- `NoOrphan`: a manager whose timers run is in the table or held by the handler that will
  publish or stop it.
- `NeverTorn`, `KeptOnceSaved`: fsync before rename makes the file whole after any crash, and no reader
  deletes a file the daemon wrote.
- `MigrationKeepsToken`: whoever dies, whoever overlaps, one of the two places has a token.
- `EntriesRunnable`: if no two setup commands overlapped, an entry never names a daemon binary that is gone,
  wherever a command was killed. The property is about one kubeconfig file: an upgrade does not look into
  others that may name the binary it deletes.
- `EditsRecoverable`: a setup command writes back the file it loaded before the prompt, so another tool's
  edit may be dropped; it is then in a backup, unless it came between backup and write or
  `--backup=false` was given.
- `KeysAgree`: for plain spellings (`PlainArgs`), `login` stores a token under the key with which `get-token` asks
  for it. The run has one entry outside them, on which the two do differ.
- `InstallRoundTrip`: `get-token` reads from the written entry what `setup install` was given, if no scope has a
  comma or a quote and no parameter or header is one that pflag takes apart (`PlainFlags`).
- `ServersReachable`: a serving daemon is the one at the socket path and has recorded its own inode. So there is
  one, and it would notice if its socket were replaced. Two removals can end this, and the
  property names them: by a shim or a daemon whose probe is no longer true, and by the Shutdown of a
  daemon that never bound.
- `NonceReadable`: the nonce file is the serving daemon's, over failing starts, crashes and replacements, until one
  of these, or the Shutdown of another daemon, has removed it.
- `OneStarts`: one shim at a time starts a daemon, also when several find a guard that a dead one left, until a shim
  that took more than 10 s had its guard taken as stale.
- `Recovers`: after the last crash, service with a matching nonce and of the shim's own version comes back,
  whatever was left behind and whether or not an older daemon was serving.
- `StoppedAtExit`: what was in the table when Shutdown began is stopped and drained at exit, although handlers
  publish and evict around the range. One exception is real: a callback for which an eviction already
  waits may be cut off, since the second Stop returns at once.
- `SlotAccounting`: resources and reservations together never exceed the tracker's capacity, over
  workers and sweeps in every order.
- `CreatedIsTracked`: a resource in the cluster is known to the reaper, or its create is still running or was
  reported as failed.
- `CompleteUnlessFailed`: a verdict other than FAIL comes from a run whose subsystems have all stopped; if it
  counts no orphans, only creates that kubectl reported as failed are left. It does not say that every row is in
  the report: the last flush may come after it (section 4).
- `EarlyStopFails`: a signal or a subsystem's error never ends in a passing verdict.
- `RunEnds`: there is a report even if a subsystem hangs.
- `DoubleFaultStops`: after that many daemon errors in a row no batch begins, whatever the running workers still report.
- `TokenSurvives`: S2 does what it is for. The token is in its file or in the daemon that serves. If it is in
  neither, there is one of three other causes: no daemon that had loaded it served when the file
  was corrupted, the disk was full when the watchdog saved, or the daemon went idle before it did.
- `FaultsUndone`: when the engine has returned, the connections are free again, and so is the disk, unless a fill
  file could not be removed. `fillDisk` only counts such files in its event; the next run deletes them.
- `RestartsReal`: the monitor never counts more restarts than there were.
- `OrphanOnly`: the kill that ends delete_socket never hits the replacement.
- `ChaosStops`: the engine returns after the test, whichever loop holds or awaits the mutex.

Each property of a passing run has a mutant: an operator beside the definition that changes
it as a plausible slip would (`RearmLeaksSlot`, `SyncForgotten`, ...) and breaks the property.

### Bounds

One refresh callback and a login are enough for a timer to be re-armed while its old
callback runs, and two Stops for the second to find the first one waiting. A second callback
that starts while the first runs is covered by the proofs, which are for any number. Two tokens
give one rotation, before or after a crash. `RetryCap` is the saturation point of the retry
counter, whose value no guard reads. AuthState has two logins, which can cancel each other, and a
handler, or two handlers, whose refreshes overlap; its safety properties are proved for any number. Setup's two commands are the
least that overlap, and each of its argument lists combines several spellings: a flag's value that
looks like a flag, a repeated flag, a word after a Boolean, padded and quoted values. ManagerTable needs more keys than the
cap and one object per goroutine beyond those in the table; its shutdown scenario has one token,
since the properties about shutdown do not read tokens. PersistFile's second migrator gives the
overlap of two starting daemons, its second writer that of a store-token and a refresh. DaemonLifecycle's daemons are never reused:
three allow two crashes in a row, or an old daemon and one crash of its successor. Two shims are the
least that contend for the guard. In StressRun capacity 1 makes two workers
compete, and `MaxConsecutive` 2 with three batches lets a double fault come before the last one
(20 in the code). Chaos keeps the order of the code's 6 minutes and 5 minutes; two daemons
are one restart (the theorems are for any number). `MaxCrashes`, `MaxBatches` and `MaxDaemons` only bound the search.
Symmetry is used in safety runs only.

Deadlock is not checked where a behaviour may rightly end: `Setup_commands` (`MaxCommands`),
`TokenRestart_crash` (all Stops done), `StressRun_run` (the report is out) and `Chaos_faults` (engine
and monitor have returned).

### Fairness

- Goroutines that have started are scheduled, and a provider round trip ends: the code gives it 30 s.
  Nothing is assumed about requests, timers, expiry or Stop, except in `DiskConverges`.
- `DiskConverges`: the runtime fires an armed watchdog timer (weak), and a write tried again and again
  succeeds in the end (strong): without it a full disk stays behind for good.
- `StateHeals`: kubectl keeps asking, and time passes. The first is strong fairness, since a handler is
  idle again and again and not continuously.
- `RefreshingEnds`: the same; that refreshes stop panicking is a hypothesis of the property.
- `Recovers`: kubectl keeps calling, and a guard nobody removes grows older than 10 s.
  `ShimReturns` needs only scheduling.
- `RunEnds`: the deadline passes, goroutines are scheduled, and kubectl ends within its timeout. A select that
  is offered both the reaper's ticker and the end of the context takes the latter in the end (strong).
  In scenarios where a subsystem may hang, nothing is assumed of the reaper, the engine and the monitor.
- `ChaosStops`: timers expire, a free mutex is taken, and each fault ends within its own timeouts and the
  2 minutes of its context. Nothing is assumed of the daemon.

## 4. Where the code and its own words disagree

1. **A retry may cancel the proactive refresh of a newer token** (`TokenManager_coverage`,
   `token_manager.go:312`). A callback whose refresh failed calls `scheduleRetry` with the
   entry it captured. If a login has armed a timer for a new token meanwhile and the old one has
   expired, the new timer is stopped and none is armed. The README promises background refresh at
   80% of the lifetime.
2. **Eviction may put back a rotated-away refresh token** (`ManagerTable_eviction`,
   `server.go:1238`). The token is read, saved, and then the manager is stopped. A refresh that
   stores and saves in between has its newer token overwritten, although the comment says
   the save is there so that the token "can be reloaded on next access".
3. **Two shims may start two serving daemons** (`DaemonLifecycle_election`,
   `autostart.go:32`). The socket is removed because of a probe that is no longer true. The design
   document says that of the forked daemons "exactly one succeeds".

Met while modelling, described under the hazards and not pinned to a run: an orderly shutdown removes the
nonce file last and may take its successor's; a daemon that recorded another's inode never finds out that it
is a ghost, and with the default idle timeout of 0 it stays; a panic in a refresh leaves the key in
REFRESHING until the next request; the loser of the election calls Shutdown and, with no inode recorded, removes the
live socket; an on-demand refresh is not in the WaitGroup and outlives Stop; CompleteLogin
writes VALID from any state, while its comment says it does so only from LOGIN_IN_PROGRESS.

About cache keys: with two extra parameters or two headers the key depends on map
iteration order, while `main.go:1868`, `main.go:2073` and `repository.go:204` call it deterministic.
`parseExecArgs` and pflag differ on a Boolean flag followed by the word true or false, on
`=FALSE` and `=0`, on single-dash flags, on empty, padded or quoted list items, on quotes around a map entry or
several entries in one value (`a=1,b=2` is two entries to pflag and one to `parseExecArgs`), on giving both aliases of the
extra parameters, and on giving a flag of the PKCE or the renegotiation group twice. `login`
accepts entries whose command is called exactly `kubelogin-daemon`, `setup upgrade` every name with that prefix.
Two overlapping setup commands may write back an entry whose binary the other has deleted.

About stopping: the comment in `refreshExpiredTokensAfterWake` says "so Shutdown waits for it", which it does
not; Stop returns at once on a manager that an eviction is stopping, so the process may exit in the
middle of that callback; after a version mismatch the shim's shutdown request goes to whoever
listens by then; a comment in `shim.go` gives get-token 5 seconds where the constant is 12. `clean` deletes token files
that a refresh in flight writes again.

About the stress test: `Recorder.Close` does not wait for the last flush, although its comment says "Close flushes
remaining data and stops the flush loop"; nothing fills the report's token integrity, so that a
complete run is at best DEGRADED; the violations read from the database are overwritten by a counter
nobody increments; commands that fell back to a read at capacity count as created; the final cleanup untracks
nothing it deletes in bulk, so its orphans include deleted resources; jobs are tracked under the
kind "apply", which no sweep can delete; a create that was cut off may leave a resource nobody tracks; a loop that
waited for the cooldown does not look again whether another fault came meanwhile, and one that waited
for the mutex may inject its fault after the test has ended; errors sent after the orchestrator's
drain are lost; a comment in `engine.go` delays a kill by 2 minutes where `exclusionWindow` is 6;
the memory limit is looked at only in polls that skip the socket; a fill file that cannot be removed is mentioned
in the event and stays, with the disk full, for the rest of the run.

## 5. Proofs

All for arbitrary sets of processes and arbitrary bounds, checked by TLAPS.
Assumptions, each in the module that declares the constants: `FiniteProcesses` (finitely many callback goroutines, none of
them also a caller) and `Bounds` in `TokenManager`; `CapAssumption` in `ManagerTable` (a cap of at least one,
finitely many keys); `BoundsAssumption` in `PersistFile` and `CrewsAssumption` in `AuthState` (types); `WorkersAssumption`,
`ResourcesAssumption`, `NoneAssumption` in `StressRun` (finitely many workers, capacity at least one);
`WindowAssumption` in `Chaos` (the exclusion window is longer than the watchdog's interval, as
6 minutes are longer than 5); `NoneAssumption` in `DaemonLifecycle` and `SetupAssumption` in `Setup` (`None` is no process, path,
context or command; the maps have their domains); and the type of each `Scenarios`.

| theorem | module | argument |
|---|---|---|
| `TypeCorrect`, `WaitGroupExact`, `WatchdogStaysAlive` | `TokenManagerProofs` | together, from `IInv` |
| `RotatedTokenNotReused` | `TokenManagerProofs` | `IInv`, `ProviderInv` and `RotationInv` |
| `StopLeavesNothing` | `TokenManagerProofs` | `IInv` and `StopInv` |
| `StopDrains` (refinement of `CallbackDrain`) | `TokenManagerProofs` | the same, with `DrainStep`, `StoppedStep`, `WaitedStep` |
| `RestartKeepsAccounts`, `RestartKeepsWatchdog`, `LossesExplained` (of `RestartSpec`) | `TokenManagerProofs` | `IInv`, `ProviderInv` and `LossInv` over crashes; the last is an action property |
| `TypeCorrect`, `OnlyPanicOrphans` | `AuthStateProofs` | `OwnerKept`; the second is an action property |
| `ReadersKeep` (`ReadersKeepLogin`) | `AuthStateProofs` | directly, from the guards of the write-lock section |
| `TypeCorrect`, `MutexDiscipline`, `CountIsExact`, `NoneOrphaned`, `ExitsStopped` | `ManagerTableProofs` | together, from its `IInv` |
| `TypeCorrect`, `FileNeverTorn`, `SavedIsKept`, `MigrationKeeps` | `PersistFileProofs` | from its `IInv`; the last two are action properties |
| `TypeCorrect`, `SlotsAccounted`, `NothingUntracked`, `EarlyStopNeverPasses`, `NoFalseVerdict`, `NoBatchAfterDoubleFault` | `StressRunProofs` | from its `IInv`; the last is an action property |
| `TypeCorrect` | `DaemonLifecycleProofs` | its `IInv`: the types and `AttemptsLeft` |
| `ServersHavePath`, `ServersHaveNonce`, `GuardExcludes` | `DaemonLifecycleProofs` | `OwnInv` |
| `TypeCorrect`, `UpgradeKeepsEntries`, `BackupsKeepEdits` | `SetupProofs` | its `IInv`: `Types`, `Runnable`, `Saved` |
| `TypeCorrect`, `ExclusionWindowSuffices`, `EngineUndoesFaults`, `MonitorCountsRestarts`, `OrphanKilledOnly` | `ChaosProofs` | from its `IInv`; the last is an action property |

`IInv` in the next four paragraphs is that of `TokenManagerProofs`.

`IInv` is `TypeOK`, `FlightInv`, `WgAccounting`, `WdExclusive` and `WatchdogAlive`. The types are not
inductive alone: storing the provider's answer keeps `current` an entry only because the closure
holds one by then (`FlightInv`), and `wg` stays a natural number only because it equals a count. The count
goes right because the watchdog's callback never runs twice at once (`WdExclusive`).
A callback that starts or ends changes the cardinality of the busy set by one (`BusyChanges`).

`RotationInv` says where a rotated-away token may still be: in `current` while the answer with its
successor is about to be stored, or for good if that answer was lost. So the closure never
loads one that was not lost. It also needs the provider's side (`ProviderInv`): what is accepted has not been
rotated away.

`StopInv` says that a stopped manager has no armed timer (every scheduler looks at `stopped` under the
mutex), and that a Stop which waited saw an empty WaitGroup, which by `WgAccounting` means nothing
was running. Callbacks come from armed timers only, so nothing runs later. The refinement
follows: while stopped, a step takes at most one task away.

Over crashes, `LossInv` follows a rotated-away token to the disk: the file holds one only if the
answer with its successor was lost, the save of the successor failed or has not happened yet, or a
concurrent persist wrote the old entry last. `ProviderInv`, the provider's side, survives a
crash because the provider does; the rest of `IInv` is established again by the manager that is built.

`OwnerKept`: a step orphans nothing if it writes a state other than REFRESHING, or leaves the state alone and no
handler on its way to replace it stops being one. Each action is one of the two, except the one that
enters REFRESHING, whose handler is on its way, and the panic.

**ManagerTable.** `CountExact` needs that a publisher under the mutex has room or finds its key there already
(`Evictions`), and that nobody else is inside (`LockDiscipline`). `NoOrphan` needs that an unpublished manager
belongs to one handler and runs until that handler gives it up (`Owning`, `OwnRuns`), and that a victim
leaves the table only after it was stopped. `StoppedAtExit` needs `Ahead`: a manager that Shutdown must
stop and that still runs is in the table under a key the range has not visited, because only stopped managers
leave it; and `Draining`: a stopped manager has a callback left only while some Stop waits for it.

**PersistFile.** `Whole`: file and directory entry are missing, corrupt from the beginning, or whole and
on the disk. It is kept because whatever reaches the rename was synced (`Temps`), so that a power loss
changes nothing in the file it leaves (`PowerLossKeeps`). `Kept` says that a reader about to delete has
seen known damage and that a migrator removes the source only with the copy in place.

**StressRun.** The tracker's count is the number of workers that hold a slot. A resource stays known because
names are fresh (`Fresh`: no create to come uses a tracked name), a create on its way belongs to a running
worker or was given up (`Sent`), and what the reaper is about to untrack is gone from the cluster (`Swept`).
`Stopped` follows the reason of an early stop from the signal or the error channel to the verdict.
`NoFalseVerdict` needs `Ended`: an orchestrator that was not interrupted passes its wait only when every subsystem
has returned, the workload returns only after its crew, and what is tracked stays what it was when the
verdict counted it. A create on its way holds a slot, which is counted (`HeldIsReserved`), so by then there is none.

**Chaos.** `Repairable`: if the token is not in the file and nothing excuses that, the serving daemon holds it and its watchdog has not run since the corruption.
As the window is longer than the watchdog's interval, a kill that S2 lets through finds the file
repaired. `Younger` orders PIDs by age: the serving daemon is the youngest, so the PID that delete_socket noted is
its own or an older one. `Holding` says which loop will give back what is held, or that a file was left.

**DaemonLifecycle.** The types need `AttemptsLeft`: a shim about to try has a try left. That two daemons never
serve is false (section 4, `DaemonLifecycle_election`), so the theorems say what holds until one of the
noted removals, for any number of shims and daemons, any overlap and every fault. `OwnInv` has a part for each
file. The socket (`Owner`): a daemon that has bound has the path from its bind until its own Shutdown, records its
own inode because nobody can have bound in between, and passes the comparison in `transportCleanup` only while the
path is its own. The nonce (`NonceOwned`): a daemon writes it before it serves, and whoever else would write it must
have bound first, which the first part excludes. The guard (`GuardOwned`): a shim that is starting a daemon
made the guard, and mkdir succeeds for one.

**Setup.** `Types` includes what a command holds (`Sound`): its copy of the file is a file, its arguments are
those it built. `Saved`: a command that has backed up and is about to write has every edit in a backup,
except those made since. `Runnable`, for commands that do not overlap: the entries name
binaries that exist, in the file and in the command's copy; what an upgrade will delete is not its own executable
and is named by no entry it leaves alone, and after its write by none.

Only model-checked: liveness (`StopReturns`, `RefreshReturns`, `DiskConverges`, `StateHeals`,
`RefreshingEnds`, `ShimReturns`, `Recovers`, `RunEnds`, `ChaosStops`), which is beyond the prover, and what
the parsers of `ExecArgs` compute (`KeysAgree`, `InstallRoundTrip`), which is induction over data. Every other
safety property of a passing run is a theorem.

## 6. Not modelled

PROJECT.json lists every part with its status. Left out, and why:

- Interactive flows, OIDC client library: sequential I/O against the provider. Their outcomes are actions of
  AuthState and TokenManager.
- Windows transport: named pipes have neither a stale file nor an inode, and the kernel decides the election.
- Permission and peer checks, message formats, logs, the SQLite schema, the stress test's tables and
  configuration: data. Where a failure matters it is an action (`SetupFails`, `Fail`, a failing flush).
- import, clean, status, version: one pass over files or one request each. That `clean` races with a
  save is noted in section 4; a save after it is an ordinary save.
- The connection semaphore and the idle clock of the server: a full semaphore only fails the
  request that meets it, and going idle is an orderly stop.
- Which key EvictStale takes and which manager is the oldest: any may be taken, which covers every order. The
  back-off is a delay that passes.
- `ensureHealthyDaemon` of the login command: a health request, then the shim's kill and auto-start, run
  once before the login. A login that it stops never begins.
- What follows one of the removals noted in `incidents` is modelled, but of the properties that such a removal ends
  nothing is promised afterwards; `TypeOK` and `ShimReturns` hold all the same. Spellings outside `PlainArgs` are modelled and promised nothing. Section 4
  says what the code does there.
- A login after the token was lost in Chaos: the stress test has nobody to log in.
- The chaos engine's Windows variant of delete_socket, and the rows that chaos and health record: no property
  reads them.
- The mocks: generated code.

---------------------------- MODULE TokenManager ----------------------------
(***************************************************************************)
(* One TokenManager (pkg/daemon/token_manager.go): the atomically swapped  *)
(* token entry, the singleflight refresh, the proactive/retry timer, the   *)
(* persist watchdog, the WaitGroup that Stop waits for, the persist file   *)
(* of the manager's cache key and the OIDC provider it refreshes against.  *)
(*                                                                         *)
(* An entry is [id, rt]: the number of the ID token and of the refresh     *)
(* token.  rt = 0 is the empty refresh token.  The provider numbers what   *)
(* it issues; a rotating grant issues both under one number, a             *)
(* non-rotating one keeps the old rt.  Time is abstracted to the set of ID *)
(* tokens that have expired, and to timers that fire at any moment.        *)
(*                                                                         *)
(* Every action is one critical section (timerMu), one atomic pointer      *)
(* access, one provider round trip half or one rename of the persist file. *)
(***************************************************************************)
EXTENDS Integers, FiniteSets

CONSTANTS
  Callers,    \* request and post-wake goroutines that call Refresh
  Callbacks,  \* goroutines in which refresh-timer callbacks run
  Logins,     \* store-token handlers calling SetInitialToken on this manager
  Stoppers,   \* callers of Stop: Shutdown, eviction, the loser of a race
  MaxToken,   \* bound: tokens the provider issues
  RetryCap    \* bound: retryCount saturates here (the code's shift stops at 5)

ASSUME FiniteProcesses ==
  /\ IsFiniteSet(Callbacks)
  /\ Callers \cap Callbacks = {}

ASSUME Bounds == MaxToken \in Nat \ {0} /\ RetryCap \in Nat

VARIABLES
  current,    \* m.current, the entry every reader sees
  flight,     \* where the single in-flight refresh closure is, or "none"
  old,        \* the entry the closure loaded
  new,        \* the entry built from the provider's answer
  pc,         \* each Refresh caller's and each callback's position
  cbFor,      \* per callback: ID token of the captured entry, 0 in a retry
  timer,      \* m.refreshTimer: nil, armed, or spent (fired or stopped)
  timerFor,   \* what the armed timer's closure captured, 0 for a retry timer
  retryCount, \* m.retryCount
  wd,         \* m.persistTimer: nil, armed or spent
  wdPc,       \* position of persistWatchdogCallback
  wdEntry,    \* the entry the watchdog loaded
  wg,         \* m.callbackWg
  stopped,    \* m.stopped, set together with the cancellation of m.ctx
  stopPc,     \* position of each Stop call
  login,      \* position of each store-token handler
  loginEntry, \* the token each store-token handler carries
  disk,       \* the persist file of the cache key, NoEntry if missing
  expired,    \* ID tokens whose expiry has passed
  issued,     \* provider: number of tokens issued
  live,       \* provider: refresh tokens it accepts
  consumed,   \* provider: refresh tokens it has rotated away
  lost,       \* history: rotated away, but the answer never arrived
  reused      \* history: presented although already rotated away

entryVars    == <<current, disk>>
flightVars   == <<flight, old, new>>
procVars     == <<pc, cbFor>>
timerVars    == <<timer, timerFor, wg>>
wdVars       == <<wd, wdPc, wdEntry>>
stopVars     == <<stopped, stopPc>>
loginVars    == <<login, loginEntry>>
providerVars == <<issued, live, consumed, lost, reused>>
vars == <<entryVars, flightVars, procVars, timerVars, retryCount, wdVars,
          stopVars, loginVars, providerVars, expired>>

Procs   == Callers \cup Callbacks
Ids     == 1..MaxToken
Rts     == 0..MaxToken
Entry   == [id : Ids, rt : Rts]
NoEntry == [id |-> 0, rt |-> 0]
Fresh(e) == e.id \notin expired
Num(b)   == IF b THEN 1 ELSE 0

TypeOK ==
  /\ current \in Entry
  /\ disk \in Entry \cup {NoEntry}
  /\ flight \in {"none", "begun", "loaded", "sent", "granted", "stored",
                 "persisted", "reset"}
  /\ old \in Entry \cup {NoEntry}
  /\ new \in Entry \cup {NoEntry}
  /\ pc \in [Procs -> {"idle", "fired", "refreshing", "failed", "done"}]
  /\ cbFor \in [Callbacks -> 0..MaxToken]
  /\ timer \in {"nil", "armed", "spent"} /\ timerFor \in 0..MaxToken
  /\ retryCount \in 0..RetryCap
  /\ wd \in {"nil", "armed", "spent"}
  /\ wdPc \in {"idle", "fired", "loaded", "persisted"}
  /\ wdEntry \in Entry \cup {NoEntry}
  /\ wg \in Nat
  /\ stopped \in BOOLEAN
  /\ stopPc \in [Stoppers -> {"idle", "waiting", "waited", "skipped"}]
  /\ login \in [Logins -> {"idle", "stored", "scheduled", "started"}]
  /\ loginEntry \in [Logins -> Entry \cup {NoEntry}]
  /\ expired \in SUBSET Ids
  /\ issued \in 1..MaxToken
  /\ live \in SUBSET Ids /\ consumed \in SUBSET Ids
  /\ lost \in SUBSET Ids /\ reused \in SUBSET Ids

\* A manager as getOrCreateTokenManager publishes it: the token read from
\* the persist file, SetInitialToken already run (no other goroutine has the
\* manager before that), so the watchdog is armed and the refresh timer is
\* armed unless the ID token has already expired.
Init ==
  /\ current = [id |-> 1, rt |-> 1] /\ disk = current
  /\ expired \in SUBSET {1}
  /\ timer = IF Fresh(current) THEN "armed" ELSE "nil"
  /\ timerFor = Num(Fresh(current))
  /\ wd = "armed" /\ wdPc = "idle" /\ wdEntry = NoEntry
  /\ wg = 1 + Num(Fresh(current))
  /\ retryCount = 0
  /\ flight = "none" /\ old = NoEntry /\ new = NoEntry
  /\ pc = [p \in Procs |-> "idle"] /\ cbFor = [c \in Callbacks |-> 0]
  /\ stopped = FALSE /\ stopPc = [s \in Stoppers |-> "idle"]
  /\ login = [l \in Logins |-> "idle"]
  /\ loginEntry = [l \in Logins |-> NoEntry]
  /\ issued = 1 /\ live = {1} /\ consumed = {} /\ lost = {} /\ reused = {}

-----------------------------------------------------------------------------
(* Timers.  Stopping an armed timer gives its WaitGroup slot back. *)

\* Mutant: a stopped timer keeps its WaitGroup slot.
RearmLeaksSlot(id, captured) ==
  /\ timer' = IF id \notin expired THEN "armed"
              ELSE IF timer = "nil" THEN "nil" ELSE "spent"
  /\ timerFor' = IF id \in expired THEN 0 ELSE captured
  /\ wg' = wg + Num(id \notin expired)

\* The tail scheduleProactiveRefresh and scheduleRetry share, under timerMu:
\* stop the old timer, then arm a new one unless the entry whose ID token is
\* `id' has expired.  `captured' is what the new closure will remember.
Rearm(id, captured) ==
  IF id \in expired
    THEN /\ timer' = IF timer = "nil" THEN "nil" ELSE "spent"
         /\ timerFor' = 0
         /\ wg' = wg - Num(timer = "armed")
    ELSE /\ timer' = "armed"
         /\ timerFor' = captured
         /\ wg' = wg - Num(timer = "armed") + 1

\* Mutant: the m.stopped check is missing.
ScheduleProactiveRefreshUnguarded(id) == Rearm(id, id)

ScheduleProactiveRefresh(id) ==
  IF stopped THEN UNCHANGED timerVars ELSE Rearm(id, id)

ScheduleRetry(id) ==
  IF stopped
    THEN UNCHANGED <<timerVars, retryCount>>
    ELSE /\ Rearm(id, 0)
         /\ retryCount' = IF retryCount < RetryCap THEN retryCount + 1
                          ELSE retryCount

-----------------------------------------------------------------------------
(* Refresh: singleflight.Group.Do around one closure. *)

\* Do either starts the closure or joins the one in flight.
EnterRefresh(p) ==
  /\ pc' = [pc EXCEPT ![p] = "refreshing"]
  /\ flight' = IF flight = "none" THEN "begun" ELSE flight

\* The closure returns: everyone in Do gets its result.
EndFlight(outcome) ==
  /\ flight' = "none" /\ old' = NoEntry /\ new' = NoEntry
  /\ pc' = [p \in Procs |-> IF pc[p] = "refreshing" THEN outcome ELSE pc[p]]

\* A request handler or post-wake goroutine calls Refresh.  A handler may
\* still hold the manager after Stop.
CallRefresh(p) ==
  /\ p \in Callers /\ pc[p] = "idle"
  /\ EnterRefresh(p)
  /\ UNCHANGED <<entryVars, old, new, cbFor, timerVars, retryCount, wdVars,
                 stopVars, loginVars, providerVars, expired>>

CallReturns(p) ==
  /\ p \in Callers /\ pc[p] \in {"failed", "done"}
  /\ pc' = [pc EXCEPT ![p] = "idle"]
  /\ UNCHANGED <<entryVars, flightVars, cbFor, timerVars, retryCount, wdVars,
                 stopVars, loginVars, providerVars, expired>>

\* Load the entry; an empty refresh token is a permanent error.
FlightLoad ==
  /\ flight = "begun"
  /\ IF current.rt = 0
       THEN EndFlight("done")
       ELSE flight' = "loaded" /\ old' = current /\ UNCHANGED <<new, pc>>
  /\ UNCHANGED <<entryVars, cbFor, timerVars, retryCount, wdVars, stopVars,
                 loginVars, providerVars, expired>>

\* Discovery has succeeded and the exchange is sent.  A cancelled context
\* sends nothing.
FlightSend ==
  /\ flight = "loaded" /\ ~stopped
  /\ flight' = "sent"
  /\ reused' = IF old.rt \in consumed THEN reused \cup {old.rt} ELSE reused
  /\ UNCHANGED <<entryVars, old, new, procVars, timerVars, retryCount, wdVars,
                 stopVars, loginVars, issued, live, consumed, lost, expired>>

\* The provider accepts the refresh token and answers, with a new refresh
\* token (rotation) or without one (the refresher then keeps the old).
ProviderGrant(rotates) ==
  /\ flight = "sent" /\ old.rt \in live /\ issued < MaxToken
  /\ flight' = "granted"
  /\ issued' = issued + 1
  /\ new' = [id |-> issued', rt |-> IF rotates THEN issued' ELSE old.rt]
  /\ IF rotates
       THEN /\ live' = (live \ {old.rt}) \cup {issued'}
            /\ consumed' = consumed \cup {old.rt}
       ELSE UNCHANGED <<live, consumed>>
  /\ UNCHANGED <<entryVars, old, procVars, timerVars, retryCount, wdVars,
                 stopVars, loginVars, lost, reused, expired>>

\* invalid_grant or "token has been revoked": a permanent error.
ProviderReject ==
  /\ flight = "sent" /\ old.rt \notin live
  /\ EndFlight("done")
  /\ UNCHANGED <<entryVars, cbFor, timerVars, retryCount, wdVars, stopVars,
                 loginVars, providerVars, expired>>

\* Mutant: the exchange has no time-out and ignores the cancellation by Stop.
FlightFailNever ==
  /\ flight = "loaded"
  /\ EndFlight("failed")
  /\ UNCHANGED <<entryVars, cbFor, timerVars, retryCount, wdVars, stopVars,
                 loginVars, providerVars, expired>>

\* Any other error: discovery, network, 30s timeout, cancellation by Stop, or
\* a rejected ID token.  Once the provider has granted, its answer is lost.
FlightFail ==
  /\ flight \in {"loaded", "sent", "granted"}
  /\ EndFlight("failed")
  /\ lost' = IF flight = "granted" THEN lost \cup {old.rt} ELSE lost
  /\ UNCHANGED <<entryVars, cbFor, timerVars, retryCount, wdVars, stopVars,
                 loginVars, issued, live, consumed, reused, expired>>

\* Mutant: the old refresh token is kept over the one in the answer.
FlightStoreKeepsOldToken ==
  /\ flight = "granted"
  /\ flight' = "stored" /\ current' = [new EXCEPT !.rt = old.rt]
  /\ UNCHANGED <<disk, old, new, procVars, timerVars, retryCount, wdVars,
                 stopVars, loginVars, providerVars, expired>>

\* m.current.Store(newEntry), whatever m.current has become meanwhile.
FlightStore ==
  /\ flight = "granted"
  /\ flight' = "stored" /\ current' = new
  /\ UNCHANGED <<disk, old, new, procVars, timerVars, retryCount, wdVars,
                 stopVars, loginVars, providerVars, expired>>

\* Mutant: the new ID token is persisted with the old refresh token.
FlightPersistOldToken ==
  /\ flight = "stored"
  /\ flight' = "persisted" /\ disk' \in {[new EXCEPT !.rt = old.rt], disk}
  /\ UNCHANGED <<current, old, new, procVars, timerVars, retryCount, wdVars,
                 stopVars, loginVars, providerVars, expired>>

\* PersistToken is best effort: written, or failed with the file untouched.
FlightPersist ==
  /\ flight = "stored"
  /\ flight' = "persisted" /\ disk' \in {new, disk}
  /\ UNCHANGED <<current, old, new, procVars, timerVars, retryCount, wdVars,
                 stopVars, loginVars, providerVars, expired>>

FlightResetRetry ==
  /\ flight = "persisted"
  /\ flight' = "reset" /\ retryCount' = 0
  /\ UNCHANGED <<entryVars, old, new, procVars, timerVars, wdVars, stopVars,
                 loginVars, providerVars, expired>>

FlightSchedule ==
  /\ flight = "reset"
  /\ ScheduleProactiveRefresh(new.id)
  /\ EndFlight("done")
  /\ UNCHANGED <<entryVars, cbFor, retryCount, wdVars, stopVars, loginVars,
                 providerVars, expired>>

-----------------------------------------------------------------------------
(* The callback of the proactive or retry timer. *)

TimerFire(c) ==
  /\ timer = "armed" /\ pc[c] = "idle"
  /\ timer' = "spent" /\ timerFor' = 0
  /\ pc' = [pc EXCEPT ![c] = "fired"] /\ cbFor' = [cbFor EXCEPT ![c] = timerFor]
  /\ UNCHANGED <<entryVars, flightVars, wg, retryCount, wdVars, stopVars,
                 loginVars, providerVars, expired>>

\* Return at once if the context is cancelled, else call Refresh.
CallbackStart(c) ==
  /\ pc[c] = "fired"
  /\ IF stopped THEN pc' = [pc EXCEPT ![c] = "done"] /\ UNCHANGED flight
     ELSE EnterRefresh(c)
  /\ UNCHANGED <<entryVars, old, new, cbFor, timerVars, retryCount, wdVars,
                 stopVars, loginVars, providerVars, expired>>

\* After a transient failure a retry callback reloads the current entry; a
\* proactive callback keeps the entry it captured when it was armed.
CallbackReload(c) ==
  /\ pc[c] = "failed" /\ cbFor[c] = 0
  /\ cbFor' = [cbFor EXCEPT ![c] = current.id]
  /\ UNCHANGED <<entryVars, flightVars, pc, timerVars, retryCount, wdVars,
                 stopVars, loginVars, providerVars, expired>>

CallbackRetry(c) ==
  /\ pc[c] = "failed" /\ cbFor[c] # 0
  /\ ScheduleRetry(cbFor[c])
  /\ pc' = [pc EXCEPT ![c] = "done"]
  /\ UNCHANGED <<entryVars, flightVars, cbFor, wdVars, stopVars, loginVars,
                 providerVars, expired>>

\* The deferred callbackWg.Done.
CallbackDone(c) ==
  /\ pc[c] = "done"
  /\ pc' = [pc EXCEPT ![c] = "idle"] /\ cbFor' = [cbFor EXCEPT ![c] = 0]
  /\ wg' = wg - 1
  /\ UNCHANGED <<entryVars, flightVars, timer, timerFor, retryCount, wdVars,
                 stopVars, loginVars, providerVars, expired>>

-----------------------------------------------------------------------------
(* The persist watchdog. *)

WatchdogFire ==
  /\ wd = "armed"
  /\ wd' = "spent" /\ wdPc' = "fired"
  /\ UNCHANGED <<entryVars, flightVars, procVars, timerVars, retryCount,
                 wdEntry, stopVars, loginVars, providerVars, expired>>

WatchdogLoad ==
  /\ wdPc = "fired"
  /\ IF stopped THEN wdPc' = "persisted" /\ UNCHANGED wdEntry
     ELSE wdPc' = "loaded" /\ wdEntry' = current
  /\ UNCHANGED <<entryVars, flightVars, procVars, timerVars, retryCount, wd,
                 stopVars, loginVars, providerVars, expired>>

WatchdogPersist ==
  /\ wdPc = "loaded"
  /\ wdPc' = "persisted" /\ disk' \in {wdEntry, disk} /\ wdEntry' = NoEntry
  /\ UNCHANGED <<current, flightVars, procVars, timerVars, retryCount, wd,
                 stopVars, loginVars, providerVars, expired>>

\* Mutant: a watchdog that fires once.
WatchdogDoneOnce ==
  /\ wdPc = "persisted"
  /\ wdPc' = "idle" /\ wg' = wg - 1
  /\ UNCHANGED <<entryVars, flightVars, procVars, timer, timerFor, retryCount,
                 wd, wdEntry, stopVars, loginVars, providerVars, expired>>

\* The deferred functions: reschedule unless stopped, then callbackWg.Done.
WatchdogDone ==
  /\ wdPc = "persisted"
  /\ wdPc' = "idle"
  /\ wd' = IF stopped THEN wd ELSE "armed"
  /\ wg' = wg + Num(~stopped) - 1
  /\ UNCHANGED <<entryVars, flightVars, procVars, timer, timerFor, retryCount,
                 wdEntry, stopVars, loginVars, providerVars, expired>>

-----------------------------------------------------------------------------
(* SetInitialToken on an existing manager, and the persist after it, in the *)
(* store-token handler of a login that has just finished.                   *)

\* The provider's fresh tokens, with or without a refresh token, become the
\* current entry.
LoginStore(l, hasRt) ==
  /\ login[l] = "idle" /\ issued < MaxToken
  /\ issued' = issued + 1
  /\ live' = IF hasRt THEN live \cup {issued'} ELSE live
  /\ current' = [id |-> issued', rt |-> IF hasRt THEN issued' ELSE 0]
  /\ loginEntry' = [loginEntry EXCEPT ![l] = current']
  /\ login' = [login EXCEPT ![l] = "stored"]
  /\ UNCHANGED <<disk, flightVars, procVars, timerVars, retryCount, wdVars,
                 stopVars, consumed, lost, reused, expired>>

LoginSchedule(l) ==
  /\ login[l] = "stored"
  /\ ScheduleProactiveRefresh(loginEntry[l].id)
  /\ login' = [login EXCEPT ![l] = "scheduled"]
  /\ UNCHANGED <<entryVars, flightVars, procVars, retryCount, wdVars, stopVars,
                 loginEntry, providerVars, expired>>

StartPersistWatchdog(l) ==
  /\ login[l] = "scheduled"
  /\ login' = [login EXCEPT ![l] = "started"]
  /\ IF stopped \/ wd # "nil"
       THEN UNCHANGED <<wd, wg>>
       ELSE wd' = "armed" /\ wg' = wg + 1
  /\ UNCHANGED <<entryVars, flightVars, procVars, timer, timerFor, retryCount,
                 wdPc, wdEntry, stopVars, loginEntry, providerVars, expired>>

LoginPersist(l) ==
  /\ login[l] = "started"
  /\ disk' \in {loginEntry[l], disk}
  /\ login' = [login EXCEPT ![l] = "idle"]
  /\ loginEntry' = [loginEntry EXCEPT ![l] = NoEntry]
  /\ UNCHANGED <<current, flightVars, procVars, timerVars, retryCount, wdVars,
                 stopVars, providerVars, expired>>

-----------------------------------------------------------------------------
(* Stop: the locked section, then callbackWg.Wait.  A second call returns   *)
(* without waiting.                                                         *)

StopLocked(s) ==
  /\ stopPc[s] = "idle"
  /\ IF stopped
       THEN /\ stopPc' = [stopPc EXCEPT ![s] = "skipped"]
            /\ UNCHANGED <<stopped, timerVars, wd>>
       ELSE /\ stopPc' = [stopPc EXCEPT ![s] = "waiting"]
            /\ stopped' = TRUE
            /\ timer' = IF timer = "nil" THEN "nil" ELSE "spent"
            /\ timerFor' = 0
            /\ wd' = IF wd = "nil" THEN "nil" ELSE "spent"
            /\ wg' = wg - (Num(timer = "armed") + Num(wd = "armed"))
  /\ UNCHANGED <<entryVars, flightVars, procVars, retryCount, wdPc, wdEntry,
                 loginVars, providerVars, expired>>

StopWait(s) ==
  /\ stopPc[s] = "waiting" /\ wg = 0
  /\ stopPc' = [stopPc EXCEPT ![s] = "waited"]
  /\ UNCHANGED <<entryVars, flightVars, procVars, timerVars, retryCount,
                 wdVars, stopped, loginVars, providerVars, expired>>

-----------------------------------------------------------------------------
(* The environment. *)

Expire(n) ==
  /\ n \in (1..issued) \ expired
  /\ expired' = expired \cup {n}
  /\ UNCHANGED <<entryVars, flightVars, procVars, timerVars, retryCount,
                 wdVars, stopVars, loginVars, providerVars>>

\* The provider ends a session: its refresh token is no longer accepted.
ProviderRevoke(n) ==
  /\ n \in live
  /\ live' = live \ {n}
  /\ UNCHANGED <<entryVars, flightVars, procVars, timerVars, retryCount,
                 wdVars, stopVars, loginVars, issued, consumed, lost, reused,
                 expired>>

FlightStep ==
  \/ FlightLoad \/ FlightSend \/ FlightFail \/ FlightStore \/ FlightPersist
  \/ FlightResetRetry \/ FlightSchedule

ProviderStep == ProviderReject \/ \E rotates \in BOOLEAN : ProviderGrant(rotates)

CallbackStep(c) ==
  \/ CallbackStart(c) \/ CallbackReload(c) \/ CallbackRetry(c)
  \/ CallbackDone(c)

WatchdogStep == WatchdogLoad \/ WatchdogPersist \/ WatchdogDone

LoginStep(l) == LoginSchedule(l) \/ StartPersistWatchdog(l) \/ LoginPersist(l)

Next ==
  \/ \E p \in Callers : CallRefresh(p) \/ CallReturns(p)
  \/ FlightStep
  \/ ProviderStep
  \/ \E c \in Callbacks : TimerFire(c) \/ CallbackStep(c)
  \/ WatchdogFire \/ WatchdogStep
  \/ \E l \in Logins : LoginStep(l) \/ \E hasRt \in BOOLEAN : LoginStore(l, hasRt)
  \/ \E s \in Stoppers : StopLocked(s) \/ StopWait(s)
  \/ \E n \in Ids : Expire(n) \/ ProviderRevoke(n)

Spec == Init /\ [][Next]_vars

\* The goroutines that have started are scheduled, and every provider round
\* trip ends (30s timeout).  Nothing is assumed about timers firing, requests
\* arriving, tokens expiring or Stop being called.
Fairness ==
  /\ WF_vars(FlightStep)
  /\ \A c \in Callbacks : WF_vars(CallbackStep(c))
  /\ WF_vars(WatchdogStep)
  /\ \A l \in Logins : WF_vars(LoginStep(l))
  /\ \A s \in Stoppers : WF_vars(StopWait(s))

FairSpec == Spec /\ Fairness

-----------------------------------------------------------------------------
(* Properties. *)

Busy == {c \in Callbacks : pc[c] # "idle"}

\* Timers that will still fire and callbacks that have fired and not returned.
Outstanding ==
  Cardinality(Busy) + Num(timer = "armed") + Num(wd = "armed")
  + Num(wdPc # "idle")

\* callbackWg counts exactly the armed timers and the running callbacks, over
\* every interleaving of arming, firing, re-arming, stopping and Done: a leak
\* hangs Stop (which eviction calls with managerMu held), a surplus Done
\* panics the daemon.
WgAccounting == wg = Outstanding

\* Once a Stop call that waited has returned, no timer is armed, no callback
\* runs and none will, although requests may still call Refresh on the manager.
StopWaitsForCallbacks ==
  (\E s \in Stoppers : stopPc[s] = "waited") => Outstanding = 0

\* "No token is ever used twice" (README): a refresh token that the provider
\* has rotated away is presented again only if the answer that carried its
\* successor was lost.
NoTokenUsedTwice == reused \subseteq lost

\* Until Stop, the persist watchdog is armed or running: no fire, failure or
\* re-login leaves the persist file without its periodic repair.
WatchdogAlive == ~stopped => wd = "armed" \/ wdPc # "idle"

\* Stop returns, whatever refresh, retry or persist was running when it was
\* called.
StopReturns ==
  \A s \in Stoppers : stopPc[s] = "waiting" ~> stopPc[s] = "waited"

\* Every goroutine blocked in singleflight gets a result.
RefreshReturns ==
  \A p \in Procs : pc[p] = "refreshing" ~> pc[p] # "refreshing"

\* The timer runtime fires the watchdog, and a disk that is tried again and
\* again takes a write in the end.
WatchdogFairness ==
  /\ WF_vars(WatchdogFire)
  /\ SF_vars(WatchdogPersist /\ disk' = wdEntry)

WatchdogSpec == FairSpec /\ WatchdogFairness

\* Whatever failed or stale persists happened, a live manager whose entry no
\* longer changes ends with exactly that entry in its persist file.
DiskConverges ==
  <>[]~stopped /\ <>[][UNCHANGED current]_vars => <>[](disk = current)

\* What Stop promises its callers, see CallbackDrain.
Drain == INSTANCE CallbackDrain WITH
  tasks <- Outstanding,
  phase <- IF ~stopped THEN "running"
           ELSE IF \E s \in Stoppers : stopPc[s] = "waited" THEN "drained"
           ELSE "draining"
DrainSpec == Drain!Spec

\* No refresh, callback or login is under way.
Quiet == flight = "none" /\ Busy = {} /\ \A l \in Logins : login[l] = "idle"

\* A manager at rest with an unexpired token and a refresh token the provider
\* accepts has its next refresh scheduled.
ProactiveCoverage ==
  ~stopped /\ Quiet /\ Fresh(current) /\ current.rt \in live => timer = "armed"

=============================================================================

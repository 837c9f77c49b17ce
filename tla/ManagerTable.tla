---------------------------- MODULE ManagerTable ----------------------------
(***************************************************************************)
(* The server's table of token managers, from cache keys to managers, with *)
(* its cap, its eviction and the shutdown that stops the managers in it    *)
(* (pkg/daemon/server.go).                                                 *)
(*                                                                         *)
(* A manager is its key, the number of the newest refresh token it holds   *)
(* and whether its timers run; TokenManager.tla has the rest.  A request   *)
(* handler builds a manager outside managerMu and publishes it, or stops   *)
(* it, inside.  Which manager was used least recently is left open: any    *)
(* one in the table may be the victim.  Logins carry a refresh token.  The  *)
(* state entries that handlers and eviction write are in AuthState.tla.     *)
(***************************************************************************)
EXTENDS Naturals, FiniteSets

CONSTANTS
  Keys,        \* cache keys
  Handlers,    \* goroutines: get-token, store-token, refresh, wake
  Managers,    \* TokenManager objects
  None,        \* no manager, no handler, no key
  Cap,         \* maxTokenManagers
  WakeSlots,   \* capacity of s.wakeSem
  MaxToken,    \* bound: refresh tokens issued
  Scenarios    \* what may happen, see ScenariosAssumption

ASSUME CapAssumption ==
  /\ Cap \in Nat \ {0} /\ WakeSlots \in Nat \ {0} /\ MaxToken \in Nat
  /\ IsFiniteSet(Keys) /\ None \notin Keys \cup Handlers \cup Managers

\* saveFails: PersistToken may fail; shutdown: the daemon may be shut down;
\* tokens: the refresh tokens issued in this behaviour.
ASSUME ScenariosAssumption ==
  Scenarios \subseteq [saveFails : BOOLEAN, shutdown : BOOLEAN, tokens : 1..MaxToken]

VARIABLES
  scenario,
  table,   \* s.managers
  count,   \* s.managerCount
  mu,      \* the holder of s.managerMu
  mgr,     \* every manager's key, refresh token and whether its context lives
  flight,  \* every manager's refresh in its singleflight group
  disk,    \* per key: the refresh token in the persist file, 0 if missing
  issued,  \* refresh tokens issued so far
  hpc,     \* position of each handler
  req,     \* per handler: the command and key it serves
  own,     \* per handler: the manager it built and has not published
  use,     \* per handler: the published manager it works with
  tok,     \* per handler: the refresh token it is about to save
  victim,  \* the key that the holder of managerMu is evicting
  evicted, \* the refresh token it saves for that key
  down,    \* "up", "stopping" while Shutdown ranges over the table, "exited"
  ahead,   \* keys that Shutdown's Range has not visited
  current, \* the manager for whose callbacks Shutdown's Stop waits
  targets  \* history: the managers in the table when Shutdown began

tableVars   == <<table, count, mu>>
evictVars   == <<victim, evicted>>
handlerVars == <<hpc, req, own, use, tok>>
downVars    == <<down, ahead, current, targets>>
vars == <<scenario, tableVars, mgr, flight, disk, issued, evictVars, handlerVars, downVars>>

NoReq    == [op |-> "none", key |-> None]
NoFlight == [pc |-> "none", rt |-> 0, callback |-> FALSE]
Unborn   == [key |-> None, rt |-> 0, run |-> FALSE]

TypeOK ==
  /\ scenario \in Scenarios
  /\ table \in [Keys -> Managers \cup {None}]
  /\ count \in 0..Cap
  /\ mu \in Handlers \cup {None}
  /\ mgr \in [Managers -> [key : Keys \cup {None}, rt : 0..MaxToken, run : BOOLEAN]]
  /\ flight \in [Managers -> [pc : {"none", "exchange", "save"},
                              rt : 0..MaxToken, callback : BOOLEAN]]
  /\ disk \in [Keys -> 0..MaxToken]
  /\ issued \in 0..MaxToken
  /\ hpc \in [Handlers -> {"idle", "load", "lock", "evictSave", "evictStop",
                           "evictWait", "evictDrop", "publish", "stopOwn", "ownWait", "set",
                           "save", "use", "slot", "wait", "answer"}]
  /\ req \in [Handlers -> [op : {"get", "store", "wake"}, key : Keys]
                             \cup {NoReq}]
  /\ own \in [Handlers -> Managers \cup {None}]
  /\ use \in [Handlers -> Managers \cup {None}]
  /\ tok \in [Handlers -> 0..MaxToken]
  /\ victim \in Keys \cup {None}
  /\ evicted \in 0..MaxToken
  /\ down \in {"up", "stopping", "exited"} /\ ahead \subseteq Keys
  /\ current \in Managers \cup {None} /\ targets \subseteq Managers

\* A daemon that has just started; a key may have a persist file.
Init ==
  /\ scenario \in Scenarios
  /\ table = [k \in Keys |-> None] /\ count = 0 /\ mu = None
  /\ mgr = [m \in Managers |-> Unborn] /\ flight = [m \in Managers |-> NoFlight]
  /\ disk \in [Keys -> {0, 1}] /\ issued = 1
  /\ hpc = [h \in Handlers |-> "idle"] /\ req = [h \in Handlers |-> NoReq]
  /\ own = [h \in Handlers |-> None] /\ use = [h \in Handlers |-> None]
  /\ tok = [h \in Handlers |-> 0] /\ victim = None /\ evicted = 0
  /\ down = "up" /\ ahead = {} /\ current = None /\ targets = {}

At(h, l)   == hpc[h] = l
Goto(h, l) == hpc' = [hpc EXCEPT ![h] = l]
Key(h)     == req[h].key
Op(h)      == req[h].op

InTable(m) == \E k \in Keys : table[k] = m
Held(m)    == \E h \in Handlers : m \in {own[h], use[h]}

\* Nothing refers to m any more.
Garbage(m) == ~InTable(m) /\ ~Held(m) /\ flight[m] = NoFlight /\ m \notin targets

\* NewTokenManager, SetInitialToken: the timers run at once.
NewManager(h, k, rt) ==
  /\ \E m \in Managers : Garbage(m)
  /\ LET m == CHOOSE x \in Managers : Garbage(x)
     IN  /\ mgr' = [mgr EXCEPT ![m] = [key |-> k, rt |-> rt, run |-> TRUE]]
         /\ own' = [own EXCEPT ![h] = m]

\* A stopped manager that nothing but r still refers to is collected.
Release(r, m) ==
  mgr' = IF /\ m # None /\ ~mgr[m].run /\ flight[m] = NoFlight /\ m # current
            /\ ~\E x \in (Keys \cup Handlers) \ {r} :
                  m = IF x \in Keys THEN table[x] ELSE use[x]
         THEN [mgr EXCEPT ![m] = Unborn] ELSE mgr

\* The handler answers.
Finish(h) ==
  /\ Release(h, use[h])
  /\ hpc' = [hpc EXCEPT ![h] = "idle"] /\ req' = [req EXCEPT ![h] = NoReq]
  /\ own' = [own EXCEPT ![h] = None] /\ use' = [use EXCEPT ![h] = None]
  /\ tok' = [tok EXCEPT ![h] = 0]

-----------------------------------------------------------------------------
(* Requests arrive.                                                        *)

\* get-token or refresh: the fast path looks the manager up.
Request(h, k) ==
  /\ At(h, "idle")
  /\ req' = [req EXCEPT ![h] = [op |-> "get", key |-> k]]
  /\ use' = [use EXCEPT ![h] = table[k]]
  /\ Goto(h, IF table[k] # None THEN "use" ELSE "load")
  /\ UNCHANGED <<tableVars, mgr, flight, disk, issued, own, tok, evictVars>>

\* handleStoreToken builds its manager from a login's tokens.
StoreToken(h, k) ==
  /\ At(h, "idle") /\ issued < scenario.tokens
  /\ issued' = issued + 1
  /\ NewManager(h, k, issued + 1) /\ tok' = [tok EXCEPT ![h] = issued + 1]
  /\ req' = [req EXCEPT ![h] = [op |-> "store", key |-> k]] /\ Goto(h, "lock")
  /\ UNCHANGED <<tableVars, flight, disk, use, evictVars>>

\* refreshExpiredTokensAfterWake starts a goroutine for a manager it finds.
Wake(h, k) ==
  /\ At(h, "idle") /\ table[k] # None
  /\ use' = [use EXCEPT ![h] = table[k]]
  /\ req' = [req EXCEPT ![h] = [op |-> "wake", key |-> k]] /\ Goto(h, "slot")
  /\ UNCHANGED <<tableVars, mgr, flight, disk, issued, own, tok, evictVars>>

-----------------------------------------------------------------------------
(* getOrCreateTokenManager and the publishing half of handleStoreToken.    *)

\* The slow path reads the file outside managerMu.
Load(h) ==
  /\ At(h, "load") /\ disk[Key(h)] # 0
  /\ NewManager(h, Key(h), disk[Key(h)]) /\ Goto(h, "lock")
  /\ UNCHANGED <<tableVars, flight, disk, issued, req, use, tok, evictVars>>

\* No file: the user has to log in.
LoadNothing(h) ==
  /\ At(h, "load") /\ disk[Key(h)] = 0
  /\ Finish(h)
  /\ UNCHANGED <<tableVars, flight, disk, issued, evictVars>>

\* Only store-token looks for its key before it evicts.
Full(h) == count >= Cap /\ (Op(h) = "store" => table[Key(h)] = None)

\* managerMu.Lock with room in the table.
Lock(h) ==
  /\ At(h, "lock") /\ mu = None /\ ~Full(h)
  /\ mu' = h /\ Goto(h, "publish")
  /\ UNCHANGED <<table, count, mgr, flight, disk, issued, req, own, use, tok, evictVars>>

\* LoadOrStore and managerMu.Unlock.
Publish(h) ==
  /\ At(h, "publish")
  /\ mu' = None /\ victim' = None /\ evicted' = 0
  /\ \/ /\ table[Key(h)] = None
        /\ table' = [table EXCEPT ![Key(h)] = own[h]] /\ count' = count + 1
        /\ use' = [use EXCEPT ![h] = own[h]] /\ own' = [own EXCEPT ![h] = None]
        /\ Goto(h, IF Op(h) = "store" THEN "save" ELSE "use")
     \/ /\ table[Key(h)] # None
        /\ use' = [use EXCEPT ![h] = table[Key(h)]]
        /\ Goto(h, "stopOwn")
        /\ UNCHANGED <<table, count, own>>
  /\ UNCHANGED <<mgr, flight, disk, issued, req, tok>>

\* A publisher that lost the race stops its own manager ...
StopOwn(h) ==
  /\ At(h, "stopOwn")
  /\ mgr' = [mgr EXCEPT ![own[h]].run = FALSE] /\ Goto(h, "ownWait")
  /\ UNCHANGED <<tableVars, flight, disk, issued, req, own, use, tok, evictVars>>

\* ... and, once its callbacks are through, goes on with the other one.
OwnStopped(h) ==
  /\ At(h, "ownWait") /\ ~flight[own[h]].callback
  /\ own' = [own EXCEPT ![h] = None] /\ mgr' = [mgr EXCEPT ![own[h]] = Unborn]
  /\ Goto(h, IF Op(h) = "store" THEN "set" ELSE "use")
  /\ UNCHANGED <<tableVars, flight, disk, issued, req, use, tok, evictVars>>

\* store-token gives the login's tokens to the manager it found.
SetToken(h) ==
  /\ At(h, "set")
  /\ mgr' = [mgr EXCEPT ![use[h]].rt = tok[h]] /\ Goto(h, "save")
  /\ UNCHANGED <<tableVars, flight, disk, issued, req, own, use, tok, evictVars>>

\* PersistToken: written, or failed with the file untouched.
Persist(k, rt) ==
  \/ disk' = [disk EXCEPT ![k] = rt]
  \/ scenario.saveFails /\ disk' = disk

\* store-token's last steps: PersistToken, CompleteLogin.
SaveStored(h) ==
  /\ At(h, "save")
  /\ Persist(Key(h), tok[h]) /\ Finish(h)
  /\ UNCHANGED <<tableVars, flight, issued, evictVars>>

-----------------------------------------------------------------------------
(* evictOldestManagerLocked.                                               *)

\* managerMu.Lock with a full table: choose a victim, read its refresh token.
\* The table is not empty (CountExact), so the code's "return false" and the
\* two rejections behind it are never reached.
LockAndEvict(h) ==
  /\ At(h, "lock") /\ mu = None /\ Full(h)
  /\ mu' = h /\ Goto(h, "evictSave")
  /\ \E k \in Keys : /\ table[k] # None
                    /\ victim' = k /\ evicted' = mgr[table[k]].rt
  /\ UNCHANGED <<table, count, mgr, flight, disk, issued, req, own, use, tok>>

EvictSave(h) ==
  /\ At(h, "evictSave")
  /\ Persist(victim, evicted) /\ Goto(h, "evictStop")
  /\ UNCHANGED <<tableVars, mgr, flight, issued, req, own, use, tok, evictVars>>

\* Mutant: the victim is dropped without Stop.
EvictWithoutStop(h) ==
  /\ At(h, "evictStop") /\ Goto(h, "evictDrop")
  /\ UNCHANGED <<tableVars, mgr, flight, disk, issued, req, own, use, tok, evictVars>>

\* Stop returns at once if Shutdown has stopped the manager already.
EvictStop(h) ==
  /\ At(h, "evictStop")
  /\ mgr' = [mgr EXCEPT ![table[victim]].run = FALSE]
  /\ Goto(h, IF mgr[table[victim]].run THEN "evictWait" ELSE "evictDrop")
  /\ UNCHANGED <<tableVars, flight, disk, issued, req, own, use, tok, evictVars>>

\* Mutant: managerCount-- is forgotten.
EvictKeepsCount(h) ==
  /\ At(h, "evictDrop") \/ (At(h, "evictWait") /\ ~flight[table[victim]].callback)
  /\ table' = [table EXCEPT ![victim] = None] /\ count' = count
  /\ Release(victim, table[victim]) /\ Goto(h, "publish")
  /\ UNCHANGED <<mu, flight, disk, issued, req, own, use, tok, evictVars>>

\* Stop has waited for the callbacks; Delete and managerCount--.
EvictDelete(h) ==
  /\ At(h, "evictDrop") \/ (At(h, "evictWait") /\ ~flight[table[victim]].callback)
  /\ table' = [table EXCEPT ![victim] = None] /\ count' = count - 1
  /\ Release(victim, table[victim]) /\ Goto(h, "publish")
  /\ UNCHANGED <<mu, flight, disk, issued, req, own, use, tok, evictVars>>

-----------------------------------------------------------------------------
(* A handler works with its manager.                                       *)

\* The token is fresh, or the refresh is over: the handler answers.
AnswerRequest(h) ==
  /\ At(h, "use") \/ At(h, "answer")
  /\ Finish(h)
  /\ UNCHANGED <<tableVars, flight, disk, issued, evictVars>>

\* A wake goroutine holds a slot of wakeSem until its refresh is done.
HasSlot(h) == Op(h) = "wake" /\ ~At(h, "slot")

\* Refresh joins the flight of its manager or starts one.
Refresh(h) ==
  /\ \/ At(h, "use")
     \/ At(h, "slot") /\ Cardinality({g \in Handlers : HasSlot(g)}) < WakeSlots
  /\ flight' = [flight EXCEPT ![use[h]].pc = IF @ = "none" THEN "exchange" ELSE @]
  /\ Goto(h, "wait")
  /\ UNCHANGED <<tableVars, mgr, disk, issued, req, own, use, tok, evictVars>>

-----------------------------------------------------------------------------
(* Token managers: their timers and their flights, see TokenManager.tla.   *)

\* The callback of the refresh timer starts or joins a flight.
Callback(m) ==
  /\ mgr[m].run /\ ~flight[m].callback
  /\ flight' = [flight EXCEPT ![m].callback = TRUE,
                              ![m].pc = IF @ = "none" THEN "exchange" ELSE @]
  /\ UNCHANGED <<tableVars, mgr, disk, issued, evictVars, handlerVars>>

\* The provider's new token is stored.  The answer may have arrived just
\* before Stop cancelled the exchange.
FlightStore(m) ==
  /\ flight[m].pc = "exchange" /\ issued < scenario.tokens
  /\ issued' = issued + 1
  /\ mgr' = [mgr EXCEPT ![m].rt = issued + 1]
  /\ flight' = [flight EXCEPT ![m].pc = "save", ![m].rt = issued + 1]
  /\ UNCHANGED <<tableVars, disk, evictVars, handlerVars>>

\* Everyone who waits for m's flight gets its result.
Land(m) ==
  /\ flight' = [flight EXCEPT ![m] = NoFlight]
  /\ hpc' = [h \in Handlers |-> IF use[h] = m /\ At(h, "wait") THEN "answer" ELSE hpc[h]]
  /\ UNCHANGED <<req, own, use, tok>>

FlightSave(m) ==
  /\ flight[m].pc = "save"
  /\ Persist(mgr[m].key, flight[m].rt) /\ Land(m)
  /\ UNCHANGED <<tableVars, mgr, issued, evictVars>>

FlightFail(m) ==
  /\ flight[m].pc = "exchange" /\ Land(m)
  /\ UNCHANGED <<tableVars, mgr, disk, issued, evictVars>>

-----------------------------------------------------------------------------
(* Server.Shutdown, and the process that exits after it.                   *)

\* A signal, the idle timeout, a lost socket or a shutdown request: the first
\* call of Shutdown closes the socket and ranges over the table.
Shutdown ==
  /\ scenario.shutdown /\ down = "up" /\ down' = "stopping"
  /\ ahead' = Keys /\ targets' = {m \in Managers : InTable(m)}
  /\ UNCHANGED <<tableVars, mgr, flight, disk, issued, evictVars, handlerVars, current>>

\* Mutant: the managers are stopped in the background.
StopDetached(k) ==
  /\ down = "stopping" /\ current = None /\ k \in ahead /\ table[k] # None
  /\ ahead' = ahead \ {k} /\ mgr' = [mgr EXCEPT ![table[k]].run = FALSE]
  /\ UNCHANGED <<tableVars, flight, disk, issued, evictVars, handlerVars, down, current, targets>>

\* Range visits a key: Stop, which has to wait unless an eviction was first.
StopNext(k) ==
  /\ down = "stopping" /\ current = None /\ k \in ahead /\ table[k] # None
  /\ ahead' = ahead \ {k} /\ mgr' = [mgr EXCEPT ![table[k]].run = FALSE]
  /\ current' = IF mgr[table[k]].run THEN table[k] ELSE None
  /\ UNCHANGED <<tableVars, flight, disk, issued, evictVars, handlerVars, down, targets>>

\* The key is gone, or Range misses what was stored while it ran.
PassOver(k) ==
  /\ down = "stopping" /\ current = None /\ k \in ahead
  /\ table[k] = None \/ table[k] \notin targets
  /\ ahead' = ahead \ {k}
  /\ UNCHANGED <<tableVars, mgr, flight, disk, issued, evictVars, handlerVars, down, current, targets>>

\* The callbacks are through.
Stopped ==
  /\ current # None /\ ~flight[current].callback
  /\ current' = None
  /\ UNCHANGED <<tableVars, mgr, flight, disk, issued, evictVars, handlerVars, down, ahead, targets>>

\* main returns, and takes every goroutine with it.
Exit ==
  /\ down = "stopping" /\ ahead = {} /\ current = None
  /\ down' = "exited"
  /\ UNCHANGED <<tableVars, mgr, flight, disk, issued, evictVars, handlerVars, ahead, current, targets>>

\* A wake goroutine without a slot sees the closed channel.
WakeGivesUp(h) ==
  /\ At(h, "slot") /\ down # "up"
  /\ Finish(h)
  /\ UNCHANGED <<tableVars, flight, disk, issued, evictVars, downVars>>

-----------------------------------------------------------------------------
Arrive(h) ==
  \E k \in Keys : Request(h, k) \/ StoreToken(h, k) \/ Wake(h, k)

Run(h) ==
  \/ Load(h) \/ LoadNothing(h) \/ Lock(h) \/ LockAndEvict(h) \/ Publish(h)
  \/ StopOwn(h) \/ OwnStopped(h) \/ SetToken(h) \/ SaveStored(h)
  \/ EvictSave(h) \/ EvictStop(h) \/ EvictDelete(h)
  \/ Refresh(h) \/ AnswerRequest(h)

Fly(m) == FlightStore(m) \/ FlightSave(m) \/ FlightFail(m)

GoDown == Shutdown \/ Stopped \/ Exit \/ \E k \in Keys : StopNext(k) \/ PassOver(k)

\* What the process does while it lives.  Shutdown cancels every connection: a
\* request has arrived when its handler has looked at the table.
Live ==
  \/ /\ \/ \E h \in Handlers : (down = "up" /\ Arrive(h)) \/ Run(h)
        \/ \E m \in Managers : Callback(m) \/ Fly(m)
     /\ UNCHANGED downVars
  \/ \E h \in Handlers : WakeGivesUp(h)
  \/ GoDown

Exited == down = "exited" /\ UNCHANGED vars

Next == (down # "exited" /\ Live /\ UNCHANGED scenario) \/ Exited

Spec == Init /\ [][Next]_vars

-----------------------------------------------------------------------------
(* Properties                                                              *)

\* The handlers between managerMu.Lock and Unlock.
Critical == {"evictSave", "evictStop", "evictWait", "evictDrop", "publish"}

\* managerMu is held exactly between its Lock and one of the Unlocks that the
\* code calls by hand on every way out (server.go:540-572, 798-830).
LockDiscipline == \A h \in Handlers : mu = h <=> hpc[h] \in Critical

\* managerCount is the number of managers in the table and stays within
\* maxTokenManagers, whichever publishers and evictions interleave; so the cap
\* check is sound and an eviction always finds a victim (server.go:537-550).
CountExact ==
  /\ count = Cardinality({k \in Keys : table[k] # None})
  /\ count <= Cap

\* A manager whose timers run is in the table under its own key, or is held by
\* the handler that built it and will publish or stop it: no race between
\* publishers and eviction leaves a manager refreshing on its own, where
\* neither Shutdown nor eviction finds it (server.go:552-570, 1245-1247).
NoOrphan ==
  \A m \in Managers : mgr[m].run =>
    \/ table[mgr[m].key] = m
    \/ \E h \in Handlers : own[h] = m /\ Key(h) = mgr[m].key

\* When the process exits, every manager that was in the table when Shutdown
\* began is stopped and none of their timer callbacks is left half done, whichever
\* handlers publish and evict meanwhile; only a callback for which an eviction
\* already waits may be cut off (server.go:284-287, token_manager.go Stop).
StoppedAtExit ==
  down = "exited" =>
    \A m \in targets :
      /\ ~mgr[m].run
      /\ flight[m].callback => \E h \in Handlers : At(h, "evictWait") /\ table[victim] = m

\* When an evicted manager without a refresh in flight leaves the table, its
\* file holds its refresh token: "Persist the current token state before
\* eviction so it can be reloaded on next access" (server.go:1234).
EvictionKeepsToken ==
  [][\A h \in Handlers :
       EvictDelete(h) /\ flight[table[victim]] = NoFlight
         => disk[victim] = mgr[table[victim]].rt]_vars
=============================================================================

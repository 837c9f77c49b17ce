------------------------------ MODULE AuthState ------------------------------
(***************************************************************************)
(* The authentication state of one cache key (pkg/daemon/state.go), the    *)
(* request handlers and the post-wake refresh that move it                 *)
(* (pkg/daemon/server.go), and the login command on the other side of the  *)
(* socket (runLogin in main.go).                                           *)
(*                                                                         *)
(* StateManager locks around each of its methods only: a handler reads the *)
(* state, works, and writes a state later.  Every action here is one such  *)
(* method call or one access to the token manager or the persist file.     *)
(* A token is [tok, rt]: an ID token that is fresh or expired (none: no    *)
(* manager, or no file), and whether a refresh token goes with it.         *)
(* TokenManager.tla has what happens inside Refresh.                       *)
(***************************************************************************)
EXTENDS Naturals

CONSTANTS
  Handlers,  \* goroutines serving get-token, refresh and check, or waking up
  Clients,   \* login commands
  Crews      \* bound: which of them there are, see CrewsAssumption

ASSUME CrewsAssumption == Crews \subseteq [handlers : SUBSET Handlers, clients : SUBSET Clients]

VARIABLES
  crew,     \* the handlers and login commands of this behaviour
  state,    \* the key's state, "none" if it has no entry
  age,      \* of loginStarted: none (zero time), young, or old (past the TTL)
  mgr,      \* the manager's current token
  file,     \* the persisted token
  hpc,      \* position of each handler
  op,       \* what the handler serves, as long as that matters
  gone,     \* handlers whose manager has been evicted under them
  cpc       \* position of each login command

handlerVars == <<hpc, op, gone>>
vars == <<crew, state, age, mgr, file, handlerVars, cpc>>

VALID             == "VALID"
REFRESHING        == "REFRESHING"
NEEDS_LOGIN       == "NEEDS_LOGIN"
LOGIN_IN_PROGRESS == "LOGIN_IN_PROGRESS"
States == {VALID, REFRESHING, NEEDS_LOGIN, LOGIN_IN_PROGRESS}

Ops     == {"get-token", "force-refresh", "refresh", "check"}
NoToken == [tok |-> "none", rt |-> FALSE]
NewToken == [tok |-> "fresh", rt |-> TRUE]
Tokens  == [tok : {"fresh", "expired"}, rt : BOOLEAN] \cup {NoToken}

TypeOK ==
  /\ crew \in Crews
  /\ state \in States \cup {"none"}
  /\ age \in {"none", "young", "old"}
  /\ mgr \in Tokens /\ file \in Tokens
  /\ hpc \in [Handlers -> {"idle", "overdue", "checkState", "manager", "token",
                           "checkToken", "mark", "refresh", "exchange", "setValid",
                           "setNeedsLogin", "recover"}]
  /\ op \in [Handlers -> Ops \cup {"none"}]
  /\ gone \subseteq Handlers
  /\ cpc \in [Clients -> {"idle", "cancelOther", "begin2", "restart", "begin3",
                          "auth", "interrupted", "cancel", "store", "store2",
                          "complete"}]

\* A daemon that has just started, with or without a persist file.
Init ==
  /\ crew \in Crews
  /\ state = "none" /\ age = "none"
  /\ mgr = NoToken /\ file \in Tokens
  /\ hpc = [h \in Handlers |-> "idle"]
  /\ op = [h \in Handlers |-> "none"] /\ gone = {}
  /\ cpc = [c \in Clients |-> "idle"]

-----------------------------------------------------------------------------
(* StateManager. *)

\* Mutant: a login never times out.
NeverOverdue == FALSE

Overdue     == state = LOGIN_IN_PROGRESS /\ age = "old"
LoginInTime == state = LOGIN_IN_PROGRESS /\ age = "young"

\* What GetState returns when no time-out needs recording.
Reported == IF state = "none" THEN NEEDS_LOGIN ELSE state

SetState(s) == state' = s /\ age' = "none"

\* The TTL check is inline; a login still in its time is left alone.
BeginLogin(ok, busy) ==
  IF state = LOGIN_IN_PROGRESS /\ age # "old"
    THEN busy /\ UNCHANGED <<state, age>>
    ELSE ok /\ state' = LOGIN_IN_PROGRESS /\ age' = "young"

CancelLogin ==
  IF state = LOGIN_IN_PROGRESS
    THEN state' = NEEDS_LOGIN /\ age' = "none"
    ELSE UNCHANGED <<state, age>>

CompleteLogin == state' = VALID /\ age' = "none"

\* Five minutes pass since loginStarted.
LoginTimesOut ==
  /\ age = "young" /\ age' = "old"
  /\ UNCHANGED <<state, mgr, file, handlerVars, cpc>>

-----------------------------------------------------------------------------
(* Handlers. *)

Goto(h, o, l) ==
  /\ hpc' = [hpc EXCEPT ![h] = l]
  /\ gone' = IF l \in {"mark", "refresh", "exchange"} THEN gone ELSE gone \ {h}
  /\ op' = [op EXCEPT ![h] = IF l \in {"overdue", "manager", "token"} THEN o
                             ELSE "none"]

\* Mutant: a key that is being refreshed is left to the handler refreshing it.
AfterGetStateWaits(o, s) ==
  CASE o = "check" -> IF s = VALID THEN "checkToken" ELSE "idle"
    [] OTHER       -> IF s \in {LOGIN_IN_PROGRESS, REFRESHING} THEN "idle" ELSE "manager"

\* What get-token and check do with the state GetState returned.
\* "idle" is an answer to the client.
AfterGetState(o, s) ==
  CASE o = "check" -> IF s = VALID THEN "checkToken" ELSE "idle"
    [] OTHER       -> IF s = LOGIN_IN_PROGRESS THEN "idle" ELSE "manager"

\* GetState's read-locked section.  An overdue login is recorded in a second,
\* write-locked one.
GetState(h, o) ==
  Goto(h, o, IF Overdue THEN "overdue" ELSE AfterGetState(o, Reported))

StartGetToken(h, o) ==
  /\ hpc[h] = "idle" /\ o \in {"get-token", "force-refresh"}
  /\ GetState(h, o)
  /\ UNCHANGED <<state, age, mgr, file, cpc>>

\* check answers from the persist file when no manager is loaded and the
\* file has something to say.
StartCheck(h) ==
  /\ hpc[h] = "idle"
  /\ IF mgr = NoToken /\ (file.tok = "fresh" \/ file.rt)
       THEN UNCHANGED <<handlerVars>>
       ELSE Goto(h, "none", "checkState")
  /\ UNCHANGED <<state, age, mgr, file, cpc>>

CheckState(h) ==
  /\ hpc[h] = "checkState"
  /\ GetState(h, "check")
  /\ UNCHANGED <<state, age, mgr, file, cpc>>

\* Mutant: the write-locked section does not look again.
GetStateOverdueUnchecked(h) ==
  /\ hpc[h] = "overdue"
  /\ state' = NEEDS_LOGIN /\ age' = "none"
  /\ Goto(h, op[h], AfterGetState(op[h], NEEDS_LOGIN))
  /\ UNCHANGED <<mgr, file, cpc>>

\* GetState's write-locked section looks again before it reverts the login.
GetStateOverdue(h) ==
  /\ hpc[h] = "overdue"
  /\ IF Overdue
       THEN /\ state' = NEEDS_LOGIN /\ age' = "none"
            /\ Goto(h, op[h], AfterGetState(op[h], NEEDS_LOGIN))
       ELSE /\ UNCHANGED <<state, age>>
            /\ Goto(h, op[h], AfterGetState(op[h],
                         IF state = "none" THEN LOGIN_IN_PROGRESS ELSE state))
  /\ UNCHANGED <<mgr, file, cpc>>

\* The refresh command does not look at the state first.
StartRefresh(h) ==
  /\ hpc[h] = "idle"
  /\ Goto(h, "refresh", "manager")
  /\ UNCHANGED <<state, age, mgr, file, cpc>>

\* After a wake-up, managers whose token has expired or soon will.
StartWake(h) ==
  /\ hpc[h] = "idle" /\ mgr # NoToken
  /\ Goto(h, "none", "mark")
  /\ UNCHANGED <<state, age, mgr, file, cpc>>

\* getOrCreateTokenManager: the loaded manager, or one made from a persist
\* file with a refresh token, or none.
GetOrCreateTokenManager(h) ==
  /\ hpc[h] = "manager"
  /\ mgr' = IF mgr = NoToken /\ file.rt THEN file ELSE mgr
  /\ Goto(h, op[h], IF mgr' # NoToken THEN "token"
                    ELSE IF op[h] = "refresh" THEN "idle" ELSE "setNeedsLogin")
  /\ UNCHANGED <<state, age, file, cpc>>

\* get-token serves a fresh token unless told to refresh; the refresh command
\* leaves one with more than 30 minutes alone.
GetToken(h) ==
  /\ hpc[h] = "token"
  /\ \E tok \in IF h \in gone THEN {"fresh", "expired"} ELSE {mgr.tok} :
       \/ op[h] = "get-token" /\ tok = "fresh" /\ Goto(h, "none", "setValid")
       \/ op[h] = "refresh" /\ tok = "fresh" /\ Goto(h, "none", "idle")
       \/ ~(op[h] = "get-token" /\ tok = "fresh") /\ Goto(h, "none", "mark")
  /\ UNCHANGED <<state, age, mgr, file, cpc>>

\* check found VALID: a manager without a fresh token is set to NEEDS_LOGIN.
CheckToken(h) ==
  /\ hpc[h] = "checkToken"
  /\ Goto(h, "none", IF mgr.tok = "fresh" THEN "idle" ELSE "setNeedsLogin")
  /\ UNCHANGED <<state, age, mgr, file, cpc>>

MarkRefreshing(h) ==
  /\ hpc[h] = "mark"
  /\ SetState(REFRESHING)
  /\ Goto(h, "none", "refresh")
  /\ UNCHANGED <<mgr, file, cpc>>

\* Refresh fails at once without a refresh token, or on a stopped manager.
RefreshLoad(h) ==
  /\ hpc[h] = "refresh"
  /\ Goto(h, "none", IF mgr.rt /\ h \notin gone THEN "exchange" ELSE "setNeedsLogin")
  /\ UNCHANGED <<state, age, mgr, file, cpc>>

\* The exchange gives a new token, persisted if the disk allows it.  An
\* evicted manager may still have had its answer ...
RefreshOk(h) ==
  /\ hpc[h] = "exchange"
  /\ mgr' = IF h \in gone THEN mgr ELSE NewToken
  /\ file' \in {NewToken, file}
  /\ Goto(h, "none", "setValid")
  /\ UNCHANGED <<state, age, cpc>>

\* Mutant: the error path of Refresh answers without setting the state.
RefreshErrorAnswers(h) ==
  /\ hpc[h] = "exchange"
  /\ Goto(h, "none", "idle")
  /\ UNCHANGED <<state, age, mgr, file, cpc>>

\* ... or an error, transient or permanent; the manager keeps its token.
RefreshError(h) ==
  /\ hpc[h] = "exchange"
  /\ Goto(h, "none", "setNeedsLogin")
  /\ UNCHANGED <<state, age, mgr, file, cpc>>

\* Refresh may also panic, for every handler that waits in singleflight.  The
\* deferred functions of handleConnection and of the wake-up goroutine recover
\* from it, set no state and answer nothing.
RefreshPanics(h) ==
  /\ hpc[h] = "exchange"
  /\ Goto(h, "none", "recover")
  /\ UNCHANGED <<state, age, mgr, file, cpc>>

Recover(h) ==
  /\ hpc[h] = "recover"
  /\ Goto(h, "none", "idle")
  /\ UNCHANGED <<state, age, mgr, file, cpc>>

\* The handler's last SetState, whatever the state has become meanwhile.
SetAndAnswer(h) ==
  /\ hpc[h] \in {"setValid", "setNeedsLogin"}
  /\ SetState(IF hpc[h] = "setValid" THEN VALID ELSE NEEDS_LOGIN)
  /\ Goto(h, "none", "idle")
  /\ UNCHANGED <<mgr, file, cpc>>

\* evictOldestManagerLocked takes this key's manager: PersistToken, Stop,
\* Delete, DeleteEntry.  A login in progress for the key goes with the entry.
EvictManager ==
  /\ mgr # NoToken
  /\ file' \in {mgr, file} /\ mgr' = NoToken
  /\ state' = "none" /\ age' = "none"
  /\ gone' = {h \in Handlers : hpc[h] \in {"token", "mark", "refresh", "exchange"}}
  /\ UNCHANGED <<hpc, op, cpc>>

\* EvictStale, with too many entries: this key's may go unless its login is
\* in time.
EvictStale ==
  /\ state # "none" /\ ~LoginInTime
  /\ state' = "none" /\ age' = "none"
  /\ UNCHANGED <<mgr, file, handlerVars, cpc>>

-----------------------------------------------------------------------------
(* The login command. *)

ClientGoto(c, l) == cpc' = [cpc EXCEPT ![c] = l]

SendBegin(c) ==
  /\ cpc[c] = "idle"
  /\ BeginLogin(ClientGoto(c, "auth"), ClientGoto(c, "cancelOther"))
  /\ UNCHANGED <<mgr, file, handlerVars>>

\* A login in progress is taken to be stuck: cancel it and begin again.
CancelOther(c) ==
  /\ cpc[c] = "cancelOther"
  /\ CancelLogin /\ ClientGoto(c, "begin2")
  /\ UNCHANGED <<mgr, file, handlerVars>>

SendBegin2(c) ==
  /\ cpc[c] = "begin2"
  /\ BeginLogin(ClientGoto(c, "auth"), ClientGoto(c, "restart"))
  /\ UNCHANGED <<mgr, file, handlerVars>>

\* c replaces the daemon by one that knows no states and no managers.  Handlers
\* die with the old one; a command whose store-token was cut off retries it.
ReplaceDaemon(c, l) ==
  /\ state' = "none" /\ age' = "none" /\ mgr' = NoToken
  /\ hpc' = [h \in Handlers |-> "idle"] /\ op' = [h \in Handlers |-> "none"]
  /\ gone' = {}
  /\ cpc' = [d \in Clients |-> IF d = c THEN l
                               ELSE IF cpc[d] = "complete" THEN "store2"
                               ELSE cpc[d]]
  /\ UNCHANGED file

\* Still in progress: shut the daemon down and start another.
RestartDaemon(c) == cpc[c] = "restart" /\ ReplaceDaemon(c, "begin3")

\* The third answer is not looked at.
SendBegin3(c) ==
  /\ cpc[c] = "begin3"
  /\ BeginLogin(ClientGoto(c, "auth"), ClientGoto(c, "auth"))
  /\ UNCHANGED <<mgr, file, handlerVars>>

\* Ctrl+C: the signal goroutine cancels the login, then the flow.
Interrupt(c) ==
  /\ cpc[c] = "auth"
  /\ CancelLogin /\ ClientGoto(c, "interrupted")
  /\ UNCHANGED <<mgr, file, handlerVars>>

\* PerformAuth returns tokens, perhaps just before the interrupt took effect.
AuthOk(c) ==
  /\ cpc[c] \in {"auth", "interrupted"}
  /\ ClientGoto(c, "store")
  /\ UNCHANGED <<state, age, mgr, file, handlerVars>>

AuthFails(c) ==
  /\ cpc[c] \in {"auth", "interrupted"}
  /\ ClientGoto(c, "cancel")
  /\ UNCHANGED <<state, age, mgr, file, handlerVars>>

\* After a failed flow the login is cancelled, for an interrupted command a
\* second time.
SendCancel(c) ==
  /\ cpc[c] = "cancel"
  /\ CancelLogin /\ ClientGoto(c, "idle")
  /\ UNCHANGED <<mgr, file, handlerVars>>

\* The terminal goes away: nothing is sent.
ClientDies(c) ==
  /\ cpc[c] \notin {"idle", "complete"} /\ ClientGoto(c, "idle")
  /\ UNCHANGED <<state, age, mgr, file, handlerVars>>

\* store-token: the manager and the persist file get the token, then the
\* state is completed.
StoreToken(c, t) ==
  /\ cpc[c] \in {"store", "store2"}
  /\ mgr' = t /\ file' \in {t, file}
  /\ ClientGoto(c, "complete")
  /\ UNCHANGED <<state, age, handlerVars>>

\* store-token fails: kill the daemon, start another, try once more ...
StoreFails(c) == cpc[c] = "store" /\ ReplaceDaemon(c, "store2")

\* ... and give up.
StoreFailsAgain(c) ==
  /\ cpc[c] = "store2" /\ ClientGoto(c, "idle")
  /\ UNCHANGED <<state, age, mgr, file, handlerVars>>

StoreCompletes(c) ==
  /\ cpc[c] = "complete"
  /\ CompleteLogin /\ ClientGoto(c, "idle")
  /\ UNCHANGED <<mgr, file, handlerVars>>

-----------------------------------------------------------------------------
\* The manager's ID token expires; the file's is the same or an older one.
Expire ==
  /\ mgr.tok = "fresh"
  /\ mgr' = [mgr EXCEPT !.tok = "expired"]
  /\ file' = IF file = NoToken THEN file ELSE [file EXCEPT !.tok = "expired"]
  /\ UNCHANGED <<state, age, handlerVars, cpc>>

ExpireFile ==
  /\ file.tok = "fresh"
  /\ file' = [file EXCEPT !.tok = "expired"]
  /\ UNCHANGED <<state, age, mgr, handlerVars, cpc>>

HandlerStart(h) ==
  \/ \E o \in {"get-token", "force-refresh"} : StartGetToken(h, o)
  \/ StartCheck(h) \/ StartRefresh(h) \/ StartWake(h)

HandlerStep(h) ==
  \/ GetStateOverdue(h) \/ GetOrCreateTokenManager(h) \/ GetToken(h)
  \/ CheckState(h) \/ CheckToken(h) \/ MarkRefreshing(h) \/ RefreshLoad(h)
  \/ RefreshOk(h) \/ RefreshError(h) \/ RefreshPanics(h) \/ Recover(h)
  \/ SetAndAnswer(h)

ClientStep(c) ==
  \/ CancelOther(c) \/ SendBegin2(c) \/ RestartDaemon(c) \/ SendBegin3(c)
  \/ AuthOk(c) \/ AuthFails(c) \/ SendCancel(c) \/ StoreCompletes(c)
  \/ StoreFails(c) \/ StoreFailsAgain(c)
  \/ \E t \in Tokens : t.tok # "none" /\ StoreToken(c, t)

Steps ==
  \/ \E h \in crew.handlers : HandlerStart(h) \/ HandlerStep(h)
  \/ \E c \in crew.clients : SendBegin(c) \/ ClientStep(c) \/ Interrupt(c)
                        \/ ClientDies(c)
  \/ LoginTimesOut \/ Expire \/ ExpireFile \/ EvictManager \/ EvictStale

Next == Steps /\ UNCHANGED crew

Spec == Init /\ [][Next]_vars

-----------------------------------------------------------------------------
(* Properties. *)

\* Nobody is on the way to replace REFRESHING, a state that no time-out ends.
Orphaned ==
  /\ state = REFRESHING
  /\ \A h \in Handlers :
       hpc[h] \notin {"refresh", "exchange", "setValid", "setNeedsLogin"}

\* Only a recovered panic leaves the key in REFRESHING without a handler that
\* will replace it: no error path, early return, eviction or overlap of two
\* refreshes of the key does (server.go:461-474, 733-743, 1059-1070).
OrphanedByPanic ==
  [][~Orphaned /\ Orphaned' => \E h \in Handlers : RefreshPanics(h)]_vars

\* Reading the state never ends a login that is still in its time, although
\* GetState drops its lock between seeing the time-out and recording it.
ReadersKeepLogin ==
  [][(\E h \in Handlers : GetStateOverdue(h)) /\ LoginInTime => LoginInTime']_vars

\* get-token requests keep coming, handlers are scheduled, time passes.
Fairness ==
  /\ \A h \in Handlers :
       /\ WF_vars(HandlerStep(h) /\ UNCHANGED crew)
       /\ SF_vars(h \in crew.handlers /\ StartGetToken(h, "get-token") /\ UNCHANGED crew)
  /\ WF_vars(LoginTimesOut /\ UNCHANGED crew)

FairSpec == Spec /\ Fairness

\* Once refreshes no longer panic the key does not stay in REFRESHING, not even
\* when a panic has left it there: the next request goes on to the manager and
\* sets a state of its own (server.go:430-474).
RefreshingEnds ==
  <>[][\A h \in Handlers : ~RefreshPanics(h)]_vars => []<>(state # REFRESHING)

\* Whatever dead logins and clobbered states came before, a key whose token is
\* fresh from some point on is VALID again and again.
StateHeals ==
  <>[](mgr.tok = "fresh" /\ \A c \in Clients : cpc[c] = "idle")
    => []<>(state = VALID)

=============================================================================

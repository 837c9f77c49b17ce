--------------------------- MODULE AuthStateProofs ---------------------------
(* Proofs about AuthState, for any number of handlers and login commands. *)
EXTENDS AuthState, TLAPS

\* Type correctness: every handler and login command is at a position the code
\* has, whatever they interleave.
THEOREM TypeCorrect == Spec => []TypeOK
<1>1. Init => TypeOK
  BY DEF Init, TypeOK, Ops, States, Tokens, NoToken, NewToken, VALID, REFRESHING, NEEDS_LOGIN,
         LOGIN_IN_PROGRESS
<1>2. ASSUME TypeOK, [Next]_vars PROVE TypeOK'
  <2> USE <1>2, CrewsAssumption DEF TypeOK, States, Tokens, Ops, NoToken, NewToken, VALID, REFRESHING, NEEDS_LOGIN,
                   LOGIN_IN_PROGRESS, handlerVars
  <2>0. CASE UNCHANGED vars  BY <2>0 DEF vars
  <2> SUFFICES ASSUME Steps, crew' = crew PROVE TypeOK'  BY <1>2, <2>0 DEF Next
  <2>1. ASSUME NEW h \in Handlers, HandlerStart(h) PROVE TypeOK'
    BY <2>1 DEF HandlerStart, StartGetToken, StartCheck, StartRefresh, StartWake, GetState,
                Goto, AfterGetState, Reported, Overdue
  <2>2. ASSUME NEW h \in Handlers, HandlerStep(h) PROVE TypeOK'
    <3>1. CASE GetStateOverdue(h)  BY <3>1 DEF GetStateOverdue, Goto, AfterGetState, Overdue
    <3>2. CASE GetOrCreateTokenManager(h)  BY <3>2 DEF GetOrCreateTokenManager, Goto, AfterGetState
    <3>3. CASE GetToken(h)  BY <3>3 DEF GetToken, Goto, AfterGetState
    <3>4. CASE CheckState(h)  BY <3>4 DEF CheckState, Goto, AfterGetState, GetState, Reported, Overdue
    <3>5. CASE CheckToken(h)  BY <3>5 DEF CheckToken, Goto, AfterGetState
    <3>6. CASE MarkRefreshing(h)  BY <3>6 DEF MarkRefreshing, Goto, AfterGetState, SetState
    <3>7. CASE RefreshLoad(h)  BY <3>7 DEF RefreshLoad, Goto, AfterGetState
    <3>8. CASE RefreshOk(h)
      <4>1. NewToken \in Tokens  OBVIOUS
      <4>2. mgr' \in Tokens /\ file' \in Tokens  BY <3>8, <4>1 DEF RefreshOk
      <4> QED  BY <3>8, <4>2 DEF RefreshOk, Goto
    <3>9. CASE RefreshError(h)  BY <3>9 DEF RefreshError, Goto, AfterGetState
    <3>10. CASE SetAndAnswer(h)  BY <3>10 DEF SetAndAnswer, Goto, AfterGetState, SetState
    <3>11. CASE RefreshPanics(h)  BY <3>11 DEF RefreshPanics, Goto
    <3>12. CASE Recover(h)  BY <3>12 DEF Recover, Goto
    <3> QED  BY <2>2, <3>1, <3>2, <3>3, <3>4, <3>5, <3>6, <3>7, <3>8, <3>9, <3>10, <3>11, <3>12 DEF HandlerStep
  <2>3. ASSUME NEW c \in Clients,
               SendBegin(c) \/ ClientStep(c) \/ Interrupt(c) \/ ClientDies(c)
        PROVE  TypeOK'
    <3>1. CASE CancelOther(c)  BY <3>1 DEF CancelOther, ClientGoto, CancelLogin
    <3>2. CASE SendBegin(c)  BY <3>2 DEF SendBegin, ClientGoto, BeginLogin
    <3>3. CASE SendBegin2(c)  BY <3>3 DEF SendBegin2, ClientGoto, BeginLogin
    <3>4. CASE RestartDaemon(c)  BY <3>4 DEF RestartDaemon, ReplaceDaemon
    <3>5. CASE SendBegin3(c)  BY <3>5 DEF SendBegin3, ClientGoto, BeginLogin
    <3>6. CASE AuthOk(c)  BY <3>6 DEF AuthOk, ClientGoto
    <3>7. CASE AuthFails(c)  BY <3>7 DEF AuthFails, ClientGoto
    <3>8. CASE SendCancel(c)  BY <3>8 DEF SendCancel, ClientGoto, CancelLogin
    <3>9. CASE StoreCompletes(c)  BY <3>9 DEF StoreCompletes, ClientGoto, CompleteLogin
    <3>10. CASE StoreFails(c)  BY <3>10 DEF StoreFails, ReplaceDaemon
    <3>11. CASE StoreFailsAgain(c)  BY <3>11 DEF StoreFailsAgain, ClientGoto
    <3>12. CASE \E t \in Tokens : t.tok # "none" /\ StoreToken(c, t)
      BY <3>12 DEF StoreToken, ClientGoto
    <3>13. CASE Interrupt(c)  BY <3>13 DEF Interrupt, ClientGoto, CancelLogin
    <3>14. CASE ClientDies(c)  BY <3>14 DEF ClientDies, ClientGoto
    <3> QED  BY <2>3, <3>1, <3>2, <3>3, <3>4, <3>5, <3>6, <3>7, <3>8, <3>9, <3>10, <3>11, <3>12, <3>13, <3>14 DEF ClientStep
  <2>4. CASE LoginTimesOut  BY <2>4 DEF LoginTimesOut
  <2>5. CASE Expire  BY <2>5 DEF Expire
  <2>6. CASE ExpireFile  BY <2>6 DEF ExpireFile
  <2>7. CASE EvictManager  BY <2>7 DEF EvictManager
  <2>8. CASE EvictStale  BY <2>8 DEF EvictStale
  <2>9. crew.handlers \subseteq Handlers /\ crew.clients \subseteq Clients  OBVIOUS
  <2> QED  BY <2>1, <2>2, <2>3, <2>4, <2>5, <2>6, <2>7, <2>8, <2>9 DEF Steps
<1> QED  BY <1>1, <1>2, PTL DEF Spec

-----------------------------------------------------------------------------
Owners == {"refresh", "exchange", "setValid", "setNeedsLogin"}

\* A step orphans nothing if it writes a state other than REFRESHING, or leaves
\* the state alone and lets every owner remain one.
LEMMA OwnerKept ==
  ASSUME ~Orphaned,
         \/ state' # REFRESHING
         \/ /\ state' = state
            /\ \A h \in Handlers : hpc[h] \in Owners => hpc'[h] \in Owners
  PROVE  ~Orphaned'
  BY DEF Orphaned, Owners

\* However many handlers, logins, evictions and daemon replacements interleave, a
\* step that leaves REFRESHING without a handler bound to replace it is a panic
\* of the refresh that handler was in.
THEOREM OnlyPanicOrphans == Spec => OrphanedByPanic
<1>1. ASSUME TypeOK, [Next]_vars, ~Orphaned, \A h \in Handlers : ~RefreshPanics(h)
      PROVE  ~Orphaned'
  <2> USE <1>1 DEF VALID, REFRESHING, NEEDS_LOGIN, LOGIN_IN_PROGRESS, handlerVars
  <2>0. hpc \in [Handlers -> {"idle", "overdue", "checkState", "manager", "token",
                              "checkToken", "mark", "refresh", "exchange", "setValid",
                              "setNeedsLogin", "recover"}]
    BY DEF TypeOK
  <2>1. ASSUME NEW h \in Handlers, HandlerStart(h) PROVE ~Orphaned'
    \* A handler that starts owns nothing yet.
    <3>1. state' = state /\ hpc[h] = "idle" /\ \A g \in Handlers \ {h} : hpc'[g] = hpc[g]
      BY <2>0, <2>1 DEF HandlerStart, StartGetToken, StartCheck, StartRefresh, StartWake,
                        GetState, Goto
    <3> QED  BY <3>1, OwnerKept DEF Owners
  <2>2. ASSUME NEW h \in Handlers, HandlerStep(h) PROVE ~Orphaned'
    \* Before MarkRefreshing, and after a panic, a handler owns nothing.
    <3>1. CASE \/ GetOrCreateTokenManager(h) \/ GetToken(h) \/ CheckState(h) \/ CheckToken(h)
               \/ Recover(h)
      <4>1. state' = state /\ hpc[h] \notin Owners
            /\ \A g \in Handlers \ {h} : hpc'[g] = hpc[g]
        BY <2>0, <3>1 DEF GetOrCreateTokenManager, GetToken, CheckState, CheckToken, GetState,
                          Recover, Goto, Owners
      <4> QED  BY <4>1, OwnerKept
    <3>2. CASE GetStateOverdue(h)
      <4>1. hpc[h] \notin Owners /\ \A g \in Handlers \ {h} : hpc'[g] = hpc[g]
        BY <2>0, <3>2 DEF GetStateOverdue, Goto, Owners
      <4>2. state' = state \/ state' = NEEDS_LOGIN  BY <3>2 DEF GetStateOverdue
      <4> QED  BY <4>1, <4>2, OwnerKept
    <3>3. CASE MarkRefreshing(h)
      <4>1. hpc'[h] = "refresh"  BY <2>0, <3>3 DEF MarkRefreshing, Goto
      <4> QED  BY <4>1 DEF Orphaned
    \* From there it stays an owner, unless it panics ...
    <3>4. CASE RefreshLoad(h) \/ RefreshOk(h) \/ RefreshError(h)
      <4>1. state' = state /\ hpc'[h] \in Owners
            /\ \A g \in Handlers \ {h} : hpc'[g] = hpc[g]
        BY <2>0, <3>4 DEF RefreshLoad, RefreshOk, RefreshError, Goto, Owners
      <4> QED  BY <4>1, OwnerKept
    \* ... until it writes its own last state.
    <3>5. CASE SetAndAnswer(h)
      <4>1. state' # REFRESHING  BY <3>5 DEF SetAndAnswer, SetState
      <4> QED  BY <4>1, OwnerKept
    <3> QED  BY <2>2, <3>1, <3>2, <3>3, <3>4, <3>5 DEF HandlerStep
  <2>3. ASSUME NEW c \in Clients,
               SendBegin(c) \/ ClientStep(c) \/ Interrupt(c) \/ ClientDies(c)
        PROVE  ~Orphaned'
    <3>1. CASE RestartDaemon(c) \/ StoreFails(c)
      <4>1. state' # REFRESHING  BY <3>1 DEF RestartDaemon, StoreFails, ReplaceDaemon
      <4> QED  BY <4>1, OwnerKept
    <3>2. CASE ~(RestartDaemon(c) \/ StoreFails(c))
      <4>1. hpc' = hpc /\ (state' = state \/ state' # REFRESHING)
        BY <2>3, <3>2 DEF SendBegin, ClientStep, Interrupt, ClientDies, CancelOther, SendBegin2,
             SendBegin3, AuthOk, AuthFails, SendCancel, StoreCompletes, StoreFailsAgain,
             StoreToken, BeginLogin, CancelLogin, CompleteLogin
      <4> QED  BY <4>1, OwnerKept
    <3> QED  BY <3>1, <3>2
  <2>4. CASE LoginTimesOut \/ Expire \/ ExpireFile \/ EvictManager \/ EvictStale \/ UNCHANGED vars
    <3>1. hpc' = hpc /\ (state' = state \/ state' # REFRESHING)
      BY <2>4 DEF LoginTimesOut, Expire, ExpireFile, EvictManager, EvictStale, vars
    <3> QED  BY <3>1, OwnerKept
  <2>5. crew.handlers \subseteq Handlers /\ crew.clients \subseteq Clients
    BY CrewsAssumption DEF TypeOK
  <2> QED  BY <2>1, <2>2, <2>3, <2>4, <2>5 DEF Next, Steps
<1>2. TypeOK /\ [Next]_vars /\ ~Orphaned /\ Orphaned' => \E h \in Handlers : RefreshPanics(h)
  BY <1>1
<1> QED  BY <1>2, TypeCorrect, PTL DEF Spec, OrphanedByPanic

\* However many handlers read the state at once, recording a time-out never ends
\* a login that is still in its time: the write-locked section looks again.
THEOREM ReadersKeep == Spec => ReadersKeepLogin
<1>1. ASSUME NEW h \in Handlers, GetStateOverdue(h), LoginInTime
      PROVE  LoginInTime'
  <2>1. ~Overdue  BY <1>1 DEF LoginInTime, Overdue
  <2>2. state' = state /\ age' = age  BY <1>1, <2>1 DEF GetStateOverdue
  <2> QED  BY <1>1, <2>2 DEF LoginInTime
<1>2. (\E h \in Handlers : GetStateOverdue(h)) /\ LoginInTime => LoginInTime'
  BY <1>1
<1> QED  BY <1>2, PTL DEF Spec, ReadersKeepLogin

==============================================================================

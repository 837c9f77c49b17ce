------------------------- MODULE TokenManagerProofs -------------------------
(***************************************************************************)
(* Proofs about TokenManager and TokenRestart, for any sets of callers,    *)
(* callbacks, logins and Stop calls and for any bounds: the types, the     *)
(* accounting of the WaitGroup, what a Stop that returned leaves behind    *)
(* (and so the refinement of CallbackDrain), that a rotated refresh token  *)
(* is not presented again, and what a crash can cost.                      *)
(*                                                                         *)
(* The steps come first, then, with the facts about finite sets, the       *)
(* counts, and the theorems last.                                          *)
(***************************************************************************)
EXTENDS TokenRestart, TLAPS

USE DEF Procs, Ids, Rts, Entry, NoEntry

-----------------------------------------------------------------------------
(* The inductive invariant behind the types and the WaitGroup. *)

\* Past its first step the refresh closure holds an entry with a refresh
\* token, and from the provider's answer on also a new entry.
FlightInv ==
  /\ flight \in {"loaded", "sent", "granted", "stored", "persisted", "reset"}
       => old \in Entry /\ old.rt # 0
  /\ flight \in {"granted", "stored", "persisted", "reset"} => new \in Entry

\* While persistWatchdogCallback runs, its timer is spent: the callback is
\* never there twice.
WdExclusive == wdPc # "idle" => wd = "spent"

IInv == TypeOK /\ FlightInv /\ WgAccounting /\ WdExclusive /\ WatchdogAlive

\* The refresh closure keeps hold of what it loaded and received until it ends.
LEMMA FlightInvStep ==
  ASSUME TypeOK, FlightInv, [Next]_vars
  PROVE  FlightInv'
<1> USE Bounds
<1>1. ASSUME NEW p \in Callers, CallRefresh(p) PROVE FlightInv'
  BY <1>1 DEF FlightInv, CallRefresh, EnterRefresh
<1>2. ASSUME NEW p \in Callers, CallReturns(p) PROVE FlightInv'
  BY <1>2 DEF FlightInv, CallReturns, flightVars
<1>3. CASE FlightLoad
  BY <1>3 DEF TypeOK, FlightInv, FlightLoad, EndFlight
<1>4. CASE FlightSend
  BY <1>4 DEF FlightInv, FlightSend
<1>5. CASE FlightFail
  BY <1>5 DEF FlightInv, FlightFail, EndFlight
<1>6. CASE FlightStore
  BY <1>6 DEF FlightInv, FlightStore
<1>7. CASE FlightPersist
  BY <1>7 DEF FlightInv, FlightPersist
<1>8. CASE FlightResetRetry
  BY <1>8 DEF FlightInv, FlightResetRetry
<1>9. CASE FlightSchedule
  BY <1>9 DEF FlightInv, FlightSchedule, EndFlight
<1>10. CASE ProviderReject
  BY <1>10 DEF FlightInv, ProviderReject, EndFlight
<1>11. ASSUME NEW rotates \in BOOLEAN, ProviderGrant(rotates)
      PROVE  FlightInv'
  <2>1. issued' \in Ids /\ UNCHANGED old
    BY <1>11 DEF TypeOK, ProviderGrant
  <2>2. old \in Entry /\ old.rt # 0
    BY <1>11 DEF FlightInv, ProviderGrant
  <2>3. new' \in Entry
    BY <1>11, <2>1, <2>2 DEF ProviderGrant
  <2> QED
    BY <2>1, <2>2, <2>3 DEF FlightInv
<1>12. ASSUME NEW c \in Callbacks, TimerFire(c) PROVE FlightInv'
  BY <1>12 DEF FlightInv, TimerFire, flightVars
<1>13. ASSUME NEW c \in Callbacks, CallbackStart(c) PROVE FlightInv'
  BY <1>13 DEF FlightInv, CallbackStart, EnterRefresh
<1>14. ASSUME NEW c \in Callbacks, CallbackReload(c) PROVE FlightInv'
  BY <1>14 DEF FlightInv, CallbackReload, flightVars
<1>15. ASSUME NEW c \in Callbacks, CallbackRetry(c) PROVE FlightInv'
  BY <1>15 DEF FlightInv, CallbackRetry, flightVars
<1>16. ASSUME NEW c \in Callbacks, CallbackDone(c) PROVE FlightInv'
  BY <1>16 DEF FlightInv, CallbackDone, flightVars
<1>17. CASE WatchdogFire
  BY <1>17 DEF FlightInv, WatchdogFire, flightVars
<1>18. CASE WatchdogLoad
  BY <1>18 DEF FlightInv, WatchdogLoad, flightVars
<1>19. CASE WatchdogPersist
  BY <1>19 DEF FlightInv, WatchdogPersist, flightVars
<1>20. CASE WatchdogDone
  BY <1>20 DEF FlightInv, WatchdogDone, flightVars
<1>21. ASSUME NEW l \in Logins, NEW hasRt \in BOOLEAN, LoginStore(l, hasRt)
      PROVE  FlightInv'
  BY <1>21 DEF FlightInv, LoginStore, flightVars
<1>22. ASSUME NEW l \in Logins, LoginSchedule(l) PROVE FlightInv'
  BY <1>22 DEF FlightInv, LoginSchedule, flightVars
<1>23. ASSUME NEW l \in Logins, StartPersistWatchdog(l) PROVE FlightInv'
  BY <1>23 DEF FlightInv, StartPersistWatchdog, flightVars
<1>24. ASSUME NEW l \in Logins, LoginPersist(l) PROVE FlightInv'
  BY <1>24 DEF FlightInv, LoginPersist, flightVars
<1>25. ASSUME NEW s \in Stoppers, StopLocked(s) PROVE FlightInv'
  BY <1>25 DEF FlightInv, StopLocked, flightVars
<1>26. ASSUME NEW s \in Stoppers, StopWait(s) PROVE FlightInv'
  BY <1>26 DEF FlightInv, StopWait, flightVars
<1>27. ASSUME NEW n \in Ids, Expire(n) PROVE FlightInv'
  BY <1>27 DEF FlightInv, Expire, flightVars
<1>28. ASSUME NEW n \in Ids, ProviderRevoke(n) PROVE FlightInv'
  BY <1>28 DEF FlightInv, ProviderRevoke, flightVars
<1>29. CASE UNCHANGED vars
  BY <1>29 DEF FlightInv, vars, flightVars
<1> QED
  BY <1>1, <1>2, <1>3, <1>4, <1>5, <1>6, <1>7, <1>8, <1>9, <1>10, <1>11,
     <1>12, <1>13, <1>14, <1>15, <1>16, <1>17, <1>18, <1>19, <1>20, <1>21,
     <1>22, <1>23, <1>24, <1>25, <1>26, <1>27, <1>28, <1>29 DEF Next,
     FlightStep, ProviderStep, CallbackStep, WatchdogStep, LoginStep

\* Each step keeps every variable in its set; that wg stays natural is assumed
\* here and follows from WgAccounting.
LEMMA TypeStep ==
  ASSUME TypeOK, FlightInv, [Next]_vars, wg' \in Nat
  PROVE  TypeOK'
<1> USE Bounds
<1>1. ASSUME NEW p \in Callers, CallRefresh(p) PROVE TypeOK'
  BY <1>1 DEF TypeOK, CallRefresh, EnterRefresh, entryVars, timerVars,
     wdVars, stopVars, loginVars, providerVars
<1>2. ASSUME NEW p \in Callers, CallReturns(p) PROVE TypeOK'
  BY <1>2 DEF TypeOK, CallReturns, entryVars, flightVars, timerVars, wdVars,
     stopVars, loginVars, providerVars
<1>3. CASE FlightLoad
  BY <1>3 DEF TypeOK, FlightLoad, EndFlight, entryVars, timerVars, wdVars,
     stopVars, loginVars, providerVars
<1>4. CASE FlightSend
  <2>1. reused' \in SUBSET Ids
    BY <1>4 DEF TypeOK, FlightSend
  <2> QED
    BY <1>4, <2>1 DEF TypeOK, FlightSend, entryVars, procVars, timerVars,
       wdVars, stopVars, loginVars
<1>5. CASE FlightFail
  <2>1. old.rt \in Ids
    BY <1>5 DEF FlightInv, FlightFail
  <2>2. lost' \in SUBSET Ids
    BY <1>5, <2>1 DEF TypeOK, FlightFail
  <2>3. pc' \in [Procs -> {"idle", "fired", "refreshing", "failed", "done"}]
    BY <1>5 DEF TypeOK, FlightFail, EndFlight
  <2> QED
    BY <1>5, <2>2, <2>3 DEF TypeOK, FlightFail, EndFlight, entryVars, timerVars,
       wdVars, stopVars, loginVars
<1>6. CASE FlightStore
  BY <1>6 DEF TypeOK, FlightInv, FlightStore, procVars, timerVars, wdVars,
     stopVars, loginVars, providerVars
<1>7. CASE FlightPersist
  BY <1>7 DEF TypeOK, FlightPersist, procVars, timerVars, wdVars, stopVars,
     loginVars, providerVars
<1>8. CASE FlightResetRetry
  BY <1>8 DEF TypeOK, FlightResetRetry, entryVars, procVars, timerVars,
     wdVars, stopVars, loginVars, providerVars
<1>9. CASE FlightSchedule
  BY <1>9 DEF TypeOK, FlightSchedule, EndFlight, ScheduleProactiveRefresh,
     Rearm, entryVars, timerVars, wdVars, stopVars, loginVars, providerVars
<1>10. CASE ProviderReject
  BY <1>10 DEF TypeOK, ProviderReject, EndFlight, entryVars, timerVars,
     wdVars, stopVars, loginVars, providerVars
<1>11. ASSUME NEW rotates \in BOOLEAN, ProviderGrant(rotates) PROVE TypeOK'
  <2>1. issued' \in Ids /\ old \in Entry /\ old.rt # 0
    BY <1>11 DEF TypeOK, FlightInv, ProviderGrant
  <2>2. new' \in Entry
    BY <1>11, <2>1 DEF ProviderGrant
  <2>3. live' \in SUBSET Ids /\ consumed' \in SUBSET Ids
    BY <1>11, <2>1 DEF TypeOK, ProviderGrant
  <2> QED
    BY <1>11, <2>1, <2>2, <2>3 DEF TypeOK, ProviderGrant, entryVars, procVars,
       timerVars, wdVars, stopVars, loginVars
<1>12. ASSUME NEW c \in Callbacks, TimerFire(c) PROVE TypeOK'
  BY <1>12 DEF TypeOK, TimerFire, entryVars, flightVars, wdVars, stopVars,
     loginVars, providerVars
<1>13. ASSUME NEW c \in Callbacks, CallbackStart(c) PROVE TypeOK'
  BY <1>13 DEF TypeOK, CallbackStart, EnterRefresh, entryVars, timerVars,
     wdVars, stopVars, loginVars, providerVars
<1>14. ASSUME NEW c \in Callbacks, CallbackReload(c) PROVE TypeOK'
  BY <1>14 DEF TypeOK, CallbackReload, entryVars, flightVars, timerVars,
     wdVars, stopVars, loginVars, providerVars
<1>15. ASSUME NEW c \in Callbacks, CallbackRetry(c) PROVE TypeOK'
  BY <1>15 DEF TypeOK, CallbackRetry, ScheduleRetry, Rearm, entryVars,
     flightVars, timerVars, wdVars, stopVars, loginVars, providerVars
<1>16. ASSUME NEW c \in Callbacks, CallbackDone(c) PROVE TypeOK'
  BY <1>16 DEF TypeOK, CallbackDone, entryVars, flightVars, wdVars, stopVars,
     loginVars, providerVars
<1>17. CASE WatchdogFire
  BY <1>17 DEF TypeOK, WatchdogFire, entryVars, flightVars, procVars,
     timerVars, stopVars, loginVars, providerVars
<1>18. CASE WatchdogLoad
  BY <1>18 DEF TypeOK, WatchdogLoad, entryVars, flightVars, procVars,
     timerVars, stopVars, loginVars, providerVars
<1>19. CASE WatchdogPersist
  BY <1>19 DEF TypeOK, WatchdogPersist, flightVars, procVars, timerVars,
     stopVars, loginVars, providerVars
<1>20. CASE WatchdogDone
  BY <1>20 DEF TypeOK, WatchdogDone, entryVars, flightVars, procVars,
     stopVars, loginVars, providerVars
<1>21. ASSUME NEW l \in Logins, NEW hasRt \in BOOLEAN, LoginStore(l, hasRt)
      PROVE  TypeOK'
  BY <1>21 DEF TypeOK, LoginStore, flightVars, procVars, timerVars, wdVars,
     stopVars
<1>22. ASSUME NEW l \in Logins, LoginSchedule(l) PROVE TypeOK'
  BY <1>22 DEF TypeOK, LoginSchedule, ScheduleProactiveRefresh, Rearm,
     entryVars, flightVars, procVars, timerVars, wdVars, stopVars,
     providerVars
<1>23. ASSUME NEW l \in Logins, StartPersistWatchdog(l) PROVE TypeOK'
  BY <1>23 DEF TypeOK, StartPersistWatchdog, entryVars, flightVars, procVars,
     stopVars, providerVars
<1>24. ASSUME NEW l \in Logins, LoginPersist(l) PROVE TypeOK'
  BY <1>24 DEF TypeOK, LoginPersist, flightVars, procVars, timerVars, wdVars,
     stopVars, providerVars
<1>25. ASSUME NEW s \in Stoppers, StopLocked(s) PROVE TypeOK'
  <2>1. /\ stopPc' \in [Stoppers -> {"idle", "waiting", "waited", "skipped"}]
        /\ stopped' \in BOOLEAN
    BY <1>25 DEF TypeOK, StopLocked
  <2>2. /\ timer' \in {"nil", "armed", "spent"} /\ timerFor' \in 0..MaxToken
        /\ wd' \in {"nil", "armed", "spent"}
    BY <1>25 DEF TypeOK, StopLocked, timerVars
  <2> QED
    BY <1>25, <2>1, <2>2 DEF TypeOK, StopLocked, entryVars, flightVars, procVars,
       loginVars, providerVars
<1>26. ASSUME NEW s \in Stoppers, StopWait(s) PROVE TypeOK'
  BY <1>26 DEF TypeOK, StopWait, entryVars, flightVars, procVars, timerVars,
     wdVars, loginVars, providerVars
<1>27. ASSUME NEW n \in Ids, Expire(n) PROVE TypeOK'
  BY <1>27 DEF TypeOK, Expire, entryVars, flightVars, procVars, timerVars,
     wdVars, stopVars, loginVars, providerVars
<1>28. ASSUME NEW n \in Ids, ProviderRevoke(n) PROVE TypeOK'
  BY <1>28 DEF TypeOK, ProviderRevoke, entryVars, flightVars, procVars,
     timerVars, wdVars, stopVars, loginVars
<1>29. CASE UNCHANGED vars
  BY <1>29 DEF TypeOK, vars, entryVars, flightVars, procVars, timerVars,
     wdVars, stopVars, loginVars, providerVars
<1> QED
  BY <1>1, <1>2, <1>3, <1>4, <1>5, <1>6, <1>7, <1>8, <1>9, <1>10, <1>11,
     <1>12, <1>13, <1>14, <1>15, <1>16, <1>17, <1>18, <1>19, <1>20, <1>21,
     <1>22, <1>23, <1>24, <1>25, <1>26, <1>27, <1>28, <1>29 DEF Next,
     FlightStep, ProviderStep, CallbackStep, WatchdogStep, LoginStep

-----------------------------------------------------------------------------
(* What a step does to the timers, and what it does to the tokens. *)

\* The refresh timer is left alone or, unless the manager is stopped, stopped
\* and perhaps armed again, each with its slot of the WaitGroup.
TimerKept ==
  \/ UNCHANGED <<timer, wg>>
  \/ ~stopped /\ wg' = wg - Num(timer = "armed") + Num(timer' = "armed")

Rearms == Busy' = Busy /\ UNCHANGED <<wd, wdPc, stopVars>> /\ TimerKept

\* scheduleProactiveRefresh and scheduleRetry do just that.
LEMMA ScheduleRearms ==
  ASSUME TypeOK, NEW id, NEW captured,
         (stopped /\ UNCHANGED timerVars) \/ (~stopped /\ Rearm(id, captured))
  PROVE  TimerKept
BY DEF TimerKept, TypeOK, Rearm, timerVars, Num

\* Apart from the steps of a callback, of the watchdog and of Stop, every step
\* at most re-arms the refresh timer.
LEMMA TimerCases ==
  ASSUME TypeOK, [Next]_vars
  PROVE  \/ Rearms
         \/ \E c \in Callbacks : TimerFire(c) \/ CallbackDone(c)
         \/ WatchdogFire \/ WatchdogStep
         \/ \E l \in Logins : StartPersistWatchdog(l)
         \/ \E s \in Stoppers : StopLocked(s) \/ StopWait(s)
<1>p. pc \in [Procs -> {"idle", "fired", "refreshing", "failed", "done"}]
  BY DEF TypeOK
<1>f. ASSUME NEW outcome \in {"failed", "done"}, EndFlight(outcome) PROVE Busy' = Busy
  BY <1>p, <1>f DEF EndFlight, Busy
<1>e. ASSUME NEW p \in Procs, p \in Callbacks => pc[p] # "idle", EnterRefresh(p) PROVE Busy' = Busy
  BY <1>p, <1>e DEF EnterRefresh, Busy
<1>1. ASSUME NEW p \in Callers, CallRefresh(p) \/ CallReturns(p) PROVE Rearms
  <2>1. p \notin Callbacks
    BY FiniteProcesses
  <2>2. Busy' = Busy
    BY <1>1, <1>p, <2>1 DEF CallRefresh, CallReturns, EnterRefresh, Busy
  <2> QED
    BY <1>1, <2>2 DEF CallRefresh, CallReturns, Rearms, TimerKept, timerVars, wdVars
<1>2. ASSUME FlightLoad \/ FlightFail \/ ProviderReject PROVE Rearms
  <2>1. Busy' = Busy
    BY <1>2, <1>f DEF FlightLoad, FlightFail, ProviderReject, Busy
  <2> QED
    BY <1>2, <2>1 DEF FlightLoad, FlightFail, ProviderReject, Rearms, TimerKept, timerVars, wdVars
<1>3. ASSUME FlightSend \/ FlightStore \/ FlightPersist \/ FlightResetRetry PROVE Rearms
  BY <1>3 DEF FlightSend, FlightStore, FlightPersist, FlightResetRetry, procVars, Rearms, TimerKept, Busy,
     timerVars, wdVars
<1>4. ASSUME NEW rotates \in BOOLEAN, ProviderGrant(rotates) PROVE Rearms
  BY <1>4 DEF ProviderGrant, procVars, Rearms, TimerKept, Busy, timerVars, wdVars
<1>5. ASSUME FlightSchedule PROVE Rearms
  <2>1. Busy' = Busy /\ UNCHANGED <<wd, wdPc, stopVars>>
    BY <1>5, <1>f DEF FlightSchedule, wdVars
  <2>2. (stopped /\ UNCHANGED timerVars) \/ (~stopped /\ Rearm(new.id, new.id))
    BY <1>5 DEF FlightSchedule, ScheduleProactiveRefresh
  <2> QED
    BY <2>1, <2>2, ScheduleRearms, Zenon DEF Rearms
<1>6. ASSUME NEW c \in Callbacks, CallbackStart(c) \/ CallbackReload(c) PROVE Rearms
  <2>1. Busy' = Busy
    BY <1>6, <1>p, <1>e DEF CallbackStart, CallbackReload, Busy
  <2> QED
    BY <1>6, <2>1 DEF CallbackStart, CallbackReload, Rearms, TimerKept, timerVars, wdVars
<1>7. ASSUME NEW c \in Callbacks, CallbackRetry(c) PROVE Rearms
  <2>1. Busy' = Busy /\ UNCHANGED <<wd, wdPc, stopVars>>
    BY <1>7, <1>p DEF CallbackRetry, Busy, wdVars
  <2>2. (stopped /\ UNCHANGED timerVars) \/ (~stopped /\ Rearm(cbFor[c], 0))
    BY <1>7 DEF CallbackRetry, ScheduleRetry
  <2> QED
    BY <2>1, <2>2, ScheduleRearms, Zenon DEF Rearms
<1>8. ASSUME NEW l \in Logins, LoginSchedule(l) PROVE Rearms
  <2>1. Busy' = Busy /\ UNCHANGED <<wd, wdPc, stopVars>>
    BY <1>8 DEF LoginSchedule, procVars, Busy, wdVars
  <2>2. (stopped /\ UNCHANGED timerVars) \/ (~stopped /\ Rearm(loginEntry[l].id, loginEntry[l].id))
    BY <1>8 DEF LoginSchedule, ScheduleProactiveRefresh
  <2> QED
    BY <2>1, <2>2, ScheduleRearms, Zenon DEF Rearms
<1>9. ASSUME NEW l \in Logins, LoginPersist(l) \/ \E hasRt \in BOOLEAN : LoginStore(l, hasRt) PROVE Rearms
  BY <1>9 DEF LoginStore, LoginPersist, procVars, Rearms, TimerKept, Busy, timerVars, wdVars
<1>10. ASSUME NEW n \in Ids, Expire(n) \/ ProviderRevoke(n) PROVE Rearms
  BY <1>10 DEF Expire, ProviderRevoke, procVars, Rearms, TimerKept, Busy, timerVars, wdVars
<1>11. CASE UNCHANGED vars
  BY <1>11 DEF vars, procVars, Rearms, TimerKept, Busy, timerVars, wdVars
<1> QED
  BY <1>1, <1>2, <1>3, <1>4, <1>5, <1>6, <1>7, <1>8, <1>9, <1>10, <1>11, ZenonT(60)
     DEF Next, FlightStep, ProviderStep, CallbackStep, LoginStep

\* The manager's tokens, the file and the provider stay as they are, and so
\* does the refresh closure, unless it ends or begins with nothing in hand.
TokensStill ==
  /\ UNCHANGED <<entryVars, providerVars>>
  /\ \/ UNCHANGED flightVars
     \/ /\ flight \notin {"granted", "stored"}
        /\ flight' \notin {"loaded", "sent", "granted", "stored"}

LEMMA TokenCases ==
  ASSUME [Next]_vars
  PROVE  \/ TokensStill
         \/ FlightLoad \/ FlightSend \/ FlightFail \/ FlightStore \/ FlightPersist
         \/ \E rotates \in BOOLEAN : ProviderGrant(rotates)
         \/ WatchdogPersist
         \/ \E l \in Logins : LoginPersist(l) \/ \E hasRt \in BOOLEAN : LoginStore(l, hasRt)
         \/ \E n \in Ids : ProviderRevoke(n)
<1> USE DEF TokensStill
<1>1. ASSUME NEW p \in Callers, CallRefresh(p) \/ CallReturns(p) PROVE TokensStill
  BY <1>1 DEF CallRefresh, EnterRefresh, CallReturns, flightVars
<1>2. ASSUME FlightResetRetry \/ FlightSchedule \/ ProviderReject PROVE TokensStill
  BY <1>2 DEF FlightResetRetry, FlightSchedule, ProviderReject, EndFlight
<1>3. ASSUME NEW c \in Callbacks, TimerFire(c) \/ CallbackStep(c) PROVE TokensStill
  BY <1>3 DEF TimerFire, CallbackStep, CallbackStart, EnterRefresh, CallbackReload,
     CallbackRetry, CallbackDone, flightVars
<1>4. ASSUME WatchdogFire \/ WatchdogLoad \/ WatchdogDone PROVE TokensStill
  BY <1>4 DEF WatchdogFire, WatchdogLoad, WatchdogDone
<1>5. ASSUME NEW l \in Logins, LoginSchedule(l) \/ StartPersistWatchdog(l) PROVE TokensStill
  BY <1>5 DEF LoginSchedule, StartPersistWatchdog
<1>6. ASSUME NEW s \in Stoppers, StopLocked(s) \/ StopWait(s) PROVE TokensStill
  BY <1>6 DEF StopLocked, StopWait
<1>7. ASSUME NEW n \in Ids, Expire(n) PROVE TokensStill
  BY <1>7 DEF Expire
<1>8. CASE UNCHANGED vars
  BY <1>8 DEF vars
<1> QED
  BY <1>1, <1>2, <1>3, <1>4, <1>5, <1>6, <1>7, <1>8, ZenonT(60)
     DEF Next, FlightStep, ProviderStep, WatchdogStep, LoginStep

-----------------------------------------------------------------------------
(* "No token is ever used twice": what the provider has rotated away and   *)
(* what the manager still holds.                                           *)

\* The provider does not accept what it has rotated away, and what it is about
\* to hand out it has not.
ProviderInv ==
  /\ live \subseteq 1..issued /\ consumed \subseteq 1..issued
  /\ live \cap consumed = {}
  /\ flight \in {"granted", "stored"} => new.rt \notin consumed

\* A refresh token in the manager's hands has been rotated away only if the
\* answer with its successor was lost, or that answer is about to be stored.
RotationInv ==
  /\ current.rt \in consumed =>
       current.rt \in lost \/ (flight = "granted" /\ current.rt = old.rt)
  /\ flight \in {"loaded", "sent"} /\ old.rt \in consumed => old.rt \in lost
  /\ NoTokenUsedTwice

\* Granting rotates the old refresh token away; a login's is new.
LEMMA ProviderStepInv ==
  ASSUME IInv, ProviderInv, [Next]_vars
  PROVE  ProviderInv'
<1>0. issued \in Nat /\ 0 \notin consumed /\ 0 \notin live /\ issued + 1 \notin consumed
  BY DEF IInv, TypeOK, ProviderInv
<1>1. CASE TokensStill
  BY <1>1 DEF TokensStill, ProviderInv, providerVars, flightVars
<1>2. CASE FlightLoad \/ FlightSend \/ FlightFail
  BY <1>2 DEF FlightLoad, FlightSend, FlightFail, EndFlight, ProviderInv, providerVars
<1>3. CASE FlightStore \/ FlightPersist
  BY <1>3 DEF FlightStore, FlightPersist, ProviderInv, providerVars
<1>4. ASSUME NEW rotates \in BOOLEAN, ProviderGrant(rotates) PROVE ProviderInv'
  <2>1. /\ issued' = issued + 1 /\ old.rt \in live
        /\ live' \subseteq live \cup {issued + 1} /\ consumed' \subseteq consumed \cup {old.rt}
    BY <1>4 DEF ProviderGrant
  <2>2. live' \subseteq 1..issued' /\ consumed' \subseteq 1..issued'
    BY <1>0, <2>1 DEF ProviderInv
  <2>3. issued + 1 # old.rt
    BY <1>0, <2>1 DEF ProviderInv
  <2>4. live' \cap consumed' = {} /\ new'.rt \notin consumed'
    BY <1>0, <1>4, <2>1, <2>3 DEF ProviderGrant, ProviderInv
  <2> QED
    BY <2>2, <2>4 DEF ProviderInv
<1>5. CASE WatchdogPersist
  BY <1>5 DEF WatchdogPersist, ProviderInv, providerVars, flightVars
<1>6. ASSUME NEW l \in Logins, LoginPersist(l) PROVE ProviderInv'
  BY <1>6 DEF LoginPersist, ProviderInv, providerVars, flightVars
<1>7. ASSUME NEW l \in Logins, NEW hasRt \in BOOLEAN, LoginStore(l, hasRt) PROVE ProviderInv'
  <2>1. issued' = issued + 1 /\ live' \subseteq live \cup {issued + 1} /\ UNCHANGED <<consumed, flightVars>>
    BY <1>7 DEF LoginStore
  <2>2. live' \subseteq 1..issued' /\ consumed' \subseteq 1..issued'
    BY <1>0, <2>1 DEF ProviderInv
  <2> QED
    BY <1>0, <2>1, <2>2 DEF ProviderInv, flightVars
<1>8. ASSUME NEW n \in Ids, ProviderRevoke(n) PROVE ProviderInv'
  BY <1>8 DEF ProviderRevoke, ProviderInv, flightVars
<1> QED
  BY <1>1, <1>2, <1>3, <1>4, <1>5, <1>6, <1>7, <1>8, TokenCases, Zenon

\* Each step keeps the invariant.  Those that matter load, send, rotate, lose,
\* store or bring in a refresh token.
LEMMA RotationStep ==
  ASSUME IInv, ProviderInv, RotationInv, [Next]_vars
  PROVE  RotationInv'
<1> USE DEF RotationInv, NoTokenUsedTwice
<1>1. CASE TokensStill
  BY <1>1 DEF TokensStill, entryVars, providerVars, flightVars
<1>2. CASE FlightLoad
  BY <1>2 DEF FlightLoad, EndFlight, entryVars, providerVars
<1>3. CASE FlightSend
  BY <1>3 DEF FlightSend, entryVars
<1>4. CASE FlightFail
  <2>1. flight' = "none" /\ UNCHANGED <<current, consumed, reused>>
    BY <1>4 DEF FlightFail, EndFlight, entryVars
  <2>2. lost' = IF flight = "granted" THEN lost \cup {old.rt} ELSE lost
    BY <1>4 DEF FlightFail
  <2> QED
    BY <2>1, <2>2
<1>5. CASE FlightStore
  BY <1>5 DEF FlightStore, providerVars, ProviderInv
<1>6. CASE FlightPersist
  BY <1>6 DEF FlightPersist, providerVars
<1>7. ASSUME NEW rotates \in BOOLEAN, ProviderGrant(rotates) PROVE RotationInv'
  BY <1>7 DEF ProviderGrant, entryVars
<1>8. CASE WatchdogPersist
  BY <1>8 DEF WatchdogPersist, flightVars, providerVars
<1>9. ASSUME NEW l \in Logins, LoginPersist(l) PROVE RotationInv'
  BY <1>9 DEF LoginPersist, flightVars, providerVars
<1>10. ASSUME NEW l \in Logins, NEW hasRt \in BOOLEAN, LoginStore(l, hasRt) PROVE RotationInv'
  <2>1. issued \in Nat /\ current'.rt \in {0, issued + 1} /\ UNCHANGED <<consumed, flightVars, lost, reused>>
    BY <1>10 DEF LoginStore, IInv, TypeOK
  <2>2. current'.rt \notin consumed
    BY <2>1 DEF ProviderInv
  <2> QED
    BY <2>1, <2>2 DEF flightVars
<1>11. ASSUME NEW n \in Ids, ProviderRevoke(n) PROVE RotationInv'
  BY <1>11 DEF ProviderRevoke, entryVars, flightVars
<1> QED
  BY <1>1, <1>2, <1>3, <1>4, <1>5, <1>6, <1>7, <1>8, <1>9, <1>10, <1>11, TokenCases, Zenon

-----------------------------------------------------------------------------
(* Crashes. *)

\* A refresh token that was rotated away is current, or in the persist file,
\* only while the answer with its successor is about to replace it, if its
\* successor could not be saved, or if it was saved after it was replaced.
LossInv ==
  /\ current.rt \in consumed =>
       current.rt \in excused \cup staleSaved \/ (flight = "granted" /\ current.rt = old.rt)
  /\ disk.rt \in consumed =>
       disk.rt \in excused \cup staleSaved \/ (flight \in {"granted", "stored"} /\ disk.rt = old.rt)

\* A persist leaves the file alone, or writes the current entry, or what it
\* writes is recorded as stale.
LEMMA PersistCases ==
  ASSUME RecordSave, UNCHANGED <<current, flightVars, providerVars>>, LossInv,
         NEW e \in {wdEntry} \cup {loginEntry[l] : l \in Logins}, disk' \in {e, disk}
  PROVE  LossInv'
<1>1. excused \subseteq excused' /\ staleSaved \subseteq staleSaved'
  BY DEF RecordSave
<1>2. CASE disk' = disk \/ disk' = current
  BY <1>1, <1>2 DEF LossInv, flightVars, providerVars
<1>3. CASE disk' # disk /\ disk' # current
  <2>1. disk'.rt \in staleSaved'
    BY <1>3 DEF RecordSave, Saves
  <2> QED
    BY <1>1, <2>1 DEF LossInv, flightVars, providerVars
<1> QED
  BY <1>2, <1>3

\* A step of the manager keeps it.
LEMMA LossStep ==
  ASSUME IInv, ProviderInv, LossInv, [Next]_vars, RecordSave
  PROVE  LossInv'
<1>a. excused \subseteq excused' /\ staleSaved \subseteq staleSaved'
  BY DEF RecordSave
<1>1. CASE TokensStill
  BY <1>1, <1>a DEF TokensStill, LossInv, entryVars, providerVars, flightVars
<1>2. CASE FlightLoad \/ FlightSend
  BY <1>2, <1>a DEF FlightLoad, FlightSend, EndFlight, LossInv, entryVars, providerVars
<1>3. CASE FlightFail
  <2>1. flight' = "none" /\ UNCHANGED <<current, disk, consumed>>
    BY <1>3 DEF FlightFail, EndFlight, entryVars
  <2>2. flight = "granted" => old.rt \in excused'
    BY <2>1 DEF RecordSave
  <2>3. flight # "stored"
    BY <1>3 DEF FlightFail
  <2> QED
    BY <1>a, <2>1, <2>2, <2>3 DEF LossInv
<1>4. CASE FlightStore
  BY <1>4, <1>a DEF FlightStore, LossInv, ProviderInv, providerVars
<1>5. CASE FlightPersist
  <2>1. flight = "stored" /\ flight' = "persisted" /\ UNCHANGED <<current, consumed>> /\ disk' \in {new, disk}
    BY <1>5 DEF FlightPersist, providerVars
  <2>2. disk' = disk /\ disk # new => old.rt \in excused'
    BY <1>5 DEF RecordSave
  <2> QED
    BY <1>a, <2>1, <2>2 DEF LossInv, ProviderInv
<1>6. ASSUME NEW rotates \in BOOLEAN, ProviderGrant(rotates) PROVE LossInv'
  BY <1>6, <1>a DEF ProviderGrant, LossInv, entryVars
<1>7. CASE WatchdogPersist
  BY <1>7, PersistCases DEF WatchdogPersist
<1>8. ASSUME NEW l \in Logins, LoginPersist(l) PROVE LossInv'
  BY <1>8, PersistCases DEF LoginPersist
<1>9. ASSUME NEW l \in Logins, NEW hasRt \in BOOLEAN, LoginStore(l, hasRt) PROVE LossInv'
  <2>1. issued \in Nat /\ current'.rt \in {0, issued + 1} /\ UNCHANGED <<disk, consumed, flightVars>>
    BY <1>9 DEF LoginStore, IInv, TypeOK
  <2>2. current'.rt \notin consumed
    BY <2>1 DEF ProviderInv
  <2> QED
    BY <1>a, <2>1, <2>2 DEF LossInv, flightVars
<1>10. ASSUME NEW n \in Ids, ProviderRevoke(n) PROVE LossInv'
  BY <1>10, <1>a DEF ProviderRevoke, LossInv, entryVars, flightVars
<1> QED
  BY <1>1, <1>2, <1>3, <1>4, <1>5, <1>6, <1>7, <1>8, <1>9, <1>10, TokenCases, Zenon

\* So does a crash: what it cuts off is excused.
LEMMA LossRestart ==
  ASSUME LossInv, ProviderInv, Restart
  PROVE  /\ LossInv' /\ ProviderInv'
         /\ disk.rt \notin consumed \/ disk.rt \in excused' \cup staleSaved
<1>1. /\ UNCHANGED <<disk, issued, live, consumed, staleSaved>> /\ current' = disk /\ flight' = "none"
      /\ excused' = excused \cup IF flight \in {"granted", "stored"} THEN {old.rt} ELSE {}
  BY DEF Restart
<1>2. disk.rt \in consumed => disk.rt \in excused' \cup staleSaved
  BY <1>1 DEF LossInv
<1> QED
  BY <1>1, <1>2 DEF LossInv, ProviderInv

\* The manager built from the persist file has its types.
LEMMA RestartTypes ==
  ASSUME IInv, Restart
  PROVE  TypeOK' /\ FlightInv' /\ WdExclusive' /\ WatchdogAlive'
<1>1. disk \in Entry
  BY DEF IInv, TypeOK, Restart
<1>2. /\ current' \in Entry /\ disk' \in Entry \cup {NoEntry}
      /\ timer' \in {"nil", "armed", "spent"} /\ timerFor' \in 0..MaxToken /\ wg' \in Nat
  BY <1>1, Bounds DEF Restart, Num
<1>3. /\ flight' = "none" /\ old' = NoEntry /\ new' = NoEntry /\ retryCount' \in 0..RetryCap
      /\ wd' = "armed" /\ wdPc' = "idle" /\ wdEntry' = NoEntry /\ stopped' = FALSE
  BY Bounds DEF Restart
<1>4. /\ pc' \in [Procs -> {"idle", "fired", "refreshing", "failed", "done"}]
      /\ cbFor' \in [Callbacks -> 0..MaxToken]
      /\ stopPc' \in [Stoppers -> {"idle", "waiting", "waited", "skipped"}]
      /\ login' \in [Logins -> {"idle", "stored", "scheduled", "started"}]
      /\ loginEntry' \in [Logins -> Entry \cup {NoEntry}]
  BY Bounds DEF Restart
<1>5. /\ expired' \in SUBSET Ids /\ issued' \in 1..MaxToken /\ live' \in SUBSET Ids
      /\ consumed' \in SUBSET Ids /\ reused' \in SUBSET Ids
  BY DEF Restart, IInv, TypeOK
<1>6. lost' \in SUBSET Ids
  <2>1. flight = "granted" => old.rt \in Ids
    BY Bounds DEF IInv, FlightInv
  <2> QED
    BY <2>1 DEF Restart, IInv, TypeOK
<1>7. TypeOK'
  BY <1>2, <1>3, <1>4, <1>5, <1>6 DEF TypeOK
<1> QED
  BY <1>3, <1>7 DEF FlightInv, WdExclusive, WatchdogAlive

-----------------------------------------------------------------------------
(* Stop. *)

Waited == \E s \in Stoppers : stopPc[s] = "waited"

\* Once stopped nothing is armed again, and once a Stop has waited nothing
\* runs any more.
StopInv ==
  /\ (\E s \in Stoppers : stopPc[s] # "idle") => stopped
  /\ stopped => timer # "armed" /\ wd # "armed"
  /\ Waited => Busy = {} /\ wdPc = "idle"

\* A step of a stopped manager leaves it stopped and takes at most one task
\* away.
LEMMA StoppedStep ==
  ASSUME TypeOK, StopInv, stopped, [Next]_vars
  PROVE  stopped' /\ wg' \in {wg, wg - 1}
<1> USE DEF StopInv
<1>1. CASE Rearms
  BY <1>1 DEF Rearms, TimerKept, stopVars
<1>2. ASSUME NEW c \in Callbacks, TimerFire(c) \/ CallbackDone(c)
      PROVE  stopped' /\ wg' \in {wg, wg - 1}
  BY <1>2 DEF TimerFire, CallbackDone, stopVars
<1>3. CASE WatchdogFire \/ WatchdogLoad \/ WatchdogPersist
  BY <1>3 DEF WatchdogFire, WatchdogLoad, WatchdogPersist, timerVars, stopVars
<1>4. CASE WatchdogDone
  BY <1>4 DEF TypeOK, Num, WatchdogDone, stopVars
<1>5. ASSUME NEW l \in Logins, StartPersistWatchdog(l)
      PROVE  stopped' /\ wg' \in {wg, wg - 1}
  BY <1>5 DEF StartPersistWatchdog, stopVars
<1>6. ASSUME NEW s \in Stoppers, StopLocked(s) \/ StopWait(s)
      PROVE  stopped' /\ wg' \in {wg, wg - 1}
  BY <1>6 DEF StopLocked, StopWait, timerVars
<1> QED
  BY <1>1, <1>2, <1>3, <1>4, <1>5, <1>6, TimerCases, Zenon DEF WatchdogStep

\* Only StopWait makes a Stop call return, and it does so on an empty
\* WaitGroup.
LEMMA WaitedStep ==
  ASSUME TypeOK, [Next]_vars
  PROVE  /\ Waited => Waited'
         /\ Waited' /\ ~Waited => wg = 0 /\ wg' = 0
<1> DEFINE Goal == /\ Waited => Waited'
                   /\ Waited' /\ ~Waited => wg = 0 /\ wg' = 0
<1>1. CASE UNCHANGED stopPc
  BY <1>1 DEF Waited
<1>2. ASSUME NEW s \in Stoppers, StopLocked(s) PROVE Goal
  BY <1>2 DEF StopLocked, Waited, TypeOK
<1>3. ASSUME NEW s \in Stoppers, StopWait(s) PROVE Goal
  BY <1>3 DEF StopWait, Waited, TypeOK, timerVars
<1> QED
  BY <1>1, <1>2, <1>3, TimerCases DEF Rearms, TimerFire, CallbackDone, WatchdogFire, WatchdogStep,
     WatchdogLoad, WatchdogPersist, WatchdogDone, StartPersistWatchdog, stopVars

\* Only Stop sets m.stopped, and what it cancels is taken off the WaitGroup.
LEMMA BeginStep ==
  ASSUME TypeOK, [Next]_vars, ~stopped, stopped', wg' \in Nat
  PROVE  wg' \in 0..wg
<1>1. PICK s \in Stoppers : StopLocked(s)
  BY TimerCases DEF Rearms, TimerFire, CallbackDone, WatchdogFire, WatchdogStep, WatchdogLoad,
     WatchdogPersist, WatchdogDone, StartPersistWatchdog, StopWait, stopVars
<1>2. wg' <= wg
  BY <1>1 DEF StopLocked, Num, TypeOK
<1> QED
  BY <1>2 DEF TypeOK

\* What a step may do to stopped, to the Stops that have waited and to wg...
Drains ==
  \/ ~stopped /\ ~stopped'
  \/ ~stopped /\ stopped' /\ ~Waited' /\ wg' \in 0..wg
  \/ stopped /\ stopped' /\ (Waited <=> Waited') /\ wg' = wg
  \/ stopped /\ stopped' /\ ~Waited /\ ~Waited' /\ wg > 0 /\ wg' = wg - 1
  \/ stopped /\ stopped' /\ ~Waited /\ Waited' /\ wg = 0 /\ wg' = 0

DrainPhase == IF ~stopped THEN "running" ELSE IF Waited THEN "drained" ELSE "draining"

\* ... is what CallbackDrain allows.
LEMMA DrainStep ==
  ASSUME Outstanding = wg, Outstanding' = wg', wg \in Nat, wg' \in Nat, Drains
  PROVE  [Drain!Next]_<<DrainPhase, Outstanding>>
<1> USE DEF DrainPhase, Waited, Drain!Next, Drain!Work, Drain!BeginStop, Drain!Finish,
            Drain!Return
<1>1. CASE ~stopped /\ ~stopped'
  BY <1>1
<1>2. CASE ~stopped /\ stopped' /\ ~Waited' /\ wg' \in 0..wg
  BY <1>2
<1>3. CASE stopped /\ stopped' /\ (Waited <=> Waited') /\ wg' = wg
  BY <1>3
<1>4. CASE stopped /\ stopped' /\ ~Waited /\ ~Waited' /\ wg > 0 /\ wg' = wg - 1
  BY <1>4
<1>5. CASE stopped /\ stopped' /\ ~Waited /\ Waited' /\ wg = 0 /\ wg' = 0
  BY <1>5
<1> QED
  BY <1>1, <1>2, <1>3, <1>4, <1>5 DEF Drains

-----------------------------------------------------------------------------
(* The counts. *)

INSTANCE FiniteSetTheorems

\* The number of busy callbacks is a number; a callback that starts or ends
\* changes it by one.
LEMMA BusyChanges ==
  /\ IsFiniteSet(Busy) /\ Cardinality(Busy) \in Nat
  /\ \A c \in Callbacks :
       /\ c \notin Busy => Cardinality(Busy \cup {c}) = Cardinality(Busy) + 1
       /\ c \in Busy => Cardinality(Busy \ {c}) = Cardinality(Busy) - 1
<1>1. IsFiniteSet(Busy)
  BY FiniteProcesses, FS_Subset DEF Busy
<1> QED
  BY <1>1, FS_CardinalityType, FS_AddElement, FS_RemoveElement

\* A manager that has just been published satisfies the invariant.
LEMMA InitIInv == Init => IInv
<1> SUFFICES ASSUME Init PROVE IInv
  OBVIOUS
<1>1. TypeOK
  <2>1. current \in Entry /\ disk \in Entry /\ expired \in SUBSET Ids
    BY Bounds DEF Init
  <2>2. timerFor \in {0, 1} /\ wg \in {1, 2} /\ timer \in {"nil", "armed"}
    BY DEF Init, Num
  <2>3. live \in SUBSET Ids /\ issued \in Ids
    BY Bounds DEF Init
  <2>4. /\ pc \in [Procs -> {"idle", "fired", "refreshing", "failed", "done"}]
        /\ stopPc \in [Stoppers -> {"idle", "waiting", "waited", "skipped"}]
        /\ login \in [Logins -> {"idle", "stored", "scheduled", "started"}]
    BY DEF Init
  <2>5. /\ cbFor \in [Callbacks -> 0..MaxToken]
        /\ loginEntry \in [Logins -> Entry \cup {NoEntry}]
    BY Bounds DEF Init
  <2>6. /\ flight = "none" /\ old = NoEntry /\ new = NoEntry
        /\ wd = "armed" /\ wdPc = "idle" /\ wdEntry = NoEntry
        /\ retryCount = 0 /\ stopped \in BOOLEAN
        /\ consumed = {} /\ lost = {} /\ reused = {}
    BY DEF Init
  <2> QED
    BY Bounds, <2>1, <2>2, <2>3, <2>4, <2>5, <2>6 DEF TypeOK
<1>2. FlightInv /\ WdExclusive /\ WatchdogAlive
  BY DEF Init, FlightInv, WdExclusive, WatchdogAlive
<1>3. Busy = {}
  BY DEF Init, Busy
<1>4. WgAccounting
  BY <1>3, FS_EmptySet DEF Init, WgAccounting, Outstanding, Num
<1> QED
  BY <1>1, <1>2, <1>4 DEF IInv

\* The WaitGroup and the persist timer keep to their accounts.
LEMMA WgStep ==
  ASSUME TypeOK, WgAccounting, WdExclusive, WatchdogAlive, [Next]_vars
  PROVE  WgAccounting' /\ WdExclusive' /\ WatchdogAlive'
<1> DEFINE Goal == WgAccounting /\ WdExclusive /\ WatchdogAlive
<1>a. wg \in Nat /\ Cardinality(Busy) \in Nat
  BY BusyChanges DEF TypeOK
<1>b. ASSUME UNCHANGED procVars PROVE Busy' = Busy
  BY <1>b DEF procVars, Busy
<1> USE <1>a DEF WgAccounting, WdExclusive, WatchdogAlive, Outstanding, Num
<1>1. CASE Rearms
  BY <1>1 DEF Rearms, TimerKept, stopVars
<1>2. ASSUME NEW c \in Callbacks, TimerFire(c) PROVE Goal'
  <2>1. Busy' = Busy \cup {c} /\ c \notin Busy
    BY <1>2 DEF TimerFire, Busy, TypeOK
  <2>2. Cardinality(Busy') = Cardinality(Busy) + 1
    BY <2>1, BusyChanges
  <2> QED
    BY <1>2, <2>2 DEF TimerFire, wdVars, stopVars
<1>3. ASSUME NEW c \in Callbacks, CallbackDone(c) PROVE Goal'
  <2>1. Busy' = Busy \ {c} /\ c \in Busy
    BY <1>3 DEF CallbackDone, Busy, TypeOK
  <2>2. Cardinality(Busy') = Cardinality(Busy) - 1
    BY <2>1, BusyChanges
  <2> QED
    BY <1>3, <2>2 DEF CallbackDone, wdVars, stopVars
<1>4. CASE WatchdogFire
  BY <1>4, <1>b DEF WatchdogFire, timerVars, stopVars
<1>5. CASE WatchdogLoad \/ WatchdogPersist
  BY <1>5, <1>b DEF WatchdogLoad, WatchdogPersist, timerVars, stopVars
<1>6. CASE WatchdogDone
  BY <1>6, <1>b DEF WatchdogDone, stopVars
<1>7. ASSUME NEW l \in Logins, StartPersistWatchdog(l) PROVE Goal'
  BY <1>7, <1>b DEF StartPersistWatchdog, stopVars
<1>8. ASSUME NEW s \in Stoppers, StopLocked(s) PROVE Goal'
  BY <1>8, <1>b DEF StopLocked, timerVars
<1>9. ASSUME NEW s \in Stoppers, StopWait(s) PROVE Goal'
  BY <1>9, <1>b DEF StopWait, timerVars, wdVars
<1> QED
  BY <1>1, <1>2, <1>3, <1>4, <1>5, <1>6, <1>7, <1>8, <1>9, TimerCases DEF WatchdogStep

\* The invariant is inductive.
LEMMA IInvStep == IInv /\ [Next]_vars => IInv'
<1> SUFFICES ASSUME IInv, [Next]_vars PROVE IInv'
  OBVIOUS
<1>1. FlightInv'
  BY FlightInvStep DEF IInv
<1>2. WgAccounting' /\ WdExclusive' /\ WatchdogAlive'
  BY WgStep DEF IInv
<1>3. wg' \in Nat
  <2>1. IsFiniteSet(Busy') /\ Cardinality(Busy') \in Nat
    BY FiniteProcesses, FS_Subset, FS_CardinalityType DEF Busy
  <2> QED
    BY <1>2, <2>1 DEF WgAccounting, Outstanding, Num
<1>4. TypeOK'
  BY <1>3, TypeStep DEF IInv
<1> QED
  BY <1>1, <1>2, <1>4 DEF IInv

\* A manager built after a crash starts with its accounts in order.
LEMMA IInvRestart == IInv /\ Restart => IInv'
<1> SUFFICES ASSUME IInv, Restart PROVE IInv'
  OBVIOUS
<1>1. Cardinality(Busy') = 0
  <2>1. Busy' = {}
    BY DEF Restart, Busy
  <2> QED
    BY <2>1, FS_EmptySet
<1>2. WgAccounting'
  BY <1>1 DEF Restart, WgAccounting, Outstanding, Num
<1> QED
  BY <1>2, RestartTypes DEF IInv

\* An empty WaitGroup means that no callback is busy.
LEMMA NothingOutstanding ==
  ASSUME IInv, wg = 0
  PROVE  Busy = {} /\ wdPc = "idle"
<1>1. Cardinality(Busy) = 0 /\ wdPc = "idle"
  BY BusyChanges DEF IInv, WgAccounting, Outstanding, Num
<1> QED
  BY <1>1, BusyChanges, FS_EmptySet

\* Each step keeps StopInv: the guards on m.stopped keep timers from being
\* armed, and callbacks come from armed timers only.
LEMMA StopStep ==
  ASSUME IInv, StopInv, [Next]_vars
  PROVE  StopInv'
<1>a. TypeOK
  BY DEF IInv
<1>b. ASSUME UNCHANGED procVars PROVE Busy' = Busy
  BY <1>b DEF procVars, Busy
<1> USE DEF StopInv, Waited
<1>1. CASE Rearms
  BY <1>1 DEF Rearms, TimerKept, stopVars
<1>2. ASSUME NEW c \in Callbacks, TimerFire(c) PROVE StopInv'
  BY <1>2 DEF TimerFire, wdVars, stopVars
<1>3. ASSUME NEW c \in Callbacks, CallbackDone(c) PROVE StopInv'
  <2>1. Busy' \subseteq Busy
    BY <1>3, <1>a DEF CallbackDone, Busy, TypeOK
  <2> QED
    BY <1>3, <2>1 DEF CallbackDone, wdVars, stopVars
<1>4. CASE WatchdogFire
  BY <1>4 DEF WatchdogFire, timerVars, stopVars
<1>5. CASE WatchdogLoad \/ WatchdogPersist
  BY <1>5, <1>b DEF WatchdogLoad, WatchdogPersist, timerVars, stopVars
<1>6. CASE WatchdogDone
  BY <1>6, <1>b DEF WatchdogDone, stopVars
<1>7. ASSUME NEW l \in Logins, StartPersistWatchdog(l) PROVE StopInv'
  BY <1>7, <1>b DEF StartPersistWatchdog, stopVars
<1>8. ASSUME NEW s \in Stoppers, StopLocked(s) PROVE StopInv'
  <2>1. stopped' /\ timer' # "armed" /\ wd' # "armed" /\ wdPc' = wdPc
    BY <1>8 DEF StopLocked, timerVars
  <2>2. Waited' => Waited
    BY <1>8, <1>a DEF TypeOK, StopLocked
  <2> QED
    BY <1>8, <1>b, <2>1, <2>2 DEF StopLocked
<1>9. ASSUME NEW s \in Stoppers, StopWait(s) PROVE StopInv'
  <2>1. Busy = {} /\ wdPc = "idle"
    BY <1>9, NothingOutstanding DEF StopWait
  <2> QED
    BY <1>9, <1>b, <2>1 DEF StopWait, timerVars, wdVars
<1> QED
  BY <1>1, <1>2, <1>3, <1>4, <1>5, <1>6, <1>7, <1>8, <1>9, <1>a, TimerCases DEF WatchdogStep

-----------------------------------------------------------------------------
(* The theorems about one manager. *)

\* The invariant holds in every reachable state.
LEMMA AlwaysIInv == Spec => []IInv
  BY InitIInv, IInvStep, PTL DEF Spec

\* Every variable stays in its set.  In particular callbackWg never becomes
\* negative, which would panic the daemon.
THEOREM TypeCorrect == Spec => []TypeOK
  BY AlwaysIInv, PTL DEF IInv

\* callbackWg counts exactly the armed timers and the running callbacks,
\* however many callbacks, requests, logins and Stop calls overlap.
THEOREM WaitGroupExact == Spec => []WgAccounting
  BY AlwaysIInv, PTL DEF IInv

\* Until Stop, the persist watchdog is armed or running.
THEOREM WatchdogStaysAlive == Spec => []WatchdogAlive
  BY AlwaysIInv, PTL DEF IInv

\* "No token is ever used twice": a refresh token the provider has rotated
\* away is presented again only if the answer with its successor was lost.
THEOREM RotatedTokenNotReused == Spec => []NoTokenUsedTwice
<1>1. Init => ProviderInv /\ RotationInv
  BY DEF Init, ProviderInv, RotationInv, NoTokenUsedTwice
<1>2. IInv /\ ProviderInv /\ RotationInv /\ [Next]_vars => ProviderInv' /\ RotationInv'
  BY ProviderStepInv, RotationStep
<1>3. RotationInv => NoTokenUsedTwice
  BY DEF RotationInv
<1> QED
  BY <1>1, <1>2, <1>3, AlwaysIInv, PTL DEF Spec

\* Nothing is running or stopped when a manager is published, and no step
\* breaks StopInv.
LEMMA AlwaysStopInv == Spec => [](IInv /\ StopInv)
<1>1. Init => StopInv
  BY DEF Init, StopInv, Waited
<1>2. IInv /\ StopInv /\ [Next]_vars => StopInv'
  BY StopStep
<1> QED
  BY <1>1, <1>2, AlwaysIInv, PTL DEF Spec

\* When a Stop that waited has returned, no timer is armed and no callback
\* runs, then and for ever.
THEOREM StopLeavesNothing == Spec => []StopWaitsForCallbacks
<1>1. IInv /\ StopInv => StopWaitsForCallbacks
  BY FS_EmptySet
     DEF StopInv, Waited, StopWaitsForCallbacks, Outstanding, Num
<1> QED
  BY <1>1, AlwaysStopInv, PTL

\* TokenManager implements CallbackDrain: while it runs, callbacks come and
\* go; once Stop has begun they only end; Stop returns when none is left.
THEOREM StopDrains == Spec => DrainSpec
<1>1. Init => Drain!Init
  <2> SUFFICES ASSUME Init PROVE Drain!Init
    OBVIOUS
  <2>1. Outstanding = wg /\ wg \in Nat
    BY InitIInv DEF IInv, WgAccounting, TypeOK
  <2> QED
    BY <2>1 DEF Drain!Init, Init
<1>2. IInv /\ StopInv /\ IInv' /\ StopInv' /\ [Next]_vars
        => [Drain!Next]_<<DrainPhase, Outstanding>>
  <2> SUFFICES ASSUME IInv, StopInv, IInv', StopInv', [Next]_vars
               PROVE  [Drain!Next]_<<DrainPhase, Outstanding>>
    OBVIOUS
  <2>1. /\ Outstanding = wg /\ Outstanding' = wg'
        /\ wg \in Nat /\ wg' \in Nat
    BY DEF IInv, WgAccounting, TypeOK
  <2> SUFFICES Drains
    BY <2>1, DrainStep
  <2> USE DEF Drains
  <2>2. CASE ~stopped /\ stopped'
    <3>1. wg' \in 0..wg
      BY <2>1, <2>2, BeginStep DEF IInv
    <3>2. ~Waited'
      <4>1. ~Waited
        BY <2>2 DEF StopInv, Waited
      <4>2. wg # 0
        BY <2>2, BusyChanges
           DEF IInv, WatchdogAlive, WgAccounting, Outstanding, Num
      <4> QED
        BY <2>1, <4>1, <4>2, WaitedStep DEF IInv
    <3> QED
      BY <2>2, <3>1, <3>2
  <2>3. CASE stopped
    <3>1. stopped' /\ wg' \in {wg, wg - 1}
      BY <2>1, <2>3, StoppedStep DEF IInv
    <3>2. (Waited => Waited') /\ (Waited' /\ ~Waited => wg = 0 /\ wg' = 0)
      BY WaitedStep DEF IInv
    <3>3. Waited => Busy = {} /\ wdPc = "idle"
      BY Zenon DEF StopInv
    <3>4. Waited => wg = 0
      <4>1. Cardinality({}) = 0
        BY FS_EmptySet
      <4>2. timer # "armed" /\ wd # "armed"
        BY <2>3 DEF StopInv
      <4> QED
        BY <2>1, <3>3, <4>1, <4>2 DEF Outstanding, Num
    <3> QED
      BY <2>1, <2>3, <3>1, <3>2, <3>4
  <2> QED
    BY <2>1, <2>2, <2>3
<1> QED
  BY <1>1, <1>2, AlwaysStopInv, PTL DEF Spec, DrainSpec, Drain!Spec, DrainPhase, Waited

-----------------------------------------------------------------------------
(* The theorems about a manager over the crashes of its daemon. *)

RestartInv == IInv /\ ProviderInv /\ LossInv

\* A crash and the manager that is built after it keep the invariant too.
LEMMA AlwaysRestartInv == RestartSpec => []RestartInv
<1>1. RestartInit => RestartInv
  BY InitIInv DEF RestartInit, RestartInv, Init, ProviderInv, LossInv
<1>2. RestartInv /\ ManagerStep => RestartInv'
  BY IInvStep, ProviderStepInv, LossStep DEF RestartInv, ManagerStep
<1>3. RestartInv /\ Restart => RestartInv'
  BY IInvRestart, LossRestart DEF RestartInv
<1>4. RestartInv /\ UNCHANGED <<vars, restartVars>> => RestartInv'
  <2> SUFFICES ASSUME RestartInv, UNCHANGED <<vars, restartVars>> PROVE RestartInv'
    OBVIOUS
  <2>1. IInv'
    BY IInvStep DEF RestartInv
  <2>2. ProviderInv' /\ LossInv'
    BY DEF RestartInv, ProviderInv, LossInv, vars, restartVars, entryVars, flightVars, providerVars
  <2> QED
    BY <2>1, <2>2 DEF RestartInv
<1> QED
  BY <1>1, <1>2, <1>3, <1>4, PTL DEF RestartSpec, RestartNext

\* The account of the WaitGroup is right in every daemon, however often it
\* crashes and wherever.
THEOREM RestartKeepsAccounts == RestartSpec => []WgAccounting
  BY AlwaysRestartInv, PTL DEF RestartInv, IInv

\* So is the watchdog of every daemon alive.
THEOREM RestartKeepsWatchdog == RestartSpec => []WatchdogAlive
  BY AlwaysRestartInv, PTL DEF RestartInv, IInv

\* A restarted daemon comes back with a refresh token that the provider has
\* rotated away only if its successor was lost, could not be saved or was cut
\* off by the crash, or if a concurrent persist put the old one back.
THEOREM LossesExplained == RestartSpec => RestartLossesExplained
<1>1. RestartInv /\ [RestartNext]_<<vars, restartVars>>
        => [Restart => disk.rt \notin consumed \/ disk.rt \in excused' \cup staleSaved
           ]_<<vars, restartVars>>
  BY LossRestart DEF RestartInv
<1> QED
  BY <1>1, AlwaysRestartInv, PTL DEF RestartSpec, RestartLossesExplained

=============================================================================

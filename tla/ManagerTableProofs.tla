------------------------- MODULE ManagerTableProofs -------------------------
(***************************************************************************)
(* Theorems about ManagerTable for any number of keys, goroutines,         *)
(* managers and tokens and any cap.  The inductive invariant comes first,  *)
(* then what the steps do to each conjunct of it; the count of the table,  *)
(* which needs the cardinality of finite sets, and the theorems are last.  *)
(*                                                                         *)
(* StepCases sorts the steps by what the invariant can see of them: most   *)
(* only move handlers that neither hold managerMu nor an unpublished       *)
(* manager.  The other lemmas go through its cases, conjunct by conjunct.  *)
(***************************************************************************)
EXTENDS ManagerTable, TLAPS

Evicting   == {"evictSave", "evictStop", "evictWait", "evictDrop"}
Publishing == {"lock"} \cup Critical
Building   == Publishing \cup {"stopOwn", "ownWait"}
Occupied   == {k \in Keys : table[k] # None}

\* A handler at work serves a key, and a manager that runs is for one.
Serving ==
  /\ \A h \in Handlers : hpc[h] # "idle" => Key(h) \in Keys
  /\ \A m \in Managers : mgr[m].run => mgr[m].key \in Keys

\* The victim is in the table until it is dropped, and has been stopped by then;
\* a publisher that holds managerMu has room, or finds its key there already.
Evictions ==
  \A h \in Handlers :
    /\ hpc[h] \in Evicting => victim \in Keys /\ table[victim] # None
    /\ hpc[h] \in {"evictWait", "evictDrop"} => ~mgr[table[victim]].run
    /\ hpc[h] = "publish" => count < Cap \/ table[Key(h)] # None

\* A manager that was built and not yet published belongs to one handler, and
\* neither the table nor Shutdown knows it.
Owning ==
  \A h \in Handlers :
    /\ hpc[h] \in Building <=> own[h] # None
    /\ own[h] # None => ~InTable(own[h]) /\ own[h] \notin targets
    /\ own[h] # None => \A g \in Handlers : own[g] = own[h] => g = h

\* Until its handler gives it up it runs, under the handler's key.
OwnRuns ==
  \A h \in Handlers :
    /\ hpc[h] \in Publishing => mgr[own[h]].run
    /\ own[h] # None /\ mgr[own[h]].run => mgr[own[h]].key = Key(h)

\* A manager that Shutdown has to stop and has not stopped is still ahead of it.
Ahead ==
  \A m \in targets : mgr[m].run => mgr[m].key \in ahead /\ table[mgr[m].key] = m

\* A stopped manager has a callback only while some Stop waits for it.
Draining ==
  \A m \in Managers :
    (InTable(m) \/ m \in targets) /\ ~mgr[m].run /\ flight[m].callback
      => \/ current = m
         \/ \E h \in Handlers : At(h, "evictWait") /\ table[victim] = m

Table  == LockDiscipline /\ CountExact /\ Evictions
Owners == Owning /\ OwnRuns /\ NoOrphan
Exits  == Ahead /\ Draining /\ StoppedAtExit

IInv == TypeOK /\ Serving /\ Table /\ Owners /\ Exits

MgrType    == [key : Keys \cup {None}, rt : 0..MaxToken, run : BOOLEAN]
FlightType == [pc : {"none", "exchange", "save"}, rt : 0..MaxToken, callback : BOOLEAN]

-----------------------------------------------------------------------------
(* The cases of a step.                                                    *)

Still(h) == hpc'[h] = hpc[h] /\ req'[h] = req[h] /\ own'[h] = own[h]

\* Handlers without managerMu and without a manager of their own go on, flights
\* land, and stopped managers that nobody refers to are collected.
Aside ==
  /\ UNCHANGED <<tableVars, victim, downVars>>
  /\ \A h \in Handlers :
       \/ Still(h)
       \/ /\ hpc[h] \notin Building /\ hpc'[h] \notin Building /\ own'[h] = own[h]
          /\ hpc'[h] # "idle" => req'[h].key \in Keys
  /\ \A m \in Managers :
       /\ mgr'[m].run = mgr[m].run /\ (mgr[m].run => mgr'[m].key = mgr[m].key)
       /\ flight'[m].callback => flight[m].callback

\* h builds the manager m and is about to publish it.
Builds(h, m) ==
  /\ hpc[h] \notin Building /\ hpc'[h] = "lock" /\ own'[h] = m /\ req'[h].key \in Keys
  /\ Garbage(m) /\ mgr'[m].run /\ mgr'[m].key = req'[h].key
  /\ \A g \in Handlers \ {h} : Still(g)
  /\ \A x \in Managers \ {m} : mgr'[x] = mgr[x]
  /\ UNCHANGED <<tableVars, flight, victim, downVars>>

\* h works on the table or on its own manager.
Publishes(h) ==
  /\ \/ Lock(h) \/ LockAndEvict(h) \/ EvictSave(h) \/ EvictStop(h) \/ EvictDelete(h)
     \/ Publish(h) \/ StopOwn(h) \/ OwnStopped(h)
  /\ UNCHANGED downVars

Calls(m) == Callback(m) /\ UNCHANGED downVars

\* What the proofs use of the types.
LEMMA Shapes ==
  ASSUME TypeOK
  PROVE  /\ table \in [Keys -> Managers \cup {None}]
         /\ mgr \in [Managers -> MgrType] /\ flight \in [Managers -> FlightType]
         /\ DOMAIN hpc = Handlers /\ DOMAIN req = Handlers
         /\ own \in [Handlers -> Managers \cup {None}]
  BY DEF TypeOK, MgrType, FlightType

\* A handler that answers has no manager of its own.
LEMMA FinishAside ==
  ASSUME IInv, NEW h \in Handlers, hpc[h] \notin Building, Finish(h),
         UNCHANGED <<tableVars, flight, victim, downVars>>
  PROVE  Aside
<1> USE SMTT(20)
<1>1. mgr \in [Managers -> MgrType]
  BY Shapes DEF IInv
<1>2. \A m \in Managers : mgr'[m].run = mgr[m].run /\ (mgr[m].run => mgr'[m].key = mgr[m].key)
  BY <1>1, ZenonT(30) DEF Finish, Release, Unborn, MgrType
<1>3. \A g \in Handlers : own'[g] = own[g]
  BY Shapes DEF Finish, IInv, Owners, Owning
<1>4. "idle" \notin Building
  BY DEF Building, Publishing, Critical
<1>5. \A g \in Handlers : g # h => Still(g)
  BY <1>3, Shapes DEF Finish, Still, IInv
<1>6. hpc'[h] = "idle"
  BY Shapes DEF Finish, IInv
<1> QED
  BY <1>2, <1>3, <1>4, <1>5, <1>6 DEF Aside

\* A flight that lands wakes the handlers that wait for it.
LEMMA LandAside ==
  ASSUME IInv, NEW m \in Managers, Land(m), UNCHANGED <<tableVars, mgr, victim, downVars>>
  PROVE  Aside
<1> USE SMTT(20)
<1>1. \A x \in Managers : flight'[x].callback => flight[x].callback
  BY Shapes DEF Land, NoFlight, IInv
<1>2. {"wait", "answer"} \cap Building = {}
  BY DEF Building, Publishing, Critical
<1>3. \A h \in Handlers : hpc[h] = "wait" => req[h].key \in Keys
  BY DEF IInv, Serving, Key
<1>4. \A h \in Handlers : Still(h) \/ (hpc[h] = "wait" /\ hpc'[h] = "answer" /\ own'[h] = own[h] /\ req' = req)
  BY DEF Land, Still, At
<1> QED
  BY <1>1, <1>2, <1>3, <1>4 DEF Aside

\* A handler that builds a manager takes an object that nobody refers to.
LEMMA NewBuilds ==
  ASSUME IInv, NEW h \in Handlers, NEW k \in Keys, NEW rt, hpc[h] \notin Building,
         NewManager(h, k, rt), Goto(h, "lock"), req'[h].key = k,
         \A g \in Handlers \ {h} : req'[g] = req[g],
         UNCHANGED <<tableVars, flight, victim, downVars>>
  PROVE  \E m \in Managers : Builds(h, m)
<1> USE SMTT(20)
<1>1. PICK m \in Managers :
        /\ Garbage(m)
        /\ mgr' = [mgr EXCEPT ![m] = [key |-> k, rt |-> rt, run |-> TRUE]]
        /\ own' = [own EXCEPT ![h] = m]
  BY ZenonT(30) DEF NewManager
<1>2. hpc'[h] = "lock" /\ own'[h] = m /\ mgr'[m].run /\ mgr'[m].key = k
  BY <1>1, Shapes DEF Goto, IInv
<1>3. \A g \in Handlers \ {h} : Still(g)
  BY <1>1, Shapes DEF Goto, Still, IInv
<1>4. \A x \in Managers \ {m} : mgr'[x] = mgr[x]
  BY <1>1, Shapes DEF IInv
<1> QED
  BY <1>1, <1>2, <1>3, <1>4 DEF Builds

\* h moves between two positions outside Building.
LEMMA MoveAside ==
  ASSUME IInv, NEW h \in Handlers, NEW l, hpc[h] \notin Building, l \notin Building,
         Goto(h, l), req'[h].key \in Keys, \A g \in Handlers \ {h} : req'[g] = req[g],
         \A m \in Managers : mgr'[m].run = mgr[m].run /\ mgr'[m].key = mgr[m].key,
         \A m \in Managers : flight'[m].callback = flight[m].callback,
         UNCHANGED <<tableVars, own, victim, downVars>>
  PROVE  Aside
<1> USE SMTT(20)
<1>1. hpc'[h] = l /\ \A g \in Handlers \ {h} : Still(g)
  BY Shapes DEF Goto, Still, IInv
<1> QED
  BY <1>1 DEF Aside

\* Every step is one of the cases.
LEMMA StepCases ==
  ASSUME IInv, [Next]_vars
  PROVE  \/ Aside
         \/ \E h \in Handlers, m \in Managers : Builds(h, m)
         \/ \E h \in Handlers : Publishes(h)
         \/ \E m \in Managers : Calls(m)
         \/ GoDown
<1> USE SMTT(20)
<1>a. \A h \in Handlers : hpc[h] # "idle" => req[h].key \in Keys
  BY DEF IInv, Serving, Key
<1>b. /\ {"idle", "load", "use", "slot", "wait", "answer", "set", "save"} \cap Building = {}
      /\ "lock" \in Building
  BY DEF Building, Publishing, Critical
<1>c. UNCHANGED evictVars => UNCHANGED victim
  BY DEF evictVars
<1>1. ASSUME NEW h \in Handlers, NEW k \in Keys, Request(h, k) \/ Wake(h, k), UNCHANGED downVars
      PROVE  Aside
  <2>1. PICK l \in {"use", "load", "slot"} : Goto(h, l)
    BY <1>1 DEF Request, Wake
  <2>2. req'[h].key \in Keys /\ \A g \in Handlers \ {h} : req'[g] = req[g]
    BY <1>1, Shapes DEF Request, Wake, IInv
  <2> QED
    BY <1>1, <1>b, <1>c, <2>1, <2>2, MoveAside DEF Request, Wake, At
<1>2. ASSUME NEW h \in Handlers, NEW k \in Keys, StoreToken(h, k), UNCHANGED downVars
      PROVE  \E m \in Managers : Builds(h, m)
  <2>1. req'[h].key = k /\ \A g \in Handlers \ {h} : req'[g] = req[g]
    BY <1>2, Shapes DEF StoreToken, IInv
  <2> QED
    BY <1>2, <1>b, <1>c, <2>1, NewBuilds DEF StoreToken, At
<1>3. ASSUME NEW h \in Handlers, Load(h), UNCHANGED downVars
      PROVE  \E m \in Managers : Builds(h, m)
  <2>1. Key(h) \in Keys /\ req'[h].key = Key(h)
    BY <1>3, <1>a DEF Load, At, Key
  <2> QED
    BY <1>3, <1>b, <1>c, <2>1, NewBuilds DEF Load, At
<1>4. ASSUME NEW h \in Handlers, LoadNothing(h) \/ SaveStored(h) \/ AnswerRequest(h), UNCHANGED downVars
      PROVE  Aside
  BY <1>4, <1>b, <1>c, FinishAside DEF LoadNothing, SaveStored, AnswerRequest, At
<1>5. ASSUME NEW h \in Handlers, WakeGivesUp(h)
      PROVE  Aside
  BY <1>5, <1>b, <1>c, FinishAside DEF WakeGivesUp, At
<1>6. ASSUME NEW h \in Handlers, SetToken(h), UNCHANGED downVars
      PROVE  Aside
  <2>1. \A m \in Managers : mgr'[m].run = mgr[m].run /\ mgr'[m].key = mgr[m].key
    BY <1>6, Shapes DEF SetToken, IInv, MgrType
  <2> QED
    BY <1>6, <1>a, <1>b, <1>c, <2>1, MoveAside DEF SetToken, At
<1>7. ASSUME NEW h \in Handlers, Refresh(h), UNCHANGED downVars
      PROVE  Aside
  <2>1. \A m \in Managers : flight'[m].callback = flight[m].callback
    BY <1>7, Shapes DEF Refresh, IInv, FlightType
  <2> QED
    BY <1>7, <1>a, <1>b, <1>c, <2>1, MoveAside DEF Refresh, At
<1>8. ASSUME NEW m \in Managers, FlightStore(m), UNCHANGED downVars
      PROVE  Aside
  <2>1. \A x \in Managers : mgr'[x].run = mgr[x].run /\ mgr'[x].key = mgr[x].key
    BY <1>8, Shapes DEF FlightStore, IInv, MgrType
  <2>2. \A x \in Managers : flight'[x].callback = flight[x].callback
    BY <1>8, Shapes DEF FlightStore, IInv, FlightType
  <2> QED
    BY <1>8, <1>c, <2>1, <2>2, ZenonT(30) DEF FlightStore, Aside, Still, handlerVars
<1>9. ASSUME NEW m \in Managers, FlightSave(m) \/ FlightFail(m), UNCHANGED downVars
      PROVE  Aside
  BY <1>9, <1>c, LandAside DEF FlightSave, FlightFail
<1>10. CASE UNCHANGED vars
  BY <1>10, <1>c DEF vars, Aside, Still, handlerVars
<1> QED
  BY <1>1, <1>2, <1>3, <1>4, <1>5, <1>6, <1>7, <1>8, <1>9, <1>10, ZenonT(60)
     DEF Next, Live, Exited, Arrive, Run, Fly, Publishes, Calls

-----------------------------------------------------------------------------
(* Each conjunct is kept.                                                  *)

\* A handler that works on the table serves its request on, leaves the other
\* handlers alone and starts no manager.
LEMMA PublishesStops ==
  ASSUME IInv, NEW h \in Handlers, Publishes(h)
  PROVE  /\ req' = req /\ hpc[h] # "idle"
         /\ \A g \in Handlers \ {h} : hpc'[g] = hpc[g] /\ own'[g] = own[g]
         /\ \A m \in Managers : mgr'[m].run => mgr[m].run /\ mgr'[m].key = mgr[m].key
<1> USE SMTT(20)
<1>1. req' = req /\ hpc[h] # "idle"
  BY DEF Publishes, Lock, LockAndEvict, EvictSave, EvictStop, EvictDelete, Publish, StopOwn, OwnStopped, At
<1>2. \A g \in Handlers \ {h} : hpc'[g] = hpc[g] /\ own'[g] = own[g]
  BY Shapes DEF IInv, Publishes, Lock, LockAndEvict, EvictSave, EvictStop, EvictDelete, Publish,
                StopOwn, OwnStopped, Goto
<1>3. \/ mgr' = mgr
      \/ \E x \in {own[h], table[victim]} : \/ mgr' = [mgr EXCEPT ![x].run = FALSE]
                                            \/ mgr' = [mgr EXCEPT ![x] = Unborn]
  BY DEF Publishes, Lock, LockAndEvict, EvictSave, EvictStop, EvictDelete, Publish, StopOwn,
         OwnStopped, Release
<1>4. \A m \in Managers : mgr'[m].run => mgr[m].run /\ mgr'[m].key = mgr[m].key
  <2>1. mgr \in [Managers -> MgrType]
    BY Shapes DEF IInv
  <2>2. ASSUME NEW x, mgr' = [mgr EXCEPT ![x].run = FALSE], NEW m \in Managers
        PROVE  mgr'[m].run => mgr[m].run /\ mgr'[m].key = mgr[m].key
    BY <2>1, <2>2 DEF MgrType
  <2>3. ASSUME NEW x, mgr' = [mgr EXCEPT ![x] = Unborn], NEW m \in Managers
        PROVE  mgr'[m].run => mgr[m].run /\ mgr'[m].key = mgr[m].key
    BY <2>1, <2>3 DEF Unborn
  <2> QED
    BY <1>3, <2>2, <2>3
<1> QED
  BY <1>1, <1>2, <1>4

\* Shutdown starts no manager either, and leaves the handlers alone.
LEMMA GoDownStops ==
  ASSUME IInv, GoDown
  PROVE  /\ UNCHANGED <<tableVars, flight, victim, hpc, req, own>>
         /\ \A m \in Managers : mgr'[m].run => mgr[m].run
         /\ \A m \in Managers : mgr'[m].key = mgr[m].key
<1> USE SMTT(20)
<1>1. UNCHANGED <<tableVars, flight, victim, hpc, req, own>>
  BY ZenonT(30) DEF GoDown, Shutdown, Stopped, Exit, StopNext, PassOver, evictVars, handlerVars
<1>2. mgr' = mgr \/ \E k \in Keys : mgr' = [mgr EXCEPT ![table[k]].run = FALSE]
  BY DEF GoDown, Shutdown, Stopped, Exit, StopNext, PassOver
<1>3. \A m \in Managers : mgr'[m].key = mgr[m].key /\ (mgr'[m].run => mgr[m].run)
  <2>1. mgr \in [Managers -> MgrType]
    BY Shapes DEF IInv
  <2>2. ASSUME NEW x, mgr' = [mgr EXCEPT ![x].run = FALSE], NEW m \in Managers
        PROVE  mgr'[m].key = mgr[m].key /\ (mgr'[m].run => mgr[m].run)
    BY <2>1, <2>2 DEF MgrType
  <2> QED
    BY <1>2, <2>2, ZenonT(30)
<1> QED
  BY <1>1, <1>3

\* Every step leaves the handlers and the running managers with a key.
LEMMA ServingStep ==
  ASSUME IInv, [Next]_vars
  PROVE  Serving'
<1> USE SMTT(20)
<1>a. /\ \A h \in Handlers : hpc[h] # "idle" => req[h].key \in Keys
      /\ \A m \in Managers : mgr[m].run => mgr[m].key \in Keys
  BY DEF IInv, Serving, Key
<1>1. CASE Aside
  BY <1>1, <1>a DEF Aside, Still, Serving, Key
<1>2. ASSUME NEW h \in Handlers, NEW m \in Managers, Builds(h, m) PROVE Serving'
  BY <1>2, <1>a DEF Builds, Still, Serving, Key
<1>3. ASSUME NEW h \in Handlers, Publishes(h) PROVE Serving'
  BY <1>3, <1>a, PublishesStops DEF Serving, Key
<1>4. ASSUME NEW m \in Managers, Calls(m) PROVE Serving'
  BY <1>4, <1>a DEF Calls, Callback, handlerVars, Serving, Key
<1>5. CASE GoDown
  BY <1>5, <1>a, GoDownStops DEF Serving, Key
<1> QED
  BY <1>1, <1>2, <1>3, <1>4, <1>5, StepCases

\* Every step hands managerMu over with its critical section.
LEMMA LockStep ==
  ASSUME IInv, [Next]_vars
  PROVE  LockDiscipline'
<1> USE SMTT(20)
<1>a. \A h \in Handlers : mu = h <=> hpc[h] \in Critical
  BY DEF IInv, Table, LockDiscipline
<1>b. None \notin Handlers /\ Critical \subseteq Building /\ "lock" \notin Critical
  BY CapAssumption DEF Building, Publishing, Critical
<1>1. CASE Aside
  BY <1>1, <1>a, <1>b DEF Aside, Still, tableVars, LockDiscipline
<1>2. ASSUME NEW h \in Handlers, NEW m \in Managers, Builds(h, m) PROVE LockDiscipline'
  BY <1>2, <1>a, <1>b DEF Builds, Still, tableVars, LockDiscipline
<1>3. ASSUME NEW h \in Handlers, Publishes(h) PROVE LockDiscipline'
  <2>a. DOMAIN hpc = Handlers /\ \A g \in Handlers \ {h} : hpc'[g] = hpc[g]
    BY <1>3, Shapes, PublishesStops DEF IInv
  <2>1. CASE Lock(h) \/ LockAndEvict(h)
    <3>1. mu = None /\ mu' = h /\ hpc'[h] \in Critical
      BY <2>1, <2>a DEF Lock, LockAndEvict, Goto, Critical
    <3> QED
      BY <3>1, <2>a, <1>a, <1>b DEF LockDiscipline
  <2>2. CASE EvictSave(h) \/ EvictStop(h) \/ EvictDelete(h)
    <3>1. mu' = mu /\ hpc[h] \in Critical /\ hpc'[h] \in Critical
      BY <2>2, <2>a DEF EvictSave, EvictStop, EvictDelete, tableVars, At, Goto, Critical
    <3> QED
      BY <3>1, <2>a, <1>a DEF LockDiscipline
  <2>3. CASE Publish(h)
    <3>1. mu' = None /\ hpc[h] \in Critical /\ hpc'[h] \notin Critical
      BY <2>3, <2>a DEF Publish, At, Goto, Critical
    <3> QED
      BY <3>1, <2>a, <1>a, <1>b DEF LockDiscipline
  <2>4. CASE StopOwn(h) \/ OwnStopped(h)
    <3>1. mu' = mu /\ hpc[h] \notin Critical /\ hpc'[h] \notin Critical
      BY <2>4, <2>a DEF StopOwn, OwnStopped, tableVars, At, Goto, Critical
    <3> QED
      BY <3>1, <2>a, <1>a DEF LockDiscipline
  <2> QED
    BY <1>3, <2>1, <2>2, <2>3, <2>4 DEF Publishes
<1>4. ASSUME NEW m \in Managers, Calls(m) PROVE LockDiscipline'
  BY <1>4, <1>a DEF Calls, Callback, handlerVars, tableVars, LockDiscipline
<1>5. CASE GoDown
  BY <1>5, <1>a, GoDownStops DEF tableVars, LockDiscipline
<1> QED
  BY <1>1, <1>2, <1>3, <1>4, <1>5, StepCases

\* Every step keeps what an eviction and a publisher rely on.
LEMMA EvictionsStep ==
  ASSUME IInv, [Next]_vars
  PROVE  Evictions'
<1> USE SMTT(20)
<1>a. Evictions /\ LockDiscipline /\ TypeOK
  BY DEF IInv, Table
<1>b. /\ Evicting \subseteq Building /\ "publish" \in Building
      /\ {"evictWait", "evictDrop"} \subseteq Evicting
      /\ "lock" \notin Evicting \cup {"evictWait", "evictDrop", "publish"}
  BY DEF Building, Publishing, Critical, Evicting
<1>c. \A k \in Keys : table[k] # None => table[k] \in Managers
  BY <1>a, Shapes
<1>1. CASE Aside
  <2> SUFFICES ASSUME NEW g \in Handlers, hpc'[g] \in Building
               PROVE  /\ hpc'[g] \in Evicting => victim' \in Keys /\ table'[victim'] # None
                      /\ hpc'[g] \in {"evictWait", "evictDrop"} => ~mgr'[table'[victim']].run
                      /\ hpc'[g] = "publish" => count' < Cap \/ table'[Key(g)'] # None
    BY <1>b DEF Evictions
  <2>1. hpc'[g] = hpc[g] /\ Key(g)' = Key(g) /\ table' = table /\ count' = count /\ victim' = victim
    BY <1>1 DEF Aside, Still, Key, tableVars
  <2>2. \A m \in Managers : mgr'[m].run = mgr[m].run
    BY <1>1 DEF Aside
  <2> QED
    BY <2>1, <2>2, <1>a, <1>b, <1>c DEF Evictions
<1>2. ASSUME NEW h \in Handlers, NEW m \in Managers, Builds(h, m) PROVE Evictions'
  <2>1. \A k \in Keys : table[k] # None => mgr'[table[k]] = mgr[table[k]]
    BY <1>2, <1>c DEF Builds, Garbage, InTable
  <2>2. table' = table /\ count' = count /\ victim' = victim /\ hpc'[h] = "lock"
    BY <1>2 DEF Builds, tableVars
  <2>3. \A g \in Handlers \ {h} : hpc'[g] = hpc[g] /\ Key(g)' = Key(g)
    BY <1>2 DEF Builds, Still, Key
  <2> QED
    BY <2>1, <2>2, <2>3, <1>a, <1>b DEF Evictions
<1>3. ASSUME NEW h \in Handlers, Publishes(h) PROVE Evictions'
  <2>a. /\ DOMAIN hpc = Handlers
        /\ \A g \in Handlers \ {h} : hpc'[g] = hpc[g]
        /\ \A g \in Handlers : Key(g)' = Key(g)
        /\ \A m \in Managers : mgr'[m].run => mgr[m].run
    BY <1>3, <1>a, Shapes, PublishesStops DEF Key
  <2>b. ASSUME \A g \in Handlers \ {h} : hpc[g] \notin Critical,
               hpc'[h] \in Evicting => victim' \in Keys /\ table'[victim'] # None,
               hpc'[h] \in {"evictWait", "evictDrop"} => ~mgr'[table'[victim']].run,
               hpc'[h] = "publish" => count' < Cap \/ table'[Key(h)] # None
        PROVE  Evictions'
    <3>1. Evicting \subseteq Critical /\ "publish" \in Critical
      BY DEF Evicting, Critical
    <3> QED
      BY <2>a, <2>b, <3>1, <1>b DEF Evictions
  <2>c. ASSUME mu = None \/ hpc[h] \in Critical
        PROVE  \A g \in Handlers \ {h} : hpc[g] \notin Critical
    BY <2>c, <1>a, CapAssumption DEF LockDiscipline
  <2>1. CASE Lock(h)
    <3>1. hpc'[h] = "publish" /\ count' = count /\ table' = table /\ mu = None /\ ~Full(h)
      BY <2>1, <2>a DEF Lock, Goto
    <3>2. count < Cap \/ table[Key(h)] # None
      BY <3>1, <1>a, CapAssumption DEF Full, TypeOK
    <3> QED
      BY <3>1, <3>2, <2>b, <2>c DEF Evicting
  <2>2. CASE LockAndEvict(h)
    <3>1. hpc'[h] = "evictSave" /\ mu = None /\ victim' \in Keys /\ table'[victim'] # None
      BY <2>2, <2>a DEF LockAndEvict, Goto
    <3> QED
      BY <3>1, <2>b, <2>c
  <2>3. CASE EvictSave(h)
    <3>1. hpc[h] = "evictSave" /\ hpc'[h] = "evictStop" /\ table' = table /\ victim' = victim
      BY <2>3, <2>a DEF EvictSave, At, Goto, tableVars, evictVars
    <3> QED
      BY <3>1, <2>b, <2>c, <1>a DEF Evictions, Evicting, Critical
  <2>4. CASE EvictStop(h)
    <3>1. /\ hpc[h] = "evictStop" /\ hpc'[h] \in {"evictWait", "evictDrop"}
          /\ table' = table /\ victim' = victim /\ mgr' = [mgr EXCEPT ![table[victim]].run = FALSE]
      BY <2>4, <2>a DEF EvictStop, At, Goto, tableVars, evictVars
    <3>2. victim \in Keys /\ table[victim] # None
      BY <3>1, <1>a DEF Evictions, Evicting
    <3>3. ~mgr'[table[victim]].run
      BY <3>1, <3>2, <1>a, <1>c, Shapes DEF MgrType
    <3> QED
      BY <3>1, <3>2, <3>3, <2>b, <2>c DEF Critical
  <2>5. CASE EvictDelete(h)
    <3>1. hpc[h] \in Critical /\ hpc'[h] = "publish" /\ count' = count - 1
      BY <2>5, <2>a DEF EvictDelete, At, Goto, Critical
    <3>2. count' < Cap
      BY <3>1, <1>a, CapAssumption DEF TypeOK
    <3> QED
      BY <3>1, <3>2, <2>b, <2>c DEF Evicting
  <2>6. CASE Publish(h)
    <3>1. hpc[h] \in Critical /\ hpc'[h] \in {"save", "use", "stopOwn"}
      BY <2>6, <2>a DEF Publish, At, Goto, Critical
    <3> QED
      BY <3>1, <2>b, <2>c DEF Evicting
  <2>7. CASE StopOwn(h) \/ OwnStopped(h)
    <3>1. hpc'[h] \in {"ownWait", "set", "use"} /\ table' = table /\ count' = count /\ victim' = victim
      BY <2>7, <2>a DEF StopOwn, OwnStopped, Goto, tableVars, evictVars
    <3> QED
      BY <3>1, <2>a, <1>a, <1>b, <1>c DEF Evictions, Evicting
  <2> QED
    BY <1>3, <2>1, <2>2, <2>3, <2>4, <2>5, <2>6, <2>7 DEF Publishes
<1>4. ASSUME NEW m \in Managers, Calls(m) PROVE Evictions'
  BY <1>4, <1>a DEF Calls, Callback, handlerVars, tableVars, evictVars, Evictions, Key
<1>5. CASE GoDown
  BY <1>5, <1>a, <1>b, <1>c, GoDownStops DEF tableVars, Evictions, Key
<1> QED
  BY <1>1, <1>2, <1>3, <1>4, <1>5, StepCases

\* Every step leaves an unpublished manager to the handler that built it.
LEMMA OwningStep ==
  ASSUME IInv, [Next]_vars
  PROVE  Owning'
<1> USE SMTT(20)
<1>a. Owning /\ TypeOK
  BY DEF IInv, Owners
<1>b. "lock" \in Building /\ None \notin Managers
  BY CapAssumption DEF Building, Publishing
<1>c. ASSUME \A h \in Handlers : own'[h] = own[h] /\ (hpc'[h] \in Building <=> hpc[h] \in Building),
             \A m \in Managers : InTable(m)' => InTable(m),
             \A m \in targets' : m \in targets \/ InTable(m)
      PROVE  Owning'
  BY <1>a, <1>c, Shapes DEF Owning
<1>1. CASE Aside
  BY <1>1, <1>c DEF Aside, Still, tableVars, downVars, InTable
<1>2. ASSUME NEW h \in Handlers, NEW m \in Managers, Builds(h, m) PROVE Owning'
  <2>1. /\ \A g \in Handlers \ {h} : own'[g] = own[g] /\ hpc'[g] = hpc[g] /\ own[g] # m
        /\ hpc'[h] = "lock" /\ own'[h] = m /\ ~InTable(m) /\ m \notin targets
    BY <1>2 DEF Builds, Still, Garbage, Held
  <2>2. table' = table /\ targets' = targets
    BY <1>2 DEF Builds, tableVars, downVars
  <2> QED
    BY <2>1, <2>2, <1>a, <1>b DEF Owning, InTable
<1>3. ASSUME NEW h \in Handlers, Publishes(h) PROVE Owning'
  <2>a. /\ DOMAIN hpc = Handlers /\ own \in [Handlers -> Managers \cup {None}]
        /\ table \in [Keys -> Managers \cup {None}]
        /\ \A g \in Handlers \ {h} : hpc'[g] = hpc[g] /\ own'[g] = own[g]
        /\ targets' = targets
    BY <1>3, <1>a, Shapes, PublishesStops DEF Publishes, downVars
  <2>b. ASSUME own' = own, hpc[h] \in Building, hpc'[h] \in Building, table' = table
        PROVE  Owning'
    BY <1>c, <2>a, <2>b DEF InTable
  <2>1. CASE Lock(h) \/ LockAndEvict(h) \/ EvictSave(h) \/ EvictStop(h) \/ StopOwn(h)
    <3>1. own' = own /\ table' = table
      BY <2>1 DEF Lock, LockAndEvict, EvictSave, EvictStop, StopOwn, tableVars
    <3>2. hpc[h] \in Building /\ hpc'[h] \in Building
      BY <2>1, <2>a DEF Lock, LockAndEvict, EvictSave, EvictStop, StopOwn, At, Goto,
                        Building, Publishing, Critical
    <3> QED
      BY <3>1, <3>2, <2>b
  <2>2. CASE EvictDelete(h)
    <3>1. /\ own' = own /\ hpc[h] \in Building /\ hpc'[h] \in Building
          /\ table' = [table EXCEPT ![victim] = None]
      BY <2>2, <2>a DEF EvictDelete, At, Goto, Building, Publishing, Critical
    <3>2. \A m \in Managers : InTable(m)' => InTable(m)
      BY <3>1, <2>a, <1>b DEF InTable
    <3> QED
      BY <3>1, <3>2, <2>a, <1>c
  <2>3. CASE Publish(h) /\ table[Key(h)] # None
    BY <2>3, <2>a, <2>b DEF Publish, At, Goto, Building, Publishing, Critical
  <2>4. ASSUME own'[h] = None, hpc'[h] \notin Building, own[h] # None,
               \A m \in Managers : InTable(m)' => InTable(m) \/ m = own[h]
        PROVE  Owning'
    BY <2>4, <2>a, <1>a DEF Owning
  <2>5. CASE Publish(h) /\ table[Key(h)] = None
    <3>1. /\ own'[h] = None /\ hpc[h] \in Building /\ hpc'[h] \notin Building
          /\ table' = [table EXCEPT ![Key(h)] = own[h]]
      BY <2>5, <2>a DEF Publish, At, Goto, Building, Publishing, Critical
    <3>2. \A m \in Managers : InTable(m)' => InTable(m) \/ m = own[h]
      BY <3>1, <2>a DEF InTable
    <3> QED
      BY <3>1, <3>2, <2>4, <1>a DEF Owning
  <2>6. CASE OwnStopped(h)
    <3>1. /\ own'[h] = None /\ hpc[h] \in Building /\ hpc'[h] \notin Building /\ table' = table
      BY <2>6, <2>a DEF OwnStopped, At, Goto, tableVars, Building, Publishing, Critical
    <3> QED
      BY <3>1, <2>4, <1>a DEF Owning, InTable
  <2> QED
    BY <1>3, <2>1, <2>2, <2>3, <2>5, <2>6 DEF Publishes
<1>4. ASSUME NEW m \in Managers, Calls(m) PROVE Owning'
  BY <1>4, <1>c DEF Calls, Callback, handlerVars, tableVars, downVars, InTable
<1>5. CASE GoDown
  <2>1. \A m \in targets' : m \in targets \/ InTable(m)
    BY <1>5, ZenonT(30) DEF GoDown, Shutdown, Stopped, Exit, StopNext, PassOver
  <2> QED
    BY <1>5, <1>c, <2>1, GoDownStops DEF tableVars, InTable
<1> QED
  BY <1>1, <1>2, <1>3, <1>4, <1>5, StepCases

\* Every step leaves an unpublished manager running until it is given up.
LEMMA OwnRunsStep ==
  ASSUME IInv, [Next]_vars
  PROVE  OwnRuns'
<1> USE SMTT(20)
<1>a. Owning /\ OwnRuns /\ TypeOK /\ Owning'
  BY OwningStep DEF IInv, Owners
<1>b. Publishing \subseteq Building /\ None \notin Managers
  BY CapAssumption DEF Building
<1>c. ASSUME NEW g \in Handlers, own[g] # None, own'[g] = own[g], Key(g)' = Key(g),
             hpc'[g] \in Publishing => hpc[g] \in Publishing /\ mgr'[own[g]].run = mgr[own[g]].run,
             \A m \in Managers : mgr'[m].run => mgr[m].run /\ mgr'[m].key = mgr[m].key
      PROVE  /\ hpc'[g] \in Publishing => mgr'[own'[g]].run
             /\ mgr'[own'[g]].run => mgr'[own'[g]].key = Key(g)'
  BY <1>a, <1>c, Shapes DEF OwnRuns
<1>d. SUFFICES ASSUME NEW g \in Handlers, own'[g] # None
               PROVE  /\ hpc'[g] \in Publishing => mgr'[own'[g]].run
                      /\ mgr'[own'[g]].run => mgr'[own'[g]].key = Key(g)'
  BY <1>a, <1>b DEF OwnRuns, Owning
<1>1. CASE Aside
  <2>1. own[g] # None /\ own[g] \in Managers /\ own'[g] = own[g]
    BY <1>1, <1>a, <1>d, Shapes DEF Aside, Still
  <2>2. hpc[g] \in Building
    BY <2>1, <1>a DEF Owning
  <2>3. Still(g)
    BY <2>2, <1>1 DEF Aside
  <2> QED
    BY <1>1, <1>c, <2>1, <2>3 DEF Aside, Still, Key
<1>2. ASSUME NEW h \in Handlers, NEW m \in Managers, Builds(h, m)
      PROVE  /\ hpc'[g] \in Publishing => mgr'[own'[g]].run
             /\ mgr'[own'[g]].run => mgr'[own'[g]].key = Key(g)'
  <2>1. CASE g = h
    BY <1>2, <2>1 DEF Builds, Key
  <2>2. CASE g # h
    <3>1. Still(g) /\ own[g] # m
      BY <1>2, <2>2 DEF Builds, Garbage, Held
    <3>2. mgr'[own[g]] = mgr[own[g]]
      BY <1>2, <3>1, <1>a, <1>d, Shapes DEF Builds, Still
    <3> QED
      BY <3>1, <3>2, <1>a, <1>d DEF OwnRuns, Still, Key
  <2> QED
    BY <2>1, <2>2
<1>3. ASSUME NEW h \in Handlers, Publishes(h)
      PROVE  /\ hpc'[g] \in Publishing => mgr'[own'[g]].run
             /\ mgr'[own'[g]].run => mgr'[own'[g]].key = Key(g)'
  <2>1. own'[h] \in {own[h], None}
    BY <1>3, <1>a, Shapes DEF Publishes, Lock, LockAndEvict, EvictSave, EvictStop, EvictDelete, Publish,
                              StopOwn, OwnStopped
  <2>2. own'[g] = own[g] /\ own[g] \in Managers /\ Key(g)' = Key(g) /\ (g # h => hpc'[g] = hpc[g])
    BY <1>3, <2>1, <1>a, <1>d, Shapes, PublishesStops, ZenonT(30) DEF Key
  <2>3. hpc'[g] \in Publishing => hpc[g] \in Publishing
    BY <1>3, <2>2, <1>a, Shapes
       DEF Publishes, Lock, LockAndEvict, EvictSave, EvictStop, EvictDelete, Publish, StopOwn,
           OwnStopped, At, Goto, Publishing, Critical
  <2>4. ASSUME hpc'[g] \in Publishing PROVE mgr'[own[g]].run = mgr[own[g]].run
    <3>1. CASE Lock(h) \/ LockAndEvict(h) \/ EvictSave(h) \/ Publish(h)
      BY <3>1 DEF Lock, LockAndEvict, EvictSave, Publish, tableVars
    <3>2. CASE EvictStop(h) \/ EvictDelete(h)
      <4>1. own[g] # table[victim]
        <5>1. victim \in Keys
          BY <3>2 DEF EvictStop, EvictDelete, At, IInv, Table, Evictions, Evicting
        <5> QED
          BY <5>1, <2>2, <1>a, <1>b DEF Owning, InTable
      <4> QED
        BY <3>2, <4>1, <2>2, <1>a, Shapes DEF EvictStop, EvictDelete, Release
    <3>3. CASE StopOwn(h) \/ OwnStopped(h)
      <4>1. g # h
        BY <3>3, <2>4, <1>a, Shapes DEF StopOwn, OwnStopped, Goto, Publishing, Critical
      <4>2. own[g] # own[h]
        BY <4>1, <2>2, <1>a, <1>b DEF Owning
      <4> QED
        BY <3>3, <4>2, <2>2, <1>a, Shapes DEF StopOwn, OwnStopped
    <3> QED
      BY <1>3, <3>1, <3>2, <3>3 DEF Publishes
  <2> QED
    BY <1>3, <1>b, <1>c, <2>2, <2>3, <2>4, PublishesStops
<1>4. ASSUME NEW m \in Managers, Calls(m)
      PROVE  /\ hpc'[g] \in Publishing => mgr'[own'[g]].run
             /\ mgr'[own'[g]].run => mgr'[own'[g]].key = Key(g)'
  BY <1>4, <1>a, <1>d DEF Calls, Callback, handlerVars, OwnRuns, Key
<1>5. CASE GoDown
  <2>1. own'[g] = own[g] /\ own[g] \in Managers /\ Key(g)' = Key(g) /\ hpc'[g] = hpc[g]
    BY <1>5, <1>a, <1>d, Shapes, GoDownStops DEF Key
  <2>2. \A k \in Keys : own[g] # table[k]
    BY <2>1, <1>a, <1>b DEF Owning, InTable
  <2>3. mgr'[own[g]].run = mgr[own[g]].run
    BY <1>5, <2>1, <2>2, <1>a, Shapes, ZenonT(30) DEF GoDown, Shutdown, Stopped, Exit, StopNext, PassOver
  <2> QED
    BY <1>5, <1>b, <1>c, <2>1, <2>3, GoDownStops
<1> QED
  BY <1>1, <1>2, <1>3, <1>4, <1>5, StepCases

\* Publishers fill free keys only, and an eviction drops a stopped manager: one
\* that runs keeps its place in the table.
LEMMA TableKeeps ==
  ASSUME IInv, NEW h \in Handlers, Publishes(h), NEW m \in Managers, mgr'[m].run,
         table[mgr[m].key] = m
  PROVE  table'[mgr[m].key] = m
<1> USE SMTT(20)
<1>a. table \in [Keys -> Managers \cup {None}] /\ None \notin Managers /\ mgr[m].run
  BY CapAssumption, Shapes, PublishesStops DEF IInv
<1>b. mgr[m].key \in Keys
  BY <1>a DEF IInv, Serving
<1>1. CASE Publish(h)
  BY <1>1, <1>a, <1>b DEF Publish
<1>2. CASE EvictDelete(h)
  <2>1. ~mgr[table[victim]].run
    BY <1>2 DEF EvictDelete, At, IInv, Table, Evictions
  <2>2. table' = [table EXCEPT ![victim] = None] /\ victim # mgr[m].key
    BY <1>2, <2>1, <1>a, ZenonT(30) DEF EvictDelete
  <2> QED
    BY <2>2, <1>a, <1>b
<1>3. CASE ~Publish(h) /\ ~EvictDelete(h)
  BY <1>3 DEF Publishes, Lock, LockAndEvict, EvictSave, EvictStop, StopOwn, OwnStopped, tableVars
<1> QED
  BY <1>1, <1>2, <1>3

\* Every step leaves a running manager within reach.
LEMMA NoOrphanStep ==
  ASSUME IInv, [Next]_vars
  PROVE  NoOrphan'
<1> USE SMTT(20)
<1>a. NoOrphan /\ Owning /\ OwnRuns /\ TypeOK /\ None \notin Managers
  BY CapAssumption DEF IInv, Owners
<1>d. SUFFICES ASSUME NEW m \in Managers, mgr'[m].run
               PROVE  \/ table'[mgr'[m].key] = m
                      \/ \E g \in Handlers : own'[g] = m /\ Key(g)' = mgr'[m].key
  BY DEF NoOrphan
<1>1. CASE Aside
  <2>1. mgr[m].run /\ mgr'[m].key = mgr[m].key /\ table' = table
    BY <1>1, <1>d DEF Aside, tableVars
  <2>2. \A g \in Handlers : own[g] = m => Still(g)
    BY <1>1, <1>a DEF Aside, Owning
  <2> QED
    BY <2>1, <2>2, <1>a DEF NoOrphan, Still, Key
<1>2. ASSUME NEW h \in Handlers, NEW x \in Managers, Builds(h, x)
      PROVE  \/ table'[mgr'[m].key] = m
             \/ \E g \in Handlers : own'[g] = m /\ Key(g)' = mgr'[m].key
  <2>1. CASE m = x
    BY <1>2, <2>1 DEF Builds, Key
  <2>2. CASE m # x
    <3>1. mgr'[m] = mgr[m] /\ table' = table /\ own[h] = None
      BY <1>2, <2>2, <1>a DEF Builds, tableVars, Owning
    <3>2. \A g \in Handlers : own[g] = m => Still(g)
      BY <1>2, <3>1, <1>a DEF Builds
    <3> QED
      BY <3>1, <3>2, <1>a, <1>d DEF NoOrphan, Still, Key
  <2> QED
    BY <2>1, <2>2
<1>3. ASSUME NEW h \in Handlers, Publishes(h)
      PROVE  \/ table'[mgr'[m].key] = m
             \/ \E g \in Handlers : own'[g] = m /\ Key(g)' = mgr'[m].key
  <2>1. mgr[m].run /\ mgr'[m].key = mgr[m].key /\ req' = req
    BY <1>3, <1>d, PublishesStops
  <2>2. CASE table[mgr[m].key] = m
    BY <1>3, <1>d, <2>1, <2>2, TableKeeps
  <2>3. ASSUME NEW g \in Handlers, own[g] = m, Key(g) = mgr[m].key
        PROVE  table'[mgr'[m].key] = m \/ (own'[g] = m /\ Key(g)' = mgr'[m].key)
    <3>1. CASE own'[g] = m
      BY <2>1, <2>3, <3>1 DEF Key
    <3>2. CASE own'[g] # m
      <4>1. g = h /\ (Publish(h) \/ OwnStopped(h))
        BY <1>3, <2>3, <3>2, PublishesStops
           DEF Publishes, Lock, LockAndEvict, EvictSave, EvictStop, EvictDelete, StopOwn
      <4>2. ~OwnStopped(h)
        <5>1. DOMAIN mgr = Managers
          BY <1>a, Shapes
        <5>2. OwnStopped(h) => mgr'[m] = Unborn
          BY <4>1, <5>1, <2>3 DEF OwnStopped
        <5> QED
          BY <5>2, <1>d DEF Unborn
      <4>3. table' = [table EXCEPT ![Key(h)] = own[h]]
        BY <4>1, <4>2, <2>3, <3>2 DEF Publish
      <4>4. Key(h) \in Keys
        BY <4>1, <2>1, <2>3 DEF IInv, Serving
      <4> QED
        BY <4>1, <4>3, <4>4, <2>1, <2>3, <1>a, Shapes
    <3> QED
      BY <3>1, <3>2
  <2> QED
    BY <2>1, <2>2, <2>3, <1>a DEF NoOrphan
<1>4. ASSUME NEW x \in Managers, Calls(x)
      PROVE  \/ table'[mgr'[m].key] = m
             \/ \E g \in Handlers : own'[g] = m /\ Key(g)' = mgr'[m].key
  BY <1>4, <1>a, <1>d DEF Calls, Callback, handlerVars, tableVars, NoOrphan, Key
<1>5. CASE GoDown
  BY <1>5, <1>a, <1>d, GoDownStops DEF tableVars, NoOrphan, Key
<1> QED
  BY <1>1, <1>2, <1>3, <1>4, <1>5, StepCases

\* Every step leaves ahead of Shutdown what it still has to stop.
LEMMA AheadStep ==
  ASSUME IInv, [Next]_vars
  PROVE  Ahead'
<1> USE SMTT(20)
<1>a. Ahead /\ Owning /\ NoOrphan /\ TypeOK /\ None \notin Managers /\ targets \subseteq Managers
  BY CapAssumption DEF IInv, Owners, Exits, TypeOK
<1>1. CASE Aside
  BY <1>1, <1>a, ZenonT(30) DEF Aside, tableVars, downVars, Ahead
<1>2. ASSUME NEW h \in Handlers, NEW m \in Managers, Builds(h, m) PROVE Ahead'
  BY <1>2, <1>a, ZenonT(30) DEF Builds, Garbage, tableVars, downVars, Ahead
<1>3. ASSUME NEW h \in Handlers, Publishes(h) PROVE Ahead'
  <2>1. targets' = targets /\ ahead' = ahead
    BY <1>3 DEF Publishes, downVars
  <2> QED
    BY <1>3, <2>1, <1>a, PublishesStops, TableKeeps, ZenonT(30) DEF Ahead
<1>4. ASSUME NEW m \in Managers, Calls(m) PROVE Ahead'
  BY <1>4, <1>a DEF Calls, Callback, tableVars, downVars, Ahead
<1>5. CASE GoDown
  <2>a. table' = table /\ \A m \in Managers : mgr'[m].key = mgr[m].key /\ (mgr'[m].run => mgr[m].run)
    BY <1>5, GoDownStops, ZenonT(30) DEF tableVars
  <2>1. CASE Shutdown
    <3>1. ahead' = Keys /\ \A m \in targets' : m \in Managers /\ InTable(m)
      BY <2>1 DEF Shutdown
    <3>2. \A m \in Managers : mgr[m].run /\ InTable(m) => table[mgr[m].key] = m /\ mgr[m].key \in Keys
      BY <1>a DEF NoOrphan, Owning, IInv, Serving
    <3> QED
      BY <3>1, <3>2, <2>a DEF Ahead
  <2>2. ASSUME NEW k \in Keys, StopNext(k) PROVE Ahead'
    <3>1. /\ targets' = targets /\ ahead' = ahead \ {k} /\ table[k] # None
          /\ mgr' = [mgr EXCEPT ![table[k]].run = FALSE]
      BY <2>2 DEF StopNext
    <3>2. ~mgr'[table[k]].run
      BY <3>1, <1>a, Shapes DEF MgrType
    <3> QED
      BY <3>1, <3>2, <2>a, <1>a DEF Ahead
  <2>3. ASSUME NEW k \in Keys, PassOver(k) PROVE Ahead'
    BY <2>3, <2>a, <1>a DEF PassOver, Ahead
  <2>4. CASE Stopped \/ Exit
    BY <2>4, <2>a, <1>a DEF Stopped, Exit, Ahead
  <2> QED
    BY <1>5, <2>1, <2>2, <2>3, <2>4 DEF GoDown
<1> QED
  BY <1>1, <1>2, <1>3, <1>4, <1>5, StepCases

\* Every step leaves someone waiting for the callback of a stopped manager.
LEMMA DrainingStep ==
  ASSUME IInv, [Next]_vars
  PROVE  Draining'
<1> USE SMTT(20)
<1>a. Draining /\ Owning /\ LockDiscipline /\ Evictions /\ TypeOK /\ None \notin Managers
  BY CapAssumption DEF IInv, Table, Owners, Exits
<1>b. "evictWait" \in Building /\ "evictWait" \in Critical
  BY DEF Building, Publishing, Critical
<1>d. SUFFICES ASSUME NEW m \in Managers, InTable(m)' \/ m \in targets', ~mgr'[m].run, flight'[m].callback
               PROVE  current' = m \/ \E g \in Handlers : At(g, "evictWait")' /\ table'[victim'] = m
  BY DEF Draining
<1>1. CASE Aside
  <2>1. UNCHANGED <<table, victim, current, targets>> /\ ~mgr[m].run /\ flight[m].callback
    BY <1>1, <1>d, ZenonT(30) DEF Aside, tableVars, downVars
  <2>2. \A g \in Handlers : At(g, "evictWait") => At(g, "evictWait")'
    BY <1>1, <1>b, ZenonT(30) DEF Aside, Still, At
  <2> QED
    BY <2>1, <2>2, <1>a, <1>d DEF Draining, InTable
<1>2. ASSUME NEW h \in Handlers, NEW x \in Managers, Builds(h, x)
      PROVE  current' = m \/ \E g \in Handlers : At(g, "evictWait")' /\ table'[victim'] = m
  <2>1. UNCHANGED <<table, victim, current, targets, flight>> /\ mgr'[m] = mgr[m]
    BY <1>2, <1>d DEF Builds, tableVars, downVars
  <2>2. \A g \in Handlers : At(g, "evictWait") => At(g, "evictWait")'
    BY <1>2, <1>b, ZenonT(30) DEF Builds, Still, At
  <2> QED
    BY <2>1, <2>2, <1>a, <1>d DEF Draining, InTable
<1>3. ASSUME NEW h \in Handlers, Publishes(h)
      PROVE  current' = m \/ \E g \in Handlers : At(g, "evictWait")' /\ table'[victim'] = m
  <2>a. /\ DOMAIN hpc = Handlers /\ own \in [Handlers -> Managers \cup {None}]
        /\ table \in [Keys -> Managers \cup {None}] /\ mgr \in [Managers -> MgrType]
        /\ \A g \in Handlers \ {h} : hpc'[g] = hpc[g]
        /\ UNCHANGED <<current, targets, flight>>
    BY <1>3, <1>a, Shapes, PublishesStops, ZenonT(30)
       DEF Publishes, Lock, LockAndEvict, EvictSave, EvictStop, EvictDelete, Publish, StopOwn,
           OwnStopped, downVars
  <2>b. ASSUME mu = None \/ hpc[h] \in Critical
        PROVE  \A g \in Handlers : At(g, "evictWait") => g = h
    BY <2>b, <1>a, <1>b, CapAssumption DEF LockDiscipline, At
  <2>c. ASSUME \A g \in Handlers : ~At(g, "evictWait"), InTable(m) \/ m \in targets, ~mgr[m].run
        PROVE  current' = m
    BY <2>a, <2>c, <1>a, <1>d, ZenonT(30) DEF Draining
  <2>1. CASE Lock(h) \/ LockAndEvict(h) \/ EvictSave(h)
    <3>1. table' = table /\ mgr' = mgr /\ (mu = None \/ hpc[h] \in Critical) /\ ~At(h, "evictWait")
      BY <2>1 DEF Lock, LockAndEvict, EvictSave, tableVars, At, Critical
    <3> QED
      BY <3>1, <2>a, <2>b, <2>c, <1>d, ZenonT(30) DEF InTable
  <2>2. CASE EvictStop(h)
    <3>1. /\ table' = table /\ victim' = victim /\ hpc[h] \in Critical /\ ~At(h, "evictWait")
          /\ mgr' = [mgr EXCEPT ![table[victim]].run = FALSE]
          /\ mgr[table[victim]].run => hpc'[h] = "evictWait"
      BY <2>2, <2>a DEF EvictStop, tableVars, evictVars, At, Goto, Critical
    <3>2. CASE m = table[victim] /\ mgr[m].run
      BY <3>1, <3>2 DEF At
    <3>3. CASE m # table[victim] \/ ~mgr[m].run
      <4>1. ~mgr[m].run
        BY <3>1, <3>3, <2>a, <1>d
      <4> QED
        BY <3>1, <4>1, <2>a, <2>b, <2>c, <1>d DEF InTable
    <3> QED
      BY <3>2, <3>3
  <2>3. CASE EvictDelete(h)
    <3>1. /\ table' = [table EXCEPT ![victim] = None] /\ hpc[h] \in Critical
          /\ At(h, "evictWait") => ~flight[table[victim]].callback
      BY <2>3 DEF EvictDelete, At, Critical
    <3>2. ~mgr[m].run
      BY <2>3, <2>a, <1>d, ZenonT(30) DEF EvictDelete, Release, Unborn
    <3>3. InTable(m) \/ m \in targets
      BY <3>1, <2>a, <1>a, <1>d, ZenonT(30) DEF InTable
    <3> QED
      BY <3>1, <3>2, <3>3, <2>a, <2>b, <1>a, <1>d, ZenonT(30) DEF Draining
  <2>4. CASE Publish(h)
    <3>1. /\ mgr' = mgr /\ hpc[h] = "publish"
          /\ table' = table \/ table' = [table EXCEPT ![Key(h)] = own[h]]
      BY <2>4 DEF Publish, At
    <3>2. m # own[h]
      BY <3>1, <1>d DEF IInv, Owners, OwnRuns, Publishing, Critical
    <3>3. InTable(m) \/ m \in targets
      BY <3>1, <3>2, <2>a, <1>d DEF InTable
    <3> QED
      BY <3>1, <3>3, <2>b, <2>c, <1>d DEF At, Critical
  <2>5. CASE StopOwn(h) \/ OwnStopped(h)
    <3>1. /\ table' = table /\ victim' = victim /\ ~At(h, "evictWait") /\ hpc[h] \in Building
          /\ \/ mgr' = [mgr EXCEPT ![own[h]].run = FALSE]
             \/ mgr' = [mgr EXCEPT ![own[h]] = Unborn]
      BY <2>5 DEF StopOwn, OwnStopped, tableVars, evictVars, At, Building
    <3>2. m # own[h]
      BY <3>1, <2>a, <1>a, <1>d DEF Owning, InTable
    <3>3. ~mgr[m].run
      BY <3>1, <3>2, <2>a, <1>d
    <3> QED
      BY <3>1, <3>3, <2>a, <1>a, <1>d DEF Draining, InTable, At
  <2> QED
    BY <1>3, <2>1, <2>2, <2>3, <2>4, <2>5 DEF Publishes
<1>4. ASSUME NEW x \in Managers, Calls(x)
      PROVE  current' = m \/ \E g \in Handlers : At(g, "evictWait")' /\ table'[victim'] = m
  <2>1. mgr' = mgr /\ mgr[x].run /\ UNCHANGED <<table, victim, current, targets, hpc>>
    BY <1>4 DEF Calls, Callback, tableVars, evictVars, handlerVars, downVars
  <2>2. flight[m].callback
    BY <1>4, <2>1, <1>a, <1>d, Shapes DEF Calls, Callback
  <2> QED
    BY <2>1, <2>2, <1>a, <1>d DEF Draining, InTable, At
<1>5. CASE GoDown
  <2>a. UNCHANGED <<table, flight, victim, hpc>>
    BY <1>5, GoDownStops DEF tableVars
  <2>b. InTable(m) \/ m \in targets
    BY <1>5, <2>a, <1>d, ZenonT(30) DEF GoDown, Shutdown, Stopped, Exit, StopNext, PassOver, InTable
  <2>1. CASE Shutdown \/ Exit \/ \E k \in Keys : PassOver(k)
    BY <2>1, <2>a, <2>b, <1>a, <1>d, ZenonT(30) DEF Shutdown, Exit, PassOver, Draining, At
  <2>2. CASE Stopped
    BY <2>2, <2>a, <2>b, <1>a, <1>d DEF Stopped, Draining, At
  <2>3. ASSUME NEW k \in Keys, StopNext(k)
        PROVE  current' = m \/ \E g \in Handlers : At(g, "evictWait")' /\ table'[victim'] = m
    <3>1. /\ current = None /\ mgr' = [mgr EXCEPT ![table[k]].run = FALSE]
          /\ current' = IF mgr[table[k]].run THEN table[k] ELSE None
      BY <2>3 DEF StopNext
    <3>2. CASE m = table[k] /\ mgr[m].run
      BY <3>1, <3>2
    <3>3. CASE m # table[k] \/ ~mgr[m].run
      <4>1. ~mgr[m].run
        BY <3>1, <3>3, <1>a, <1>d, Shapes
      <4> QED
        BY <3>1, <4>1, <2>a, <2>b, <1>a, <1>d DEF Draining, At
    <3> QED
      BY <3>2, <3>3
  <2> QED
    BY <1>5, <2>1, <2>2, <2>3 DEF GoDown
<1> QED
  BY <1>1, <1>2, <1>3, <1>4, <1>5, StepCases

-----------------------------------------------------------------------------
(* Types, by the component that changes them.                              *)

Labels == {"idle", "load", "lock", "evictSave", "evictStop", "evictWait", "evictDrop", "publish",
           "stopOwn", "ownWait", "set", "save", "use", "slot", "wait", "answer"}
Reqs   == [op : {"get", "store", "wake"}, key : Keys] \cup {NoReq}

TableType   == /\ table \in [Keys -> Managers \cup {None}] /\ count \in 0..Cap
               /\ mu \in Handlers \cup {None}
MgrsType    == mgr \in [Managers -> MgrType]
FlightsType == flight \in [Managers -> FlightType]
DiskType    == disk \in [Keys -> 0..MaxToken]
IssuedType  == issued \in 0..MaxToken
EvictType   == victim \in Keys \cup {None} /\ evicted \in 0..MaxToken
HandlerType == /\ hpc \in [Handlers -> Labels] /\ req \in [Handlers -> Reqs]
               /\ own \in [Handlers -> Managers \cup {None}]
               /\ use \in [Handlers -> Managers \cup {None}] /\ tok \in [Handlers -> 0..MaxToken]
DownType    == /\ down \in {"up", "stopping", "exited"} /\ ahead \subseteq Keys
               /\ current \in Managers \cup {None} /\ targets \subseteq Managers

\* TypeOK is the types of the components.
LEMMA TypeParts ==
  TypeOK <=> /\ scenario \in Scenarios /\ TableType /\ MgrsType /\ FlightsType /\ DiskType
             /\ IssuedType /\ EvictType /\ HandlerType /\ DownType
  BY DEF TypeOK, TableType, MgrsType, MgrType, FlightsType, FlightType, DiskType, IssuedType, EvictType,
         HandlerType, Labels, Reqs, DownType

\* Together they are the types after a step.
LEMMA TypeJoin ==
  /\ scenario' \in Scenarios /\ TableType' /\ MgrsType' /\ FlightsType' /\ DiskType'
  /\ IssuedType' /\ EvictType' /\ HandlerType' /\ DownType'
  => TypeOK'
  BY DEF TypeOK, TableType, MgrsType, MgrType, FlightsType, FlightType, DiskType, IssuedType, EvictType,
         HandlerType, Labels, Reqs, DownType

\* A component that a step leaves alone keeps its type.
LEMMA TypeFrame ==
  ASSUME TypeOK
  PROVE  /\ UNCHANGED tableVars => TableType'
         /\ UNCHANGED mgr => MgrsType'
         /\ UNCHANGED flight => FlightsType'
         /\ UNCHANGED disk => DiskType'
         /\ UNCHANGED issued => IssuedType'
         /\ UNCHANGED evictVars => EvictType'
         /\ UNCHANGED handlerVars => HandlerType'
         /\ UNCHANGED downVars => DownType'
         /\ UNCHANGED scenario => scenario' \in Scenarios
<1> USE SMTT(20)
<1>1. UNCHANGED tableVars => TableType'
  BY TypeParts DEF TableType, tableVars
<1>2. (UNCHANGED mgr => MgrsType') /\ (UNCHANGED flight => FlightsType')
  BY TypeParts DEF MgrsType, FlightsType
<1>3. (UNCHANGED disk => DiskType') /\ (UNCHANGED issued => IssuedType')
  BY TypeParts DEF DiskType, IssuedType
<1>4. UNCHANGED evictVars => EvictType'
  BY TypeParts DEF EvictType, evictVars
<1>5. UNCHANGED handlerVars => HandlerType'
  BY TypeParts DEF HandlerType, handlerVars
<1>6. UNCHANGED downVars => DownType'
  BY TypeParts DEF DownType, downVars
<1> QED
  BY <1>1, <1>2, <1>3, <1>4, <1>5, <1>6, TypeParts

\* The fields that the actions write.
LEMMA RecordTypes ==
  /\ Unborn \in MgrType /\ NoFlight \in FlightType
  /\ \A r \in MgrType : [r EXCEPT !.run = FALSE] \in MgrType
  /\ \A r \in MgrType, t \in 0..MaxToken : [r EXCEPT !.rt = t] \in MgrType
  /\ \A r \in FlightType : [r EXCEPT !.pc = IF @ = "none" THEN "exchange" ELSE @] \in FlightType
  /\ \A r \in FlightType :
        [r EXCEPT !.callback = TRUE, !.pc = IF @ = "none" THEN "exchange" ELSE @] \in FlightType
  /\ \A r \in FlightType, t \in 0..MaxToken : [r EXCEPT !.pc = "save", !.rt = t] \in FlightType
<1> USE SMTT(20)
<1>1. Unborn \in MgrType /\ NoFlight \in FlightType
  BY CapAssumption DEF Unborn, NoFlight, MgrType, FlightType
<1>2. \A r \in MgrType : [r EXCEPT !.run = FALSE] \in MgrType
  BY ZenonT(30) DEF MgrType
<1>3. \A r \in MgrType, t \in 0..MaxToken : [r EXCEPT !.rt = t] \in MgrType
  BY ZenonT(30) DEF MgrType
<1>4. \A r \in FlightType : [r EXCEPT !.pc = IF @ = "none" THEN "exchange" ELSE @] \in FlightType
  BY ZenonT(30) DEF FlightType
<1>5. \A r \in FlightType :
        [r EXCEPT !.callback = TRUE, !.pc = IF @ = "none" THEN "exchange" ELSE @] \in FlightType
  BY ZenonT(30) DEF FlightType
<1>6. \A r \in FlightType, t \in 0..MaxToken : [r EXCEPT !.pc = "save", !.rt = t] \in FlightType
  BY ZenonT(30) DEF FlightType
<1> QED
  BY <1>1, <1>2, <1>3, <1>4, <1>5, <1>6, ZenonT(30)

\* The writes that several actions share.
LEMMA SharedWrites ==
  ASSUME TypeOK
  PROVE  /\ \A x : mgr' = [mgr EXCEPT ![x].run = FALSE] => MgrsType'
         /\ \A x : mgr' = [mgr EXCEPT ![x] = Unborn] => MgrsType'
         /\ \A h \in Handlers : Finish(h) => MgrsType' /\ HandlerType'
         /\ \A k, t : t \in 0..MaxToken /\ Persist(k, t) => DiskType'
         /\ \A m \in Managers : Land(m) => FlightsType' /\ HandlerType'
         /\ \A h \in Handlers, l \in Labels :
              Goto(h, l) /\ UNCHANGED <<req, own, use, tok>> => HandlerType'
<1> USE SMTT(20)
<1>a. MgrsType /\ FlightsType /\ DiskType /\ HandlerType
  BY TypeParts
<1>1. \A x : mgr' = [mgr EXCEPT ![x].run = FALSE] => MgrsType'
  BY <1>a, RecordTypes, ZenonT(30) DEF MgrsType
<1>2. \A x : mgr' = [mgr EXCEPT ![x] = Unborn] => MgrsType'
  BY <1>a, RecordTypes, ZenonT(30) DEF MgrsType
<1>3. ASSUME NEW h \in Handlers, Finish(h) PROVE MgrsType' /\ HandlerType'
  <2>1. MgrsType'
    BY <1>2, <1>3, <1>a, ZenonT(30) DEF Finish, Release, MgrsType
  <2>2. HandlerType'
    BY <1>3, <1>a, CapAssumption DEF Finish, HandlerType, Labels, Reqs
  <2> QED
    BY <2>1, <2>2
<1>4. ASSUME NEW k, NEW t \in 0..MaxToken, Persist(k, t) PROVE DiskType'
  BY <1>4, <1>a DEF Persist, DiskType
<1>5. ASSUME NEW m \in Managers, Land(m) PROVE FlightsType' /\ HandlerType'
  <2>1. FlightsType'
    BY <1>5, <1>a, RecordTypes, ZenonT(30) DEF Land, FlightsType
  <2>2. HandlerType'
    BY <1>5, <1>a DEF Land, HandlerType, Labels
  <2> QED
    BY <2>1, <2>2
<1>6. ASSUME NEW h \in Handlers, NEW l \in Labels, Goto(h, l), UNCHANGED <<req, own, use, tok>>
      PROVE  HandlerType'
  BY <1>6, <1>a DEF Goto, HandlerType
<1> QED
  BY <1>1, <1>2, <1>3, <1>4, <1>5, <1>6

\* Every step keeps the types, as long as managerCount is not zero while there is
\* a manager to evict.
LEMMA TypeStep ==
  ASSUME IInv, [Next]_vars, Occupied # {} => count > 0
  PROVE  TypeOK'
<1> USE SMTT(20)
<1>a. /\ TypeOK /\ TableType /\ MgrsType /\ FlightsType /\ DiskType /\ IssuedType /\ EvictType
      /\ HandlerType /\ DownType /\ scenario \in Scenarios
  BY TypeParts DEF IInv
<1>b. \A h \in Handlers : At(h, "idle") \/ Key(h) \in Keys
  BY DEF IInv, Serving, At
<1>c. scenario.tokens \in 1..MaxToken
  BY <1>a, ScenariosAssumption
<1>d. \A k \in Keys : disk[k] \in 0..MaxToken
  BY <1>a DEF DiskType
<1>e. \A h \in Handlers : tok[h] \in 0..MaxToken
  BY <1>a DEF HandlerType
<1>f. issued < scenario.tokens => issued + 1 \in 0..MaxToken
  BY <1>a, <1>c, CapAssumption DEF IssuedType
<1>g. {"use", "load", "lock", "slot", "publish", "stopOwn", "ownWait", "set", "save", "wait", "evictSave",
       "evictStop", "evictWait", "evictDrop"} \subseteq Labels
  BY DEF Labels
<1>1. ASSUME NEW h \in Handlers, NEW k \in Keys, Request(h, k) \/ Wake(h, k), UNCHANGED <<downVars, scenario>>
      PROVE  TypeOK'
  <2>1. PICK l \in Labels : Goto(h, l)
    BY <1>1, <1>g, ZenonT(30) DEF Request, Wake
  <2>2. req' \in [Handlers -> Reqs] /\ use' \in [Handlers -> Managers \cup {None}]
    BY <1>1, <1>a DEF Request, Wake, HandlerType, TableType, Reqs
  <2>3. HandlerType'
    BY <1>1, <1>a, <2>1, <2>2 DEF Request, Wake, HandlerType, Goto
  <2> QED
    BY <1>1, <1>a, <2>3, TypeFrame, TypeJoin, ZenonT(30) DEF Request, Wake
<1>2. ASSUME NEW h \in Handlers, NEW k \in Keys, NEW rt \in 0..MaxToken, NewManager(h, k, rt)
      PROVE  MgrsType' /\ own' \in [Handlers -> Managers \cup {None}]
  <2>1. PICK m \in Managers : /\ mgr' = [mgr EXCEPT ![m] = [key |-> k, rt |-> rt, run |-> TRUE]]
                              /\ own' = [own EXCEPT ![h] = m]
    BY <1>2, ZenonT(30) DEF NewManager
  <2>2. [key |-> k, rt |-> rt, run |-> TRUE] \in MgrType
    BY DEF MgrType
  <2> QED
    BY <1>a, <2>1, <2>2 DEF MgrsType, HandlerType
<1>3. ASSUME NEW h \in Handlers, NEW k \in Keys, StoreToken(h, k), UNCHANGED <<downVars, scenario>>
      PROVE  TypeOK'
  <2>1. issued + 1 \in 0..MaxToken
    BY <1>3, <1>f DEF StoreToken
  <2>2. MgrsType' /\ own' \in [Handlers -> Managers \cup {None}] /\ IssuedType'
    BY <1>3, <1>2, <2>1 DEF StoreToken, IssuedType
  <2>3. req' \in [Handlers -> Reqs] /\ tok' \in [Handlers -> 0..MaxToken]
    BY <1>3, <1>a, <2>1 DEF StoreToken, HandlerType, Reqs
  <2>4. HandlerType'
    BY <1>3, <1>a, <1>g, <2>2, <2>3, ZenonT(30) DEF StoreToken, Goto, HandlerType
  <2> QED
    BY <1>3, <1>a, <2>2, <2>4, TypeFrame, TypeJoin DEF StoreToken
<1>4. ASSUME NEW h \in Handlers, Load(h), UNCHANGED <<downVars, scenario>>
      PROVE  TypeOK'
  <2>1. Key(h) \in Keys
    BY <1>4, <1>b DEF Load, At
  <2>2. MgrsType' /\ own' \in [Handlers -> Managers \cup {None}]
    BY <1>4, <1>2, <1>d, <2>1 DEF Load
  <2>3. HandlerType'
    BY <1>4, <1>a, <1>g, <2>2 DEF Load, Goto, HandlerType
  <2> QED
    BY <1>4, <1>a, <2>2, <2>3, TypeFrame, TypeJoin DEF Load
<1>5. ASSUME NEW h \in Handlers, LoadNothing(h) \/ AnswerRequest(h) \/ SaveStored(h), UNCHANGED <<downVars, scenario>>
      PROVE  TypeOK'
  <2>1. MgrsType' /\ HandlerType'
    BY <1>5, <1>a, SharedWrites DEF LoadNothing, AnswerRequest, SaveStored
  <2>2. DiskType'
    BY <1>5, <1>a, <1>e, SharedWrites, TypeFrame DEF LoadNothing, AnswerRequest, SaveStored
  <2> QED
    BY <1>5, <1>a, <2>1, <2>2, TypeFrame, TypeJoin DEF LoadNothing, AnswerRequest, SaveStored
<1>6. ASSUME NEW h \in Handlers, WakeGivesUp(h), UNCHANGED scenario
      PROVE  TypeOK'
  BY <1>6, <1>a, SharedWrites, TypeFrame, TypeJoin DEF WakeGivesUp
<1>7. ASSUME NEW h \in Handlers, Lock(h) \/ LockAndEvict(h), UNCHANGED <<downVars, scenario>>
      PROVE  TypeOK'
  <2>1. HandlerType'
    BY <1>7, <1>a, <1>g, SharedWrites DEF Lock, LockAndEvict
  <2>2. TableType'
    BY <1>7, <1>a DEF Lock, LockAndEvict, TableType
  <2>3. EvictType'
    <3>1. CASE Lock(h)
      BY <3>1, <1>a, TypeFrame DEF Lock
    <3>2. CASE LockAndEvict(h)
      <4>1. PICK k \in Keys : table[k] # None /\ victim' = k /\ evicted' = mgr[table[k]].rt
        BY <3>2, ZenonT(30) DEF LockAndEvict
      <4>2. mgr[table[k]].rt \in 0..MaxToken
        BY <4>1, <1>a DEF MgrsType, MgrType, TableType
      <4> QED
        BY <4>1, <4>2 DEF EvictType
    <3> QED
      BY <1>7, <3>1, <3>2
  <2> QED
    BY <1>7, <1>a, <2>1, <2>2, <2>3, TypeFrame, TypeJoin, ZenonT(30) DEF Lock, LockAndEvict
<1>8. ASSUME NEW h \in Handlers, Publish(h), UNCHANGED <<downVars, scenario>>
      PROVE  TypeOK'
  <2>1. Key(h) \in Keys /\ own[h] \in Managers \cup {None} /\ table[Key(h)] \in Managers \cup {None}
    BY <1>8, <1>a, <1>b DEF Publish, At, TableType, HandlerType
  <2>2. table[Key(h)] = None => count < Cap
    BY <1>8 DEF Publish, At, IInv, Table, Evictions
  <2>a. /\ mu' = None
        /\ \/ table' = [table EXCEPT ![Key(h)] = own[h]] /\ count' = count + 1 /\ count < Cap
           \/ table' = table /\ count' = count
    BY <1>8, <2>2, ZenonT(30) DEF Publish
  <2>b. table' \in [Keys -> Managers \cup {None}] /\ mu' \in Handlers \cup {None}
    BY <1>a, <2>1, <2>a, ZenonT(30) DEF TableType
  <2>c. count' \in 0..Cap
    BY <1>a, <2>a, CapAssumption DEF TableType
  <2>3. TableType'
    BY <2>b, <2>c, ZenonT(30) DEF TableType
  <2>4. PICK l \in Labels : Goto(h, l)
    BY <1>8, <1>g, ZenonT(30) DEF Publish
  <2>5. own' \in [Handlers -> Managers \cup {None}] /\ use' \in [Handlers -> Managers \cup {None}]
    BY <1>8, <1>a, <2>1 DEF Publish, HandlerType
  <2>6. HandlerType' /\ EvictType'
    BY <1>8, <1>a, <2>4, <2>5, CapAssumption DEF Publish, Goto, HandlerType, EvictType
  <2> QED
    BY <1>8, <1>a, <2>3, <2>6, TypeFrame, TypeJoin, ZenonT(30) DEF Publish
<1>9. ASSUME NEW h \in Handlers, StopOwn(h), UNCHANGED <<downVars, scenario>>
      PROVE  TypeOK'
  BY <1>9, <1>a, <1>g, SharedWrites, TypeFrame, TypeJoin, ZenonT(30) DEF StopOwn
<1>10. ASSUME NEW h \in Handlers, OwnStopped(h), UNCHANGED <<downVars, scenario>>
       PROVE  TypeOK'
  <2>1. PICK l \in Labels : Goto(h, l)
    BY <1>10, <1>g DEF OwnStopped
  <2>2. HandlerType'
    BY <1>10, <1>a, <2>1 DEF OwnStopped, Goto, HandlerType
  <2>3. MgrsType'
    BY <1>10, <1>a, SharedWrites, ZenonT(30) DEF OwnStopped
  <2> QED
    BY <1>10, <1>a, <2>2, <2>3, TypeFrame, TypeJoin DEF OwnStopped
<1>11. ASSUME NEW h \in Handlers, SetToken(h), UNCHANGED <<downVars, scenario>>
       PROVE  TypeOK'
  <2>1. MgrsType'
    BY <1>11, <1>a, <1>e, RecordTypes, ZenonT(30) DEF SetToken, MgrsType
  <2> QED
    BY <1>11, <1>a, <1>g, <2>1, SharedWrites, TypeFrame, TypeJoin DEF SetToken
<1>12. ASSUME NEW h \in Handlers, EvictSave(h), UNCHANGED <<downVars, scenario>>
       PROVE  TypeOK'
  <2>1. DiskType' /\ HandlerType'
    BY <1>12, <1>a, <1>g, SharedWrites DEF EvictSave, EvictType
  <2> QED
    BY <1>12, <1>a, <2>1, TypeFrame, TypeJoin DEF EvictSave
<1>13. ASSUME NEW h \in Handlers, EvictStop(h), UNCHANGED <<downVars, scenario>>
       PROVE  TypeOK'
  <2>1. PICK l \in Labels : Goto(h, l)
    BY <1>13, <1>g DEF EvictStop
  <2>2. HandlerType' /\ MgrsType'
    BY <1>13, <1>a, <2>1, SharedWrites, ZenonT(30) DEF EvictStop
  <2> QED
    BY <1>13, <1>a, <2>2, TypeFrame, TypeJoin DEF EvictStop
<1>14. ASSUME NEW h \in Handlers, EvictDelete(h), UNCHANGED <<downVars, scenario>>
       PROVE  TypeOK'
  <2>1. count > 0
    BY <1>14 DEF EvictDelete, At, IInv, Table, Evictions, Evicting, Occupied
  <2>2. TableType'
    <3>1. /\ table' = [table EXCEPT ![victim] = None] /\ count' = count - 1 /\ mu' = mu
      BY <1>14 DEF EvictDelete
    <3>2. table' \in [Keys -> Managers \cup {None}]
      BY <1>a, <3>1, ZenonT(30) DEF TableType
    <3> QED
      BY <1>a, <2>1, <3>1, <3>2, CapAssumption DEF TableType
  <2>3. MgrsType' /\ HandlerType'
    BY <1>14, <1>a, <1>g, SharedWrites, TypeFrame, ZenonT(30) DEF EvictDelete, Release
  <2> QED
    BY <1>14, <1>a, <2>2, <2>3, TypeFrame, TypeJoin DEF EvictDelete
<1>15. ASSUME NEW h \in Handlers, Refresh(h), UNCHANGED <<downVars, scenario>>
       PROVE  TypeOK'
  <2>1. FlightsType'
    BY <1>15, <1>a, RecordTypes, ZenonT(30) DEF Refresh, FlightsType
  <2> QED
    BY <1>15, <1>a, <1>g, <2>1, SharedWrites, TypeFrame, TypeJoin DEF Refresh
<1>16. ASSUME NEW m \in Managers, Callback(m), UNCHANGED <<downVars, scenario>>
       PROVE  TypeOK'
  <2>1. FlightsType'
    BY <1>16, <1>a, RecordTypes, ZenonT(30) DEF Callback, FlightsType
  <2> QED
    BY <1>16, <1>a, <2>1, TypeFrame, TypeJoin DEF Callback
<1>17. ASSUME NEW m \in Managers, FlightStore(m), UNCHANGED <<downVars, scenario>>
       PROVE  TypeOK'
  <2>1. issued + 1 \in 0..MaxToken /\ IssuedType'
    BY <1>17, <1>f DEF FlightStore, IssuedType
  <2>2. FlightsType'
    BY <1>17, <1>a, <2>1, RecordTypes, ZenonT(30) DEF FlightStore, FlightsType
  <2>3. MgrsType'
    BY <1>17, <1>a, <2>1, RecordTypes, ZenonT(30) DEF FlightStore, MgrsType
  <2> QED
    BY <1>17, <1>a, <2>1, <2>2, <2>3, TypeFrame, TypeJoin DEF FlightStore
<1>18. ASSUME NEW m \in Managers, FlightSave(m) \/ FlightFail(m), UNCHANGED <<downVars, scenario>>
       PROVE  TypeOK'
  <2>1. flight[m].rt \in 0..MaxToken
    BY <1>a DEF FlightsType, FlightType
  <2>2. FlightsType' /\ HandlerType' /\ DiskType'
    BY <1>18, <1>a, <2>1, SharedWrites, TypeFrame DEF FlightSave, FlightFail
  <2> QED
    BY <1>18, <1>a, <2>2, TypeFrame, TypeJoin, ZenonT(30) DEF FlightSave, FlightFail
<1>19. ASSUME GoDown, UNCHANGED scenario
       PROVE  TypeOK'
  <2>1. DownType'
    BY <1>19, <1>a, ZenonT(30) DEF GoDown, Shutdown, Stopped, Exit, StopNext, PassOver, DownType, TableType
  <2>2. MgrsType'
    BY <1>19, <1>a, SharedWrites, TypeFrame, ZenonT(30) DEF GoDown, Shutdown, Stopped, Exit, StopNext, PassOver
  <2> QED
    BY <1>19, <1>a, <2>1, <2>2, TypeFrame, TypeJoin, ZenonT(30) DEF GoDown, Shutdown, Stopped, Exit, StopNext, PassOver
<1>20. CASE UNCHANGED vars
  BY <1>20, <1>a, TypeFrame, TypeJoin DEF vars
<1> QED
  BY <1>1, <1>3, <1>4, <1>5, <1>6, <1>7, <1>8, <1>9, <1>10, <1>11, <1>12, <1>13, <1>14, <1>15, <1>16,
     <1>17, <1>18, <1>19, <1>20, ZenonT(60)
     DEF Next, Live, Exited, Arrive, Run, Fly

\* The process has nothing left to wait for when it exits.
LEMMA StoppedAtExitStep ==
  ASSUME IInv, [Next]_vars
  PROVE  StoppedAtExit'
<1> USE SMTT(20)
<1>1. CASE Exit
  <2>1. \A m \in targets : m \in Managers /\ m # None
    BY CapAssumption DEF IInv, TypeOK
  <2>2. \A m \in targets : ~mgr[m].run
    BY <1>1 DEF Exit, IInv, Exits, Ahead
  <2>3. \A m \in targets : flight[m].callback
                            => \E h \in Handlers : At(h, "evictWait") /\ table[victim] = m
    BY <1>1, <2>1, <2>2 DEF Exit, IInv, Exits, Draining
  <2> QED
    BY <1>1, <2>2, <2>3, ZenonT(30) DEF Exit, StoppedAtExit, handlerVars, tableVars, evictVars, At
<1>2. CASE UNCHANGED vars
  BY <1>2 DEF IInv, Exits, StoppedAtExit, vars, handlerVars, tableVars, evictVars, downVars, At
<1>3. CASE down # "exited" /\ ~Exit /\ Live
  <2>1. down' # "exited"
    BY <1>3, ZenonT(30) DEF Live, GoDown, Shutdown, Stopped, StopNext, PassOver, WakeGivesUp, downVars
  <2> QED
    BY <2>1 DEF StoppedAtExit
<1> QED
  BY <1>1, <1>2, <1>3 DEF Next, Exited

-----------------------------------------------------------------------------
(* The count of the table. *)

INSTANCE FiniteSetTheorems

\* The table has as many managers as managerCount says, so that there is one to
\* drop and, with room, one more fits.
LEMMA OccupiedFinite ==
  ASSUME TypeOK, CountExact
  PROVE  IsFiniteSet(Occupied) /\ count = Cardinality(Occupied) /\ (Occupied # {} => count > 0)
<1>1. IsFiniteSet(Occupied)
  BY CapAssumption, FS_Subset DEF Occupied
<1>2. count = Cardinality(Occupied)
  BY DEF CountExact, Occupied
<1> QED
  BY <1>1, <1>2, FS_EmptySet DEF TypeOK

\* Only a publisher and an eviction change the table, each with its count.
LEMMA CountStep ==
  ASSUME IInv, [Next]_vars
  PROVE  CountExact'
<1>a. TypeOK /\ CountExact /\ count \in Nat /\ count <= Cap /\ Cap \in Nat
  BY CapAssumption DEF IInv, Table, CountExact, TypeOK
<1>1. CASE UNCHANGED <<table, count>>
  BY <1>1, <1>a DEF CountExact
<1>2. ASSUME NEW h \in Handlers, Publish(h) PROVE CountExact'
  <2>1. CASE table[Key(h)] = None
    <3>1. Key(h) \in Keys /\ own[h] # None
      BY <1>2 DEF Publish, At, IInv, Serving, Owners, Owning, Building, Publishing, Critical
    <3>2. table' = [table EXCEPT ![Key(h)] = own[h]] /\ count' = count + 1 /\ count < Cap
      BY <1>2, <2>1 DEF Publish, At, IInv, Table, Evictions
    <3>3. Occupied' = Occupied \cup {Key(h)} /\ Key(h) \notin Occupied
      BY <2>1, <3>1, <3>2, <1>a, Shapes DEF Occupied
    <3>4. Cardinality(Occupied') = Cardinality(Occupied) + 1
      BY <1>a, <3>3, OccupiedFinite, FS_AddElement
    <3> QED
      BY <1>a, <3>2, <3>4, OccupiedFinite DEF Occupied, CountExact
  <2>2. CASE table[Key(h)] # None
    BY <1>1, <1>2, <2>2 DEF Publish
  <2> QED
    BY <2>1, <2>2
<1>3. ASSUME NEW h \in Handlers, EvictDelete(h) PROVE CountExact'
  <2>1. victim \in Occupied
    BY <1>3 DEF EvictDelete, At, IInv, Table, Evictions, Evicting, Occupied
  <2>2. table' = [table EXCEPT ![victim] = None] /\ count' = count - 1
    BY <1>3 DEF EvictDelete
  <2>3. Occupied' = Occupied \ {victim}
    BY <2>1, <2>2, <1>a, Shapes DEF Occupied
  <2>4. Cardinality(Occupied') = Cardinality(Occupied) - 1
    BY <1>a, <2>1, <2>3, OccupiedFinite, FS_RemoveElement
  <2> QED
    BY <1>a, <2>2, <2>4, OccupiedFinite DEF Occupied, CountExact
<1>4. ASSUME NEW h \in Handlers, Publishes(h), ~Publish(h), ~EvictDelete(h) PROVE CountExact'
  BY <1>1, <1>4 DEF Publishes, Lock, LockAndEvict, EvictSave, EvictStop, StopOwn, OwnStopped, tableVars
<1>5. CASE GoDown
  BY <1>1, <1>5, GoDownStops DEF tableVars
<1> QED
  BY <1>1, <1>2, <1>3, <1>4, <1>5, StepCases DEF Aside, Builds, Calls, Callback, tableVars

\* Initially, and after every step, the invariant holds.
THEOREM Inductive == Spec => []IInv
<1>1. Init => IInv
  <2> SUFFICES ASSUME Init PROVE IInv
    OBVIOUS
  <2>1. TypeOK
    <3>1. 1 \in 0..MaxToken
      BY CapAssumption, ScenariosAssumption DEF Init
    <3> QED
      BY <3>1, CapAssumption DEF Init, TypeOK, Unborn, NoFlight, NoReq
  <2>2. Serving /\ LockDiscipline /\ Evictions
    BY CapAssumption DEF Init, Serving, LockDiscipline, Critical, Evictions, Evicting, Unborn
  <2>3. CountExact
    <3>1. {k \in Keys : table[k] # None} = {}
      BY DEF Init
    <3> QED
      BY <3>1, FS_EmptySet, CapAssumption DEF Init, CountExact
  <2>4. Owners
    BY DEF Init, Owners, Owning, OwnRuns, NoOrphan, Building, Publishing, Critical, Unborn
  <2>5. Exits
    BY CapAssumption DEF Init, Exits, Ahead, Draining, StoppedAtExit, InTable, NoFlight
  <2> QED
    BY <2>1, <2>2, <2>3, <2>4, <2>5 DEF IInv, Table
<1>2. IInv /\ [Next]_vars => IInv'
  <2> SUFFICES ASSUME IInv, [Next]_vars PROVE IInv'
    OBVIOUS
  <2>1. TypeOK' /\ Serving'
    BY TypeStep, ServingStep, OccupiedFinite DEF IInv, Table
  <2>2. Table'
    BY LockStep, CountStep, EvictionsStep DEF Table
  <2>3. Owners'
    BY OwningStep, OwnRunsStep, NoOrphanStep DEF Owners
  <2>4. Exits'
    BY AheadStep, DrainingStep, StoppedAtExitStep DEF Exits
  <2> QED
    BY <2>1, <2>2, <2>3, <2>4 DEF IInv
<1> QED
  BY <1>1, <1>2, PTL DEF Spec

\* Every variable of the table, the managers, the handlers and Shutdown keeps
\* its type.
THEOREM TypeCorrect == Spec => []TypeOK
  BY Inductive, PTL DEF IInv

\* managerMu is held exactly by the handler between its Lock and an Unlock, for
\* any number of handlers (server.go:540-572, 798-830).
THEOREM MutexDiscipline == Spec => []LockDiscipline
<1>1. IInv => LockDiscipline
  BY DEF IInv, Table
<1> QED
  BY <1>1, Inductive, PTL

\* managerCount is exact and within maxTokenManagers, for any cap
\* (server.go:537-550, 1246-1257).
THEOREM CountIsExact == Spec => []CountExact
<1>1. IInv => CountExact
  BY DEF IInv, Table
<1> QED
  BY <1>1, Inductive, PTL

\* No manager refreshes out of reach of the table and of the handler that built
\* it (server.go:552-570, 1245-1247).
THEOREM NoneOrphaned == Spec => []NoOrphan
<1>1. IInv => NoOrphan
  BY DEF IInv, Owners
<1> QED
  BY <1>1, Inductive, PTL

\* The process exits with every manager that Shutdown found stopped and, but for
\* an eviction that was first, drained (server.go:284-287).
THEOREM ExitsStopped == Spec => []StoppedAtExit
<1>1. IInv => StoppedAtExit
  BY DEF IInv, Exits
<1> QED
  BY <1>1, Inductive, PTL
=============================================================================

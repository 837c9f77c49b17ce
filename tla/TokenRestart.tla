---------------------------- MODULE TokenRestart ----------------------------
(***************************************************************************)
(* TokenManager over daemon crashes: every goroutine, timer and in-memory  *)
(* token is gone, the persist file stays, and the next request makes       *)
(* getOrCreateTokenManager (pkg/daemon/server.go) build a manager from it. *)
(***************************************************************************)
EXTENDS TokenManager

CONSTANT MaxCrashes  \* bound: daemon crashes

ASSUME CrashBound == MaxCrashes \in Nat

VARIABLES
  crashes,   \* daemon crashes so far
  excused,   \* history: refresh tokens whose successor could not be saved
  staleSaved \* history: refresh tokens saved after they had been replaced

restartVars == <<crashes, excused, staleSaved>>

RestartInit == Init /\ crashes = 0 /\ excused = {} /\ staleSaved = {}

\* A step of the manager, with what it does to the persist file recorded:
\* the successor of old.rt was not saved, or a replaced entry was saved.
\* A persist that fails leaves the file as it was.
Saves(e) == disk' = e /\ e # current
RecordSave ==
  /\ excused' = excused \cup
       (IF \/ FlightPersist /\ disk # new /\ disk' = disk
           \/ flight = "granted" /\ flight' = "none"
          THEN {old.rt} ELSE {})
  /\ staleSaved' = staleSaved \cup
       {e.rt : e \in {x \in {new, wdEntry} \cup {loginEntry[l] : l \in Logins} :
                        disk' # disk /\ Saves(x)}}

ManagerStep == Next /\ RecordSave /\ UNCHANGED crashes

\* The daemon is killed and a later request reloads the persist file.  A
\* file without a refresh token yields no manager.
Restart ==
  /\ crashes < MaxCrashes /\ disk.rt # 0
  /\ crashes' = crashes + 1
  /\ excused' = excused \cup
       (IF flight \in {"granted", "stored"} THEN {old.rt} ELSE {})
  /\ lost' = IF flight = "granted" THEN lost \cup {old.rt} ELSE lost
  /\ current' = disk
  /\ timer' = IF Fresh(disk) THEN "armed" ELSE "nil"
  /\ timerFor' = IF Fresh(disk) THEN disk.id ELSE 0
  /\ wd' = "armed" /\ wdPc' = "idle" /\ wdEntry' = NoEntry
  /\ wg' = 1 + Num(Fresh(disk))
  /\ retryCount' = 0
  /\ flight' = "none" /\ old' = NoEntry /\ new' = NoEntry
  /\ pc' = [p \in Procs |-> "idle"] /\ cbFor' = [c \in Callbacks |-> 0]
  /\ stopped' = FALSE /\ stopPc' = [s \in Stoppers |-> "idle"]
  /\ login' = [l \in Logins |-> "idle"]
  /\ loginEntry' = [l \in Logins |-> NoEntry]
  /\ UNCHANGED <<disk, issued, live, consumed, reused, expired, staleSaved>>

RestartNext == ManagerStep \/ Restart

RestartSpec == RestartInit /\ [][RestartNext]_<<vars, restartVars>>

\* The only ways in which a restarted daemon comes back with a refresh token
\* the provider has already rotated away: its successor's answer was lost,
\* its save failed or was cut off by the crash, or a concurrent persist put
\* the replaced entry back.
RestartLossesExplained ==
  [][Restart => disk.rt \notin consumed \/ disk.rt \in excused' \cup staleSaved
    ]_<<vars, restartVars>>

=============================================================================

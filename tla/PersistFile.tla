----------------------------- MODULE PersistFile -----------------------------
(***************************************************************************)
(* The persist file of one cache key on disk (pkg/daemon/persist.go):      *)
(* PersistToken and atomicWriteFile (temporary file, fsync, rename),       *)
(* LoadPersistedToken, which deletes a corrupt file,                       *)
(* MigrateTokensFromLegacyDir, and cleanupStaleTempFiles                   *)
(* (pkg/daemon/server.go), with crashes of the daemon and power losses.    *)
(*                                                                         *)
(* A file is the number of the token in it, whether it parses, and whether *)
(* its data are on the disk (safe) or only in the page cache.  A directory *)
(* entry reaches the disk when the kernel writes it back: the code does    *)
(* not sync the directory.  The temporary files that crashes leave behind  *)
(* are not kept: nobody reads them, and no name is used twice.             *)
(***************************************************************************)
EXTENDS Naturals

CONSTANTS
  Writers,    \* PersistToken calls: handlers, refreshes, watchdog, eviction
  Readers,    \* LoadPersistedToken calls
  Migrators,  \* daemons starting up; they migrate before the election
  MaxToken,   \* bound: tokens saved
  MaxCrashes  \* bound: crashes and power losses

Procs == Writers \cup Migrators

ASSUME BoundsAssumption == MaxToken \in Nat \ {0} /\ MaxCrashes \in Nat

VARIABLES
  final,     \* the file at <key>.json
  stable,    \* what its directory entry on the disk points to
  legacy,    \* the file in the legacy directory
  wpc,       \* position of each writer and migrator
  data,      \* the token each writes
  temp,      \* the data in its temporary file; "gone": deleted under it
  old,       \* those whose temporary file is older than 60 s
  rpc,       \* position of each reader
  issued,    \* tokens saved so far
  crashes,   \* crashes and power losses so far
  damaged    \* the file was corrupt to begin with, or a power loss took it

fileVars  == <<final, stable, legacy>>
writeVars == <<wpc, data, temp, old>>
vars == <<fileVars, writeVars, rpc, issued, crashes, damaged>>

Files  == [token : 0..MaxToken, parses : BOOLEAN, safe : BOOLEAN]
NoFile == [token |-> 0, parses |-> FALSE, safe |-> TRUE]
Good(t, s) == [token |-> t, parses |-> TRUE, safe |-> s]
Corrupt    == [token |-> 1, parses |-> FALSE, safe |-> TRUE]

\* A temporary file of a running call exists only between CreateTemp and its
\* rename or removal, which every error return of the code has to reach.
TypeOK ==
  /\ final \in Files /\ stable \in Files /\ legacy \in Files
  /\ wpc \in [Procs -> {"idle", "read", "create", "write", "sync", "rename",
                        "remove"}]
  /\ data \in [Procs -> 0..MaxToken]
  /\ temp \in [Procs -> {"none", "empty", "written", "synced", "gone"}]
  /\ \A p \in Procs : temp[p] # "none" => wpc[p] \in {"write", "sync", "rename"}
  /\ old \subseteq Procs
  /\ rpc \in [Readers -> {"idle", "delete"}]
  /\ issued \in 0..MaxToken /\ crashes \in 0..MaxCrashes /\ damaged \in BOOLEAN

\* The file is missing, good or corrupt; there may be one to migrate.
Init ==
  /\ final \in {NoFile, Good(1, TRUE), Corrupt} /\ stable = final
  /\ legacy \in {NoFile, Good(1, TRUE)}
  /\ wpc = [p \in Procs |-> "idle"] /\ data = [p \in Procs |-> 0]
  /\ temp = [p \in Procs |-> "none"] /\ old = {}
  /\ rpc = [r \in Readers |-> "idle"]
  /\ issued = 1 /\ crashes = 0 /\ damaged = (final = Corrupt)

Goto(p, l) == wpc' = [wpc EXCEPT ![p] = l]

\* p returns; its temporary file has been renamed or removed.
Return(p, l) ==
  /\ Goto(p, l)
  /\ data' = [data EXCEPT ![p] = 0] /\ temp' = [temp EXCEPT ![p] = "none"]
  /\ old' = old \ {p}

-----------------------------------------------------------------------------
(* Writing: PersistToken, and atomicWriteFile for a migrator.              *)

PersistToken(w) ==
  /\ w \in Writers /\ wpc[w] = "idle" /\ issued < MaxToken
  /\ issued' = issued + 1 /\ data' = [data EXCEPT ![w] = issued + 1]
  /\ Goto(w, "create")
  /\ UNCHANGED <<fileVars, temp, old, rpc, crashes, damaged>>

\* CreateTemp: a name of its own for every call.
Create(p) ==
  /\ wpc[p] = "create"
  /\ temp' = [temp EXCEPT ![p] = "empty"] /\ Goto(p, "write")
  /\ UNCHANGED <<fileVars, data, old, rpc, issued, crashes, damaged>>

\* An open file can be written and synced after its name is gone.
Fill(p, from, to, content) ==
  /\ wpc[p] = from /\ Goto(p, to)
  /\ temp' = [temp EXCEPT ![p] = IF @ = "gone" THEN @ ELSE content]
  /\ UNCHANGED <<fileVars, data, old, rpc, issued, crashes, damaged>>

Write(p) == Fill(p, "write", "sync", "written")

\* Mutant: f.Sync is forgotten.
SyncForgotten(p) == Fill(p, "sync", "rename", "written")

Sync(p) == Fill(p, "sync", "rename", "synced")

\* Any step before the rename may fail: the temporary file is removed.
Fail(p) ==
  /\ wpc[p] \in {"create", "write", "sync", "rename"}
  /\ Return(p, "idle")
  /\ UNCHANGED <<fileVars, rpc, issued, crashes, damaged>>

Rename(p) ==
  /\ wpc[p] = "rename" /\ temp[p] # "gone"
  /\ final' = Good(data[p], temp[p] = "synced")
  /\ Return(p, IF p \in Migrators THEN "remove" ELSE "idle")
  /\ UNCHANGED <<stable, legacy, rpc, issued, crashes, damaged>>

-----------------------------------------------------------------------------
(* MigrateTokensFromLegacyDir.                                             *)

\* Only a file that is not at the new path yet.
MigrateStat(g) ==
  /\ g \in Migrators /\ wpc[g] = "idle"
  /\ legacy # NoFile /\ final = NoFile
  /\ Goto(g, "read")
  /\ UNCHANGED <<fileVars, data, temp, old, rpc, issued, crashes, damaged>>

\* Mutant: the source is removed when it has been read.
MigrateReadRemoves(g) ==
  /\ wpc[g] = "read"
  /\ data' = [data EXCEPT ![g] = legacy.token] /\ legacy' = NoFile
  /\ Goto(g, IF legacy = NoFile THEN "idle" ELSE "create")
  /\ UNCHANGED <<final, stable, temp, old, rpc, issued, crashes, damaged>>

MigrateRead(g) ==
  /\ wpc[g] = "read"
  /\ data' = [data EXCEPT ![g] = legacy.token]
  /\ Goto(g, IF legacy = NoFile THEN "idle" ELSE "create")
  /\ UNCHANGED <<fileVars, temp, old, rpc, issued, crashes, damaged>>

\* The source goes once the copy is in place.
MigrateRemove(g) ==
  /\ wpc[g] = "remove"
  /\ legacy' = NoFile /\ Goto(g, "idle")
  /\ UNCHANGED <<final, stable, data, temp, old, rpc, issued, crashes, damaged>>

-----------------------------------------------------------------------------
(* LoadPersistedToken and cleanupStaleTempFiles.                           *)

\* The reader keeps the file it opened; what does not parse is deleted.
Open(r) ==
  /\ rpc[r] = "idle" /\ final # NoFile /\ ~final.parses
  /\ rpc' = [rpc EXCEPT ![r] = "delete"]
  /\ UNCHANGED <<fileVars, writeVars, issued, crashes, damaged>>

\* os.Remove takes the path, whatever is there by now.
Delete(r) ==
  /\ rpc[r] = "delete"
  /\ final' = NoFile /\ rpc' = [rpc EXCEPT ![r] = "idle"]
  /\ UNCHANGED <<stable, legacy, writeVars, issued, crashes, damaged>>

HasTemp(p) == temp[p] \in {"empty", "written", "synced"}

\* Sixty seconds pass.
Age ==
  /\ old' = {p \in Procs : HasTemp(p)}
  /\ UNCHANGED <<fileVars, wpc, data, temp, rpc, issued, crashes, damaged>>

\* On the idle watcher's tick of one daemon and at the start of another:
\* everything past the cut-off, also what a slow call is still writing.
Cleanup ==
  /\ temp' = [p \in Procs |-> IF p \in old THEN "gone" ELSE temp[p]]
  /\ old' = {}
  /\ UNCHANGED <<fileVars, wpc, data, rpc, issued, crashes, damaged>>

-----------------------------------------------------------------------------
(* Crashes.                                                                *)

\* The processes in S die; their temporary files stay.
Die(S) ==
  /\ crashes < MaxCrashes /\ crashes' = crashes + 1
  /\ wpc' = [p \in Procs |-> IF p \in S THEN "idle" ELSE wpc[p]]
  /\ data' = [p \in Procs |-> IF p \in S THEN 0 ELSE data[p]]
  /\ temp' = [p \in Procs |-> IF p \in S THEN "none" ELSE temp[p]]
  /\ old' = old \ S
  /\ UNCHANGED issued

\* The serving daemon dies, or one that is starting.
DaemonCrash ==
  /\ Die(Writers)
  /\ rpc' = [r \in Readers |-> "idle"] /\ UNCHANGED <<fileVars, damaged>>

MigratorCrash(g) == Die({g}) /\ UNCHANGED <<fileVars, rpc, damaged>>

\* The kernel writes the directory back.
WriteBack ==
  /\ stable # final /\ stable' = final
  /\ UNCHANGED <<final, legacy, writeVars, rpc, issued, crashes, damaged>>

\* What is not on the disk is lost: a directory entry, or a file's data.
PowerLoss ==
  /\ Die(Procs)
  /\ rpc' = [r \in Readers |-> "idle"]
  /\ \E f \in {final, stable} :
       /\ final' = [f EXCEPT !.parses = f.parses /\ f.safe, !.safe = TRUE]
       /\ damaged' = (damaged \/ f = NoFile)
  /\ stable' = final' /\ UNCHANGED legacy

Step(p) ==
  \/ PersistToken(p) \/ Create(p) \/ Write(p) \/ Sync(p) \/ Fail(p) \/ Rename(p)
  \/ MigrateStat(p) \/ MigrateRead(p) \/ MigrateRemove(p)

Next ==
  \/ \E p \in Procs : Step(p)
  \/ \E r \in Readers : Open(r) \/ Delete(r)
  \/ Age \/ Cleanup \/ WriteBack
  \/ DaemonCrash \/ PowerLoss \/ \E g \in Migrators : MigratorCrash(g)

Spec == Init /\ [][Next]_vars

-----------------------------------------------------------------------------
(* Properties.                                                             *)

\* No crash and no power loss leaves half a token at the final path or behind
\* its directory entry: fsync comes before rename, and concurrent calls have
\* temporary files of their own (persist.go:82-119).
NeverTorn ==
  \A f \in {final, stable} : f.parses \/ f \in {NoFile, Corrupt}

\* A persist file stays until a power loss takes its directory entry, unless
\* it was corrupt at first: no reader meets a file it would delete
\* (persist.go:281-300).
KeptOnceSaved == [][final # NoFile /\ final' = NoFile => damaged']_vars

\* Migration never leaves a key without its token, wherever a migrating daemon
\* dies and however two of them overlap (persist.go:173-208).
MigrationKeepsToken ==
  [][legacy # NoFile \/ final # NoFile
       => legacy' # NoFile \/ final' # NoFile \/ damaged']_vars

==============================================================================

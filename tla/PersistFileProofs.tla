-------------------------- MODULE PersistFileProofs --------------------------
(***************************************************************************)
(* Proofs about PersistFile for any number of concurrent saves, loads,     *)
(* migrations, crashes and power losses.                                   *)
(***************************************************************************)
EXTENDS PersistFile, TLAPS

\* Only temporary files that exist grow old, and what is about to be renamed
\* has been synced.
Temps ==
  /\ \A p \in old : HasTemp(p)
  /\ \A p \in Procs : wpc[p] = "rename" => temp[p] \in {"synced", "gone"}

\* The file, on the disk and in the directory, is missing, corrupt from the
\* beginning, or whole and safe.
Whole(f) == f \in {NoFile, Corrupt} \/ (f.parses /\ f.safe)

\* A corrupt file, and a reader that is about to delete one, are known damage;
\* a migrator removes the source only with the copy in place.
Kept ==
  /\ Corrupt \in {final, stable} => damaged
  /\ \A r \in Readers : rpc[r] = "delete" => damaged
  /\ \A p \in Procs : wpc[p] = "remove" => final # NoFile \/ damaged

IInv == TypeOK /\ Temps /\ Whole(final) /\ Whole(stable) /\ Kept

\* Whatever the power loss leaves, it leaves whole.
LEMMA PowerLossKeeps ==
  ASSUME IInv, PowerLoss
  PROVE  \E f \in {final, stable} : final' = f /\ stable' = f /\ damaged' = (damaged \/ f = NoFile)
<1>1. PICK f \in {final, stable} :
        /\ final' = [f EXCEPT !.parses = f.parses /\ f.safe, !.safe = TRUE]
        /\ damaged' = (damaged \/ f = NoFile)
  BY DEF PowerLoss
<1>2. f \in Files /\ Whole(f)
  BY DEF IInv, TypeOK
<1>3. f.safe = TRUE /\ f.safe \in BOOLEAN /\ f.parses \in BOOLEAN
  BY <1>2 DEF Whole, Files, NoFile, Corrupt
<1>4. (f.parses /\ f.safe) = f.parses
  BY <1>3
<1>5. final' = [f EXCEPT !.parses = f.parses, !.safe = f.safe]
  BY <1>1, <1>3, <1>4
<1>6. final' = f
  BY <1>2, <1>5 DEF Files
<1> QED
  BY <1>1, <1>6 DEF PowerLoss

\* Every step keeps the types.
LEMMA TypeStep ==
  ASSUME IInv, [Next]_vars
  PROVE  TypeOK'
<1> USE BoundsAssumption DEF IInv, TypeOK, Temps, Files, Goto
<1>1. ASSUME NEW p \in Procs, PersistToken(p)
      PROVE  TypeOK'
  BY <1>1 DEF PersistToken, fileVars, writeVars, NoFile
<1>2. ASSUME NEW p \in Procs, Create(p)
      PROVE  TypeOK'
  BY <1>2 DEF Create, fileVars, writeVars, NoFile
<1>3. ASSUME NEW p \in Procs, Write(p)
      PROVE  TypeOK'
  BY <1>3 DEF Write, Fill, fileVars, writeVars, NoFile
<1>4. ASSUME NEW p \in Procs, Sync(p)
      PROVE  TypeOK'
  BY <1>4 DEF Sync, Fill, fileVars, writeVars, NoFile
<1>5. ASSUME NEW p \in Procs, Fail(p)
      PROVE  TypeOK'
  BY <1>5 DEF Fail, Return, fileVars, writeVars, NoFile
<1>6. ASSUME NEW p \in Procs, Rename(p)
      PROVE  TypeOK'
  BY <1>6 DEF Rename, Return, Good, fileVars, writeVars, NoFile
<1>7. ASSUME NEW p \in Procs, MigrateStat(p)
      PROVE  TypeOK'
  BY <1>7 DEF MigrateStat, fileVars, writeVars, NoFile
<1>8. ASSUME NEW p \in Procs, MigrateRead(p)
      PROVE  TypeOK'
  BY <1>8 DEF MigrateRead, fileVars, writeVars, NoFile
<1>9. ASSUME NEW p \in Procs, MigrateRemove(p)
      PROVE  TypeOK'
  BY <1>9 DEF MigrateRemove, fileVars, writeVars, NoFile
<1>10. ASSUME NEW r \in Readers, Open(r)
      PROVE  TypeOK'
  BY <1>10 DEF Open, fileVars, writeVars, NoFile
<1>11. ASSUME NEW r \in Readers, Delete(r)
      PROVE  TypeOK'
  BY <1>11 DEF Delete, fileVars, writeVars, NoFile
<1>12. CASE Age
  BY <1>12 DEF Age, HasTemp, fileVars, writeVars, NoFile
<1>13. CASE Cleanup
  <2>1. \A p \in old : p \in Procs /\ wpc[p] \in {"write", "sync", "rename"}
    BY DEF HasTemp
  <2>2. temp' \in [Procs -> {"none", "empty", "written", "synced", "gone"}]
    BY <1>13 DEF Cleanup
  <2> QED
    BY <1>13, <2>1, <2>2 DEF Cleanup, fileVars
<1>14. CASE WriteBack
  BY <1>14 DEF WriteBack, fileVars, writeVars, NoFile
<1>15. CASE DaemonCrash
  BY <1>15 DEF DaemonCrash, Die, fileVars, Procs
<1>16. CASE PowerLoss
  <2>1. final' \in Files /\ stable' \in Files
    BY <1>16, PowerLossKeeps
  <2>2. damaged' \in BOOLEAN
    BY <1>16 DEF PowerLoss
  <2> QED
    BY <1>16, <2>1, <2>2 DEF PowerLoss, Die
<1>17. ASSUME NEW g \in Migrators, MigratorCrash(g)
      PROVE  TypeOK'
  BY <1>17 DEF MigratorCrash, Die, fileVars
<1>18. CASE UNCHANGED vars
  BY <1>18 DEF vars, fileVars, writeVars
<1> QED
  BY <1>1, <1>2, <1>3, <1>4, <1>5, <1>6, <1>7, <1>8, <1>9, <1>10, <1>11, <1>12, <1>13, <1>14, <1>15, <1>16, <1>17, <1>18 DEF Next, Step

\* Every step keeps the temporary files as the rename needs them.
LEMMA TempsStep ==
  ASSUME IInv, [Next]_vars
  PROVE  Temps'
<1> USE BoundsAssumption DEF IInv, TypeOK, Temps, HasTemp, Goto
<1>1. ASSUME NEW p \in Procs, PersistToken(p)
      PROVE  Temps'
  BY <1>1 DEF PersistToken, writeVars
<1>2. ASSUME NEW p \in Procs, Create(p)
      PROVE  Temps'
  BY <1>2 DEF Create, writeVars
<1>3. ASSUME NEW p \in Procs, Write(p)
      PROVE  Temps'
  BY <1>3 DEF Write, Fill, writeVars
<1>4. ASSUME NEW p \in Procs, Sync(p)
      PROVE  Temps'
  BY <1>4 DEF Sync, Fill, writeVars
<1>5. ASSUME NEW p \in Procs, Fail(p)
      PROVE  Temps'
  BY <1>5 DEF Fail, Return, writeVars
<1>6. ASSUME NEW p \in Procs, Rename(p)
      PROVE  Temps'
  BY <1>6 DEF Rename, Return, Good, writeVars
<1>7. ASSUME NEW p \in Procs, MigrateStat(p)
      PROVE  Temps'
  BY <1>7 DEF MigrateStat, writeVars
<1>8. ASSUME NEW p \in Procs, MigrateRead(p)
      PROVE  Temps'
  BY <1>8 DEF MigrateRead, writeVars
<1>9. ASSUME NEW p \in Procs, MigrateRemove(p)
      PROVE  Temps'
  BY <1>9 DEF MigrateRemove, writeVars
<1>10. ASSUME NEW r \in Readers, Open(r)
      PROVE  Temps'
  BY <1>10 DEF Open, writeVars
<1>11. ASSUME NEW r \in Readers, Delete(r)
      PROVE  Temps'
  BY <1>11 DEF Delete, writeVars
<1>12. CASE Age
  BY <1>12 DEF Age, HasTemp, writeVars
<1>13. CASE Cleanup
  BY <1>13 DEF Cleanup, writeVars
<1>14. CASE WriteBack
  BY <1>14 DEF WriteBack, writeVars
<1>15. CASE DaemonCrash
  BY <1>15 DEF DaemonCrash, Die, writeVars
<1>16. CASE PowerLoss
  BY <1>16 DEF PowerLoss, Die, NoFile, writeVars
<1>17. ASSUME NEW g \in Migrators, MigratorCrash(g)
      PROVE  Temps'
  BY <1>17 DEF MigratorCrash, Die, writeVars
<1>18. CASE UNCHANGED vars
  BY <1>18 DEF vars, fileVars, writeVars, HasTemp
<1> QED
  BY <1>1, <1>2, <1>3, <1>4, <1>5, <1>6, <1>7, <1>8, <1>9, <1>10, <1>11, <1>12, <1>13, <1>14, <1>15, <1>16, <1>17, <1>18 DEF Next, Step

\* Every step keeps the file whole.
LEMMA WholeStep ==
  ASSUME IInv, [Next]_vars
  PROVE  (Whole(final) /\ Whole(stable))'
<1> USE BoundsAssumption DEF IInv, TypeOK, Temps, Whole, Goto
<1>1. ASSUME NEW p \in Procs, PersistToken(p)
      PROVE  (Whole(final) /\ Whole(stable))'
  BY <1>1 DEF PersistToken, fileVars, Files, NoFile, Corrupt
<1>2. ASSUME NEW p \in Procs, Create(p)
      PROVE  (Whole(final) /\ Whole(stable))'
  BY <1>2 DEF Create, fileVars, Files, NoFile, Corrupt
<1>3. ASSUME NEW p \in Procs, Write(p)
      PROVE  (Whole(final) /\ Whole(stable))'
  BY <1>3 DEF Write, Fill, fileVars, Files, NoFile, Corrupt
<1>4. ASSUME NEW p \in Procs, Sync(p)
      PROVE  (Whole(final) /\ Whole(stable))'
  BY <1>4 DEF Sync, Fill, fileVars, Files, NoFile, Corrupt
<1>5. ASSUME NEW p \in Procs, Fail(p)
      PROVE  (Whole(final) /\ Whole(stable))'
  BY <1>5 DEF Fail, Return, fileVars, Files, NoFile, Corrupt
<1>6. ASSUME NEW p \in Procs, Rename(p)
      PROVE  (Whole(final) /\ Whole(stable))'
  BY <1>6 DEF Rename, Return, Good, fileVars, Files, NoFile, Corrupt
<1>7. ASSUME NEW p \in Procs, MigrateStat(p)
      PROVE  (Whole(final) /\ Whole(stable))'
  BY <1>7 DEF MigrateStat, fileVars, Files, NoFile, Corrupt
<1>8. ASSUME NEW p \in Procs, MigrateRead(p)
      PROVE  (Whole(final) /\ Whole(stable))'
  BY <1>8 DEF MigrateRead, fileVars, Files, NoFile, Corrupt
<1>9. ASSUME NEW p \in Procs, MigrateRemove(p)
      PROVE  (Whole(final) /\ Whole(stable))'
  BY <1>9 DEF MigrateRemove, fileVars, Files, NoFile, Corrupt
<1>10. ASSUME NEW r \in Readers, Open(r)
      PROVE  (Whole(final) /\ Whole(stable))'
  BY <1>10 DEF Open, fileVars, Files, NoFile, Corrupt
<1>11. ASSUME NEW r \in Readers, Delete(r)
      PROVE  (Whole(final) /\ Whole(stable))'
  BY <1>11 DEF Delete, fileVars, Files, NoFile, Corrupt
<1>12. CASE Age
  BY <1>12 DEF Age, HasTemp, fileVars, Files, NoFile, Corrupt
<1>13. CASE Cleanup
  BY <1>13 DEF Cleanup, fileVars, Files, NoFile, Corrupt
<1>14. CASE WriteBack
  BY <1>14 DEF WriteBack, fileVars, Files, NoFile, Corrupt
<1>15. CASE DaemonCrash
  BY <1>15 DEF DaemonCrash, Die, fileVars, Files, NoFile, Corrupt
<1>16. CASE PowerLoss
  BY <1>16, PowerLossKeeps
<1>17. ASSUME NEW g \in Migrators, MigratorCrash(g)
      PROVE  (Whole(final) /\ Whole(stable))'
  BY <1>17 DEF MigratorCrash, Die, fileVars, Files, NoFile, Corrupt
<1>18. CASE UNCHANGED vars
  BY <1>18 DEF vars, fileVars, writeVars
<1> QED
  BY <1>1, <1>2, <1>3, <1>4, <1>5, <1>6, <1>7, <1>8, <1>9, <1>10, <1>11, <1>12, <1>13, <1>14, <1>15, <1>16, <1>17, <1>18 DEF Next, Step

\* Every step keeps track of what was damaged.
LEMMA KeptStep ==
  ASSUME IInv, [Next]_vars
  PROVE  Kept'
<1> USE BoundsAssumption DEF IInv, TypeOK, Whole, Kept, Goto
<1>1. ASSUME NEW p \in Procs, PersistToken(p)
      PROVE  Kept'
  BY <1>1 DEF PersistToken, fileVars, writeVars, Files, NoFile, Corrupt
<1>2. ASSUME NEW p \in Procs, Create(p)
      PROVE  Kept'
  BY <1>2 DEF Create, fileVars, writeVars, Files, NoFile, Corrupt
<1>3. ASSUME NEW p \in Procs, Write(p)
      PROVE  Kept'
  BY <1>3 DEF Write, Fill, fileVars, writeVars, Files, NoFile, Corrupt
<1>4. ASSUME NEW p \in Procs, Sync(p)
      PROVE  Kept'
  BY <1>4 DEF Sync, Fill, fileVars, writeVars, Files, NoFile, Corrupt
<1>5. ASSUME NEW p \in Procs, Fail(p)
      PROVE  Kept'
  BY <1>5 DEF Fail, Return, fileVars, writeVars, Files, NoFile, Corrupt
<1>6. ASSUME NEW p \in Procs, Rename(p)
      PROVE  Kept'
  BY <1>6 DEF Rename, Return, Good, fileVars, writeVars, Files, NoFile, Corrupt
<1>7. ASSUME NEW p \in Procs, MigrateStat(p)
      PROVE  Kept'
  BY <1>7 DEF MigrateStat, fileVars, writeVars, Files, NoFile, Corrupt
<1>8. ASSUME NEW p \in Procs, MigrateRead(p)
      PROVE  Kept'
  BY <1>8 DEF MigrateRead, fileVars, writeVars, Files, NoFile, Corrupt
<1>9. ASSUME NEW p \in Procs, MigrateRemove(p)
      PROVE  Kept'
  BY <1>9 DEF MigrateRemove, fileVars, writeVars, Files, NoFile, Corrupt
<1>10. ASSUME NEW r \in Readers, Open(r)
      PROVE  Kept'
  BY <1>10 DEF Open, fileVars, writeVars, Files, NoFile, Corrupt
<1>11. ASSUME NEW r \in Readers, Delete(r)
      PROVE  Kept'
  BY <1>11 DEF Delete, fileVars, writeVars, Files, NoFile, Corrupt
<1>12. CASE Age
  BY <1>12 DEF Age, HasTemp, fileVars, writeVars, Files, NoFile, Corrupt
<1>13. CASE Cleanup
  BY <1>13 DEF Cleanup, fileVars, writeVars, Files, NoFile, Corrupt
<1>14. CASE WriteBack
  BY <1>14 DEF WriteBack, fileVars, writeVars, Files, NoFile, Corrupt
<1>15. CASE DaemonCrash
  BY <1>15 DEF DaemonCrash, Die, fileVars, writeVars, Files, NoFile, Corrupt
<1>16. CASE PowerLoss
  BY <1>16, PowerLossKeeps DEF PowerLoss, Die
<1>17. ASSUME NEW g \in Migrators, MigratorCrash(g)
      PROVE  Kept'
  BY <1>17 DEF MigratorCrash, Die, fileVars, writeVars, Files, NoFile, Corrupt
<1>18. CASE UNCHANGED vars
  BY <1>18 DEF vars, fileVars, writeVars
<1> QED
  BY <1>1, <1>2, <1>3, <1>4, <1>5, <1>6, <1>7, <1>8, <1>9, <1>10, <1>11, <1>12, <1>13, <1>14, <1>15, <1>16, <1>17, <1>18 DEF Next, Step

\* The invariant holds initially and after every step.
THEOREM Inductive == Spec => []IInv
<1>1. Init => IInv
  <2> SUFFICES ASSUME Init PROVE IInv
    OBVIOUS
  <2>1. TypeOK
    <3>1. final \in Files /\ stable \in Files /\ legacy \in Files
      <4>1. NoFile \in Files /\ Good(1, TRUE) \in Files /\ Corrupt \in Files
        BY BoundsAssumption DEF Files, NoFile, Good, Corrupt
      <4> QED
        BY <4>1 DEF Init
    <3>2. damaged \in BOOLEAN
      BY DEF Init
    <3> QED
      BY <3>1, <3>2, BoundsAssumption DEF Init, TypeOK
  <2>2. Temps /\ Kept
    BY DEF Init, Temps, Kept
  <2>3. Whole(final) /\ Whole(stable)
    BY DEF Init, Whole, Good
  <2> QED
    BY <2>1, <2>2, <2>3 DEF IInv
<1>2. IInv /\ [Next]_vars => IInv'
  <2> SUFFICES ASSUME IInv, [Next]_vars PROVE IInv'
    OBVIOUS
  <2> QED
    BY TypeStep, TempsStep, WholeStep, KeptStep DEF IInv
<1> QED
  BY <1>1, <1>2, PTL DEF Spec

\* Every variable keeps its type, and a running call's temporary file exists only
\* between CreateTemp and its rename or removal.
THEOREM TypeCorrect == Spec => []TypeOK
  BY Inductive, PTL DEF IInv

\* No crash leaves half a token at the final path (persist.go:82-119).
THEOREM FileNeverTorn == Spec => []NeverTorn
<1>1. IInv => NeverTorn
  BY DEF IInv, Whole, NeverTorn
<1> QED
  BY <1>1, Inductive, PTL

\* A file disappears only by a known damage.
LEMMA FileKept ==
  ASSUME IInv, [Next]_vars, final # NoFile, final' = NoFile
  PROVE  damaged'
<1>1. ASSUME NEW p \in Procs, Step(p)
      PROVE  FALSE
  BY <1>1 DEF Step, PersistToken, Create, Write, Sync, Fill, Fail, Rename, Good, NoFile, MigrateStat,
              MigrateRead, MigrateRemove, fileVars
<1>2. ASSUME NEW r \in Readers, Open(r) \/ Delete(r)
      PROVE  damaged'
  BY <1>2 DEF Open, Delete, fileVars, IInv, Kept
<1>3. CASE Age \/ Cleanup \/ WriteBack \/ DaemonCrash \/ UNCHANGED vars
  BY <1>3 DEF Age, Cleanup, WriteBack, DaemonCrash, vars, fileVars
<1>4. CASE PowerLoss
  BY <1>4, PowerLossKeeps
<1>5. ASSUME NEW g \in Migrators, MigratorCrash(g)
      PROVE  FALSE
  BY <1>5 DEF MigratorCrash, fileVars
<1> QED
  BY <1>1, <1>2, <1>3, <1>4, <1>5 DEF Next

\* A persist file stays until a power loss takes its directory entry, unless it
\* was corrupt at first (persist.go:281-300).
THEOREM SavedIsKept == Spec => KeptOnceSaved
<1>1. IInv /\ [Next]_vars => [final # NoFile /\ final' = NoFile => damaged']_vars
  BY FileKept
<1> QED
  BY <1>1, Inductive, PTL DEF Spec, KeptOnceSaved

\* Migration never leaves a key without its token (persist.go:173-208).
THEOREM MigrationKeeps == Spec => MigrationKeepsToken
<1>1. IInv /\ [Next]_vars
        => [legacy # NoFile \/ final # NoFile
              => legacy' # NoFile \/ final' # NoFile \/ damaged']_vars
  <2> SUFFICES ASSUME IInv, [Next]_vars, legacy # NoFile, final = NoFile, legacy' = NoFile, final' = NoFile
               PROVE  damaged'
    BY FileKept
  <2>1. PICK p \in Procs : MigrateRemove(p)
    BY DEF Next, Step, PersistToken, Create, Write, Sync, Fill, Fail, Rename, MigrateStat, MigrateRead,
           Open, Delete, Age, Cleanup, WriteBack, DaemonCrash, PowerLoss, MigratorCrash, vars, fileVars
  <2> QED
    BY <2>1 DEF MigrateRemove, IInv, Kept
<1> QED
  BY <1>1, Inductive, PTL DEF Spec, MigrationKeepsToken
==============================================================================

---------------------------- MODULE SetupProofs ----------------------------
(***************************************************************************)
(* Proofs about Setup, for any number of processes, users, executables and *)
(* edits and any number of commands.                                       *)
(***************************************************************************)
EXTENDS Setup, TLAPS

-----------------------------------------------------------------------------
(* The inductive invariant. *)

\* The records runSetupInstall may build, and the arguments an entry may have:
\* those it had at first, or those an install wrote.
InstallsOf(f) ==
  UNION { { [flags |-> f, args |-> InstallArgs(f, params, headers)] :
              headers \in SetToSeqs(DOMAIN f.requestHeaders) } :
          params \in SetToSeqs(DOMAIN f.extraParams) }
Installs == UNION { InstallsOf(f) : f \in { f \in Flags : validate(f) } }
KnownArgs == UserArgs \cup { i.args : i \in Installs }

Files == [users : [Users -> [command : Paths, args : KnownArgs]], edits : SUBSET Edits]

Records ==
  [pc : {"idle", "confirm", "backup", "write", "stop", "delete"},
   cmd : {None, "install", "migrate", "upgrade"}, exe : Paths \cup {None},
   config : Files \cup {None}, targets : SUBSET Users, install : Installs \cup {None},
   backup : BOOLEAN, old : SUBSET Paths]

\* A command that has not written yet.
Unwritten(r) == r.pc \in {"confirm", "backup", "write"}

\* A command at work has loaded a file, and an install its arguments.
Sound(r) ==
  /\ r \in Records
  /\ r.pc # "idle" => r.exe \in Paths
  /\ Unwritten(r) => r.config \in Files /\ r.config.edits \subseteq made
  /\ r.cmd = "install" => r.install \in Installs
  /\ r.pc = "delete" => r.old # {}
  /\ r.exe \notin r.old

Types ==
  /\ kubeconfig \in Files /\ kubeconfig.edits \subseteq made
  /\ disk \subseteq Paths
  /\ made \subseteq Edits /\ backups \subseteq made /\ unprotected \subseteq made
  /\ proc \in [Procs -> Records]
  /\ \A p \in Procs : Sound(proc[p])

\* A command that has made its backup and is about to write cannot lose an edit.
Saved ==
  /\ EditsRecoverable
  /\ \A p \in Procs : proc[p].pc = "write" /\ proc[p].backup
                        => made \subseteq backups \cup unprotected

\* The daemon binaries that a file's entries name.
Named(file) == { file.users[u].command : u \in UsersWith(file, DaemonPaths) }

\* What keeps a command from breaking an entry: its own binary and the ones its
\* copy of the file names are there, the entries an upgrade leaves alone do not
\* name what it will delete, and after its write no entry does.
Safe(r, file, there) ==
  r # Idle =>
    /\ r.exe \in there
    /\ Unwritten(r) => Named(r.config) \subseteq there
    /\ Unwritten(r) /\ r.cmd = "upgrade" =>
         \A u \in UsersWith(r.config, DaemonPaths) \ r.targets :
           r.config.users[u].command \notin r.old
    /\ r.pc \in {"stop", "delete"} => Named(file) \cap r.old = {}

\* While commands do not overlap there is one at most, and it is safe.
Runnable ==
  alone => /\ Named(kubeconfig) \subseteq disk
           /\ \A p, q \in Procs : proc[p] # Idle /\ proc[q] # Idle => p = q
           /\ \A p \in Procs : Safe(proc[p], kubeconfig, disk)

IInv == Types /\ Saved /\ Runnable

-----------------------------------------------------------------------------
(* The steps. *)

LEMMA IdleIsSound == Idle \in Records /\ Sound(Idle)
<1>1. Idle \in Records
  BY DEF Idle, Records
<1> QED
  BY <1>1, SetupAssumption DEF Sound, Unwritten, Idle

\* What a command knows when it has loaded the file.
Loaded(r, x) ==
  /\ r \in Records
  /\ r.pc \in {"confirm", "stop"} /\ r.exe = x /\ r.config = kubeconfig
  /\ r.cmd = "install" => r.install \in Installs
  /\ x \notin r.old /\ (r.pc = "stop" => r.old = {})
  /\ r.cmd = "upgrade" =>
       \A u \in UsersWith(kubeconfig, DaemonPaths) \ r.targets :
         kubeconfig.users[u].command \notin r.old

\* Each of the three commands starts so.
LEMMA StartLoads ==
  ASSUME Types, NEW p \in Procs, NEW x \in Paths, NEW b \in BOOLEAN,
         \/ \E u \in Users, f \in Flags : runSetupInstall(p, x, u, f, b)
         \/ \E c \in Contexts \cup {None} : runSetupMigrate(p, x, c, b)
         \/ \E keepOld \in BOOLEAN : runSetupUpgrade(p, x, b, keepOld)
  PROVE  \E r : Start(p, x, r) /\ Loaded(r, x)
<1>1. ASSUME NEW u \in Users, NEW f \in Flags, runSetupInstall(p, x, u, f, b)
      PROVE  \E r : Start(p, x, r) /\ Loaded(r, x)
  <2>1. PICK params \in SetToSeqs(DOMAIN f.extraParams),
             headers \in SetToSeqs(DOMAIN f.requestHeaders) :
          Start(p, x, Command("confirm", "install", x, {u},
                              [flags |-> f, args |-> InstallArgs(f, params, headers)], b, {}))
    BY <1>1 DEF runSetupInstall
  <2> DEFINE i == [flags |-> f, args |-> InstallArgs(f, params, headers)]
  <2>2. i \in Installs
    <3>1. i \in InstallsOf(f)
      <4> DEFINE With(ps) == { [flags |-> f, args |-> InstallArgs(f, ps, hs)] :
                                 hs \in SetToSeqs(DOMAIN f.requestHeaders) }
      <4>1. i \in With(params)
        BY Zenon
      <4> QED
        BY <4>1, Zenon DEF InstallsOf
    <3>2. validate(f)
      BY <1>1, Zenon DEF runSetupInstall
    <3> QED
      BY <3>1, <3>2, Zenon DEF Installs
  <2> HIDE DEF i
  <2> DEFINE r == Command("confirm", "install", x, {u}, i, b, {})
  <2>3. Start(p, x, r)
    BY <2>1, Zenon DEF i
  <2>4. Loaded(r, x)
    BY <2>2, SetupAssumption DEF Loaded, Records, Types, Command
  <2> QED
    BY <2>3, <2>4
<1>2. ASSUME NEW c \in Contexts \cup {None}, runSetupMigrate(p, x, c, b)
      PROVE  \E r : Start(p, x, r) /\ Loaded(r, x)
  <2>1. PICK entries \in SUBSET Users :
          Start(p, x, Command("confirm", "migrate", x, entries, None, b, {}))
    BY <1>2 DEF runSetupMigrate, UsersWith
  <2> DEFINE r == Command("confirm", "migrate", x, entries, None, b, {})
  <2>2. Start(p, x, r)
    BY <2>1
  <2>3. Loaded(r, x)
    BY SetupAssumption DEF Loaded, Records, Types, Command
  <2> QED
    BY <2>2, <2>3
<1>3. ASSUME NEW keepOld \in BOOLEAN, runSetupUpgrade(p, x, b, keepOld)
      PROVE  \E r : Start(p, x, r) /\ Loaded(r, x)
  <2> DEFINE mine == UsersWith(kubeconfig, DaemonPaths)
             stale == { u \in mine : kubeconfig.users[u].command # x }
             names == { kubeconfig.users[u].command : u \in stale }
             old == IF keepOld THEN {} ELSE names
             l == IF stale = {} THEN "stop" ELSE "confirm"
             r == Command(l, "upgrade", x, stale, None, b, old)
  <2>1. Start(p, x, r)
    BY <1>3, Zenon DEF runSetupUpgrade
  <2>2. stale \subseteq Users /\ names \subseteq Paths /\ x \notin names /\ (stale = {} => names = {})
    BY DEF Types, Files, UsersWith
  <2>3. \A u \in mine \ stale : kubeconfig.users[u].command = x
    OBVIOUS
  <2>4. l \in {"confirm", "stop"} /\ (l = "stop" => stale = {})
    OBVIOUS
  <2>5. old \subseteq Paths /\ x \notin old /\ (stale = {} => old = {})
    BY <2>2
  <2> HIDE DEF stale, old, l
  <2>7. r \in Records
    BY <2>2, <2>4, <2>5 DEF Records, Types, Command
  <2>8. Loaded(r, x)
    BY <2>3, <2>4, <2>5, <2>7 DEF Loaded, Command
  <2> QED
    BY <2>1, <2>8
<1> QED
  BY <1>1, <1>2, <1>3

\* A step of one process that leaves the edits alone keeps the others sound.
LEMMA OthersSound ==
  ASSUME Types, NEW p \in Procs, NEW r \in Records, Sound(r),
         proc' = [proc EXCEPT ![p] = r], UNCHANGED made
  PROVE  proc' \in [Procs -> Records] /\ \A q \in Procs : Sound(proc[q])'
<1>1. proc' \in [Procs -> Records]
  BY DEF Types
<1>2. ASSUME NEW q \in Procs PROVE Sound(proc'[q])
  BY <1>2 DEF Types
<1>3. ASSUME NEW q \in Procs PROVE Sound(proc[q])'
  BY <1>2, <1>3 DEF Sound, Unwritten
<1> QED
  BY <1>1, <1>3

\* The file a command writes is one.
LEMMA ChangedIsFile ==
  ASSUME NEW r \in Records, Sound(r), Unwritten(r)
  PROVE  /\ Changed(r) \in Files /\ Changed(r).edits = r.config.edits
         /\ \A u \in Users :
              /\ u \in r.targets => Changed(r).users[u].command = r.exe
              /\ u \notin r.targets => Changed(r).users[u] = r.config.users[u]
<1>1. r.config \in Files /\ r.exe \in Paths /\ (r.cmd = "install" => r.install \in Installs)
  BY DEF Sound, Unwritten
<1> DEFINE a(u) == IF r.cmd = "install" THEN r.install.args ELSE r.config.users[u].args
           e(u) == IF u \notin r.targets THEN r.config.users[u] ELSE Entry(r.exe, a(u))
<1>2. \A u \in Users : a(u) \in KnownArgs
  BY <1>1 DEF KnownArgs, Files
<1>3. \A u \in Users : e(u) \in [command : Paths, args : KnownArgs]
  BY <1>1, <1>2 DEF Files, Entry
<1>4. \A u \in Users : u \in r.targets => e(u).command = r.exe
  BY DEF Entry
<1>5. Changed(r) = [r.config EXCEPT !.users = [u \in Users |-> e(u)]]
  BY Zenon DEF Changed
<1>6. \A u \in Users : u \notin r.targets => e(u) = r.config.users[u]
  OBVIOUS
<1> HIDE DEF e
<1> QED
  BY <1>1, <1>3, <1>4, <1>5, <1>6 DEF Files

\* Each step keeps the types.
LEMMA TypesStep ==
  ASSUME Types, Next
  PROVE  Types'
<1>1. ASSUME NEW p \in Procs, NEW x \in Paths, NEW r, Start(p, x, r), Loaded(r, x)
      PROVE  Types'
  <2>1. Sound(r) /\ r \in Records
    BY <1>1 DEF Types, Loaded, Sound, Unwritten
  <2>2. proc' \in [Procs -> Records] /\ \A q \in Procs : Sound(proc[q])'
    BY <1>1, <2>1, OthersSound DEF Start
  <2> QED
    BY <1>1, <2>2 DEF Types, Start
<1>2. ASSUME NEW p \in Procs, Confirm(p) \/ backupKubeconfig(p)
      PROVE  Types'
  <2> DEFINE r == [proc[p] EXCEPT !.pc = proc'[p].pc]
  <2>1. Sound(proc[p]) /\ proc[p] \in Records
    BY DEF Types
  <2>2. proc' = [proc EXCEPT ![p] = r] /\ proc'[p].pc \in {"backup", "write"} /\ Unwritten(proc[p])
    BY <1>2, <2>1 DEF Confirm, backupKubeconfig, Unwritten, Types, Records
  <2>3. Sound(r) /\ r \in Records
    BY <2>1, <2>2 DEF Sound, Records, Unwritten
  <2>4. proc' \in [Procs -> Records] /\ \A q \in Procs : Sound(proc[q])'
    <3> HIDE DEF r
    <3> QED
      BY <1>2, <2>2, <2>3, OthersSound DEF Confirm, backupKubeconfig
  <2> QED
    BY <1>2, <2>4 DEF Types, Confirm, backupKubeconfig
<1>3. ASSUME NEW p \in Procs, safeWriteKubeconfig(p)
      PROVE  Types'
  <2> DEFINE r == IF proc[p].cmd = "upgrade" THEN [proc[p] EXCEPT !.pc = "stop"] ELSE Idle
  <2>1. Sound(proc[p]) /\ proc[p] \in Records /\ Unwritten(proc[p])
    BY <1>3 DEF Types, safeWriteKubeconfig, Unwritten
  <2>2. proc' = [proc EXCEPT ![p] = r]
    BY <1>3 DEF safeWriteKubeconfig, Types
  <2>3. Sound([proc[p] EXCEPT !.pc = "stop"]) /\ [proc[p] EXCEPT !.pc = "stop"] \in Records
    BY <2>1 DEF Sound, Records, Unwritten
  <2>4. Sound(r) /\ r \in Records
    BY <2>3, IdleIsSound
  <2>5. proc' \in [Procs -> Records] /\ \A q \in Procs : Sound(proc[q])'
    <3> HIDE DEF r
    <3> QED
      BY <1>3, <2>2, <2>4, OthersSound DEF safeWriteKubeconfig
  <2>6. kubeconfig' \in Files /\ kubeconfig'.edits \subseteq made
    BY <1>3, <2>1, ChangedIsFile DEF safeWriteKubeconfig, Sound
  <2>7. unprotected' \subseteq made
    BY <1>3 DEF safeWriteKubeconfig, Types
  <2> QED
    BY <1>3, <2>5, <2>6, <2>7 DEF Types, safeWriteKubeconfig
<1>4. ASSUME NEW p \in Procs, StopDaemon(p)
      PROVE  Types'
  <2> DEFINE r == IF proc[p].old = {} THEN Idle ELSE [proc[p] EXCEPT !.pc = "delete"]
  <2>1. Sound(proc[p]) /\ proc[p] \in Records /\ proc[p].pc = "stop"
    BY <1>4 DEF Types, StopDaemon
  <2>2. proc' = [proc EXCEPT ![p] = r]
    BY <1>4 DEF StopDaemon, Types
  <2>3. proc[p].old # {} => /\ Sound([proc[p] EXCEPT !.pc = "delete"])
                            /\ [proc[p] EXCEPT !.pc = "delete"] \in Records
    BY <2>1 DEF Sound, Records, Unwritten
  <2>4. Sound(r) /\ r \in Records
    BY <2>3, IdleIsSound
  <2>5. proc' \in [Procs -> Records] /\ \A q \in Procs : Sound(proc[q])'
    <3> HIDE DEF r
    <3> QED
      BY <1>4, <2>2, <2>4, OthersSound DEF StopDaemon
  <2> QED
    BY <1>4, <2>5 DEF Types, StopDaemon
<1>5. ASSUME NEW p \in Procs, NEW q \in Paths, deleteOldBinary(p, q)
      PROVE  Types'
  <2> DEFINE less == proc[p].old \ {q}
             r == IF proc[p].old = {q} THEN Idle ELSE [proc[p] EXCEPT !.old = less]
  <2>1. Sound(proc[p]) /\ proc[p] \in Records /\ proc[p].pc = "delete" /\ q \in proc[p].old
    BY <1>5 DEF Types, deleteOldBinary
  <2>2. proc' = [proc EXCEPT ![p] = r]
    BY <1>5 DEF deleteOldBinary, Types
  <2>3. proc[p].old # {q} => /\ Sound([proc[p] EXCEPT !.old = less])
                             /\ [proc[p] EXCEPT !.old = less] \in Records
    BY <2>1 DEF Sound, Records, Unwritten
  <2>4. Sound(r) /\ r \in Records
    BY <2>3, IdleIsSound
  <2>5. proc' \in [Procs -> Records] /\ \A o \in Procs : Sound(proc[o])'
    <3> HIDE DEF r
    <3> QED
      BY <1>5, <2>2, <2>4, OthersSound DEF deleteOldBinary
  <2> QED
    BY <1>5, <2>5 DEF Types, deleteOldBinary
<1>6. ASSUME NEW p \in Procs, Abandon(p)
      PROVE  Types'
  <2>1. proc' \in [Procs -> Records] /\ \A q \in Procs : Sound(proc[q])'
    BY <1>6, IdleIsSound, OthersSound DEF Abandon
  <2> QED
    BY <1>6, <2>1 DEF Types, Abandon
<1>7. ASSUME NEW e \in Edits, EditFile(e)
      PROVE  Types'
  <2>1. kubeconfig' \in Files /\ kubeconfig'.edits \subseteq made'
    BY <1>7 DEF EditFile, Types, Files
  <2>2. \A q \in Procs : Sound(proc[q])'
    BY <1>7 DEF EditFile, Types, Sound, Unwritten
  <2> QED
    BY <1>7, <2>1, <2>2 DEF Types, EditFile
<1>8. ASSUME NEW q \in Paths, PlaceBinary(q)
      PROVE  Types'
    BY <1>8 DEF PlaceBinary, Types, Sound, Unwritten
<1> QED
  BY <1>1, <1>2, <1>3, <1>4, <1>5, <1>6, <1>7, <1>8, StartLoads DEF Next

\* Each step keeps the edits recoverable: a backup is taken of the file as it is.
LEMMA SavedStep ==
  ASSUME Types, Saved, Next
  PROVE  Saved'
<1> USE DEF Saved, EditsRecoverable
<1>1. ASSUME NEW p \in Procs, NEW x \in Paths, NEW r, Start(p, x, r), Loaded(r, x)
      PROVE  Saved'
  BY <1>1 DEF Start, Loaded, Types
<1>2. ASSUME NEW p \in Procs, Confirm(p)
      PROVE  Saved'
  <2>1. \A q \in Procs : /\ proc'[q].backup = proc[q].backup
                         /\ proc'[q].pc = "write" => proc[q].pc = "write" \/ ~proc[q].backup
    BY <1>2 DEF Confirm, Types, Records
  <2> QED
    BY <1>2, <2>1 DEF Confirm
<1>3. ASSUME NEW p \in Procs, backupKubeconfig(p)
      PROVE  Saved'
  BY <1>3 DEF backupKubeconfig
<1>4. ASSUME NEW p \in Procs, safeWriteKubeconfig(p)
      PROVE  Saved'
  <2>1. \A q \in Procs : proc'[q].pc = "write" => proc'[q] = proc[q]
    BY <1>4 DEF safeWriteKubeconfig, Types, Records, Idle
  <2>2. kubeconfig'.edits = proc[p].config.edits
    BY <1>4, ChangedIsFile DEF safeWriteKubeconfig, Types, Unwritten
  <2>3. made \subseteq kubeconfig'.edits \cup backups \cup unprotected'
    BY <1>4, <2>2 DEF safeWriteKubeconfig
  <2>4. unprotected \subseteq unprotected'
    BY <1>4 DEF safeWriteKubeconfig
  <2> QED
    BY <1>4, <2>1, <2>3, <2>4 DEF safeWriteKubeconfig
<1>5. ASSUME NEW p \in Procs, StopDaemon(p) \/ Abandon(p) \/ \E q \in Paths : deleteOldBinary(p, q)
      PROVE  Saved'
  <2>1. \A q \in Procs : proc'[q].pc = "write" => proc'[q] = proc[q]
    BY <1>5 DEF StopDaemon, Abandon, deleteOldBinary, Types, Records, Idle
  <2> QED
    BY <1>5, <2>1 DEF StopDaemon, Abandon, deleteOldBinary
<1>6. ASSUME NEW e \in Edits, EditFile(e)
      PROVE  Saved'
  <2>1. kubeconfig'.edits = kubeconfig.edits \cup {e}
    BY <1>6 DEF EditFile, Types, Files
  <2> QED
    BY <1>6, <2>1 DEF EditFile
<1>7. ASSUME NEW q \in Paths, PlaceBinary(q)
      PROVE  Saved'
  BY <1>7 DEF PlaceBinary
<1> QED
  BY <1>1, <1>2, <1>3, <1>4, <1>5, <1>6, <1>7, StartLoads DEF Next

\* A step of the one command there is.
LEMMA RunnableBy ==
  ASSUME Types, Runnable, alone, NEW p \in Procs, NEW r, proc' = [proc EXCEPT ![p] = r],
         \A q \in Procs \ {p} : proc[q] = Idle,
         Named(kubeconfig') \subseteq disk', Safe(r, kubeconfig', disk')
  PROVE  Runnable'
<1>1. \A q \in Procs : proc'[q] = IF q = p THEN r ELSE Idle
  BY DEF Types
<1>2. \A q \in Procs : Safe(proc'[q], kubeconfig', disk')
  BY <1>1 DEF Safe
<1>3. \A q, o \in Procs : proc'[q] # Idle /\ proc'[o] # Idle => q = o
  BY <1>1
<1> QED
  BY <1>2, <1>3 DEF Runnable, Named, UsersWith

\* Each step keeps the entries runnable: an upgrade deletes a binary only when the
\* file it wrote names it no more.
LEMMA RunnableStep ==
  ASSUME Types, Runnable, Next, alone'
  PROVE  Runnable'
<1>1. ASSUME NEW p \in Procs, NEW x \in Paths, NEW r, Start(p, x, r), Loaded(r, x)
      PROVE  Runnable'
  <2>1. alone /\ \A q \in Procs : proc[q] = Idle
    BY <1>1 DEF Start
  <2>2. Named(kubeconfig) \subseteq disk
    BY <2>1 DEF Runnable
  <2>3. Safe(r, kubeconfig, disk)
    BY <1>1, <2>2 DEF Start, Loaded, Safe, Unwritten
  <2> QED
    BY <1>1, <2>1, <2>2, <2>3, RunnableBy DEF Start
<1>2. ASSUME NEW p \in Procs, proc[p] # Idle, alone
      PROVE  /\ \A q \in Procs \ {p} : proc[q] = Idle
             /\ Safe(proc[p], kubeconfig, disk)
             /\ Named(kubeconfig) \subseteq disk
             /\ Sound(proc[p]) /\ proc[p] \in Records
  BY <1>2 DEF Runnable, Types
<1>3. ASSUME NEW p \in Procs, Confirm(p) \/ backupKubeconfig(p)
      PROVE  Runnable'
  <2> DEFINE r == [proc[p] EXCEPT !.pc = proc'[p].pc]
  <2>a. proc[p].pc # "idle" /\ alone
    BY <1>3 DEF Confirm, backupKubeconfig
  <2>1. proc[p] # Idle /\ alone
    BY <2>a DEF Idle
  <2>2. proc' = [proc EXCEPT ![p] = r] /\ proc'[p].pc \in {"backup", "write"} /\ Unwritten(proc[p])
    BY <1>2, <1>3, <2>1 DEF Confirm, backupKubeconfig, Unwritten, Types, Records
  <2>3. Safe(r, kubeconfig, disk)
    BY <1>2, <2>1, <2>2 DEF Safe, Unwritten, Records
  <2>4. UNCHANGED <<kubeconfig, disk>>
    BY <1>3 DEF Confirm, backupKubeconfig
  <2> HIDE DEF r
  <2> QED
    BY <1>2, <2>1, <2>2, <2>3, <2>4, RunnableBy
<1>4. ASSUME NEW p \in Procs, safeWriteKubeconfig(p)
      PROVE  Runnable'
  <2> DEFINE stop == [proc[p] EXCEPT !.pc = "stop"]
             r == IF proc[p].cmd = "upgrade" THEN stop ELSE Idle
  <2>1. proc[p] # Idle /\ alone /\ Unwritten(proc[p])
    BY <1>4 DEF safeWriteKubeconfig, Idle, Unwritten
  <2>2. proc' = [proc EXCEPT ![p] = r] /\ kubeconfig' = Changed(proc[p]) /\ disk' = disk
    BY <1>4 DEF safeWriteKubeconfig, Types
  <2>3. \A u \in UsersWith(kubeconfig', DaemonPaths) :
          \/ u \in proc[p].targets /\ kubeconfig'.users[u].command = proc[p].exe
          \/ /\ u \in UsersWith(proc[p].config, DaemonPaths) \ proc[p].targets
             /\ kubeconfig'.users[u].command = proc[p].config.users[u].command
    BY <1>2, <2>1, <2>2, ChangedIsFile DEF UsersWith
  <2>4. Named(kubeconfig') \subseteq disk
    BY <1>2, <2>1, <2>3 DEF Named, Safe
  <2>5. proc[p].cmd = "upgrade" => Named(kubeconfig') \cap proc[p].old = {}
    BY <1>2, <2>1, <2>3 DEF Named, Safe, Sound
  <2>6. proc[p].cmd = "upgrade" => Safe(stop, kubeconfig', disk)
    BY <1>2, <2>1, <2>5 DEF Safe, Unwritten, Records
  <2>7. Safe(r, kubeconfig', disk)
    BY <2>6 DEF Safe
  <2> HIDE DEF r
  <2> QED
    BY <1>2, <2>1, <2>2, <2>4, <2>7, RunnableBy
<1>5. ASSUME NEW p \in Procs, StopDaemon(p)
      PROVE  Runnable'
  <2> DEFINE delete == [proc[p] EXCEPT !.pc = "delete"]
             r == IF proc[p].old = {} THEN Idle ELSE delete
  <2>1. proc[p] # Idle /\ alone
    BY <1>5 DEF StopDaemon, Idle
  <2>2. proc' = [proc EXCEPT ![p] = r] /\ UNCHANGED <<kubeconfig, disk>> /\ proc[p].pc = "stop"
    BY <1>5 DEF StopDaemon, Types
  <2>3. Safe(delete, kubeconfig, disk)
    BY <1>2, <2>1, <2>2 DEF Safe, Unwritten, Records
  <2>4. Safe(r, kubeconfig, disk)
    BY <2>3 DEF Safe
  <2> HIDE DEF r
  <2> QED
    BY <1>2, <2>1, <2>2, <2>4, RunnableBy
<1>6. ASSUME NEW p \in Procs, NEW q \in Paths, deleteOldBinary(p, q)
      PROVE  Runnable'
  <2> DEFINE less == proc[p].old \ {q}
             some == [proc[p] EXCEPT !.old = less]
             r == IF proc[p].old = {q} THEN Idle ELSE some
  <2>1. proc[p] # Idle /\ alone
    BY <1>6 DEF deleteOldBinary, Idle
  <2>2. /\ proc' = [proc EXCEPT ![p] = r] /\ kubeconfig' = kubeconfig /\ proc[p].pc = "delete"
        /\ q \in proc[p].old /\ disk \ {q} \subseteq disk'
    BY <1>6 DEF deleteOldBinary, Types
  <2>3. Named(kubeconfig) \subseteq disk'
    BY <1>2, <2>1, <2>2 DEF Safe
  <2>4. Safe(some, kubeconfig, disk')
    BY <1>2, <2>1, <2>2 DEF Safe, Sound, Unwritten, Records
  <2>5. Safe(r, kubeconfig, disk')
    BY <2>4 DEF Safe
  <2> HIDE DEF r
  <2> QED
    BY <1>2, <2>1, <2>2, <2>3, <2>5, RunnableBy
<1>7. ASSUME NEW p \in Procs, Abandon(p)
      PROVE  Runnable'
  <2>1. proc[p] # Idle /\ alone /\ UNCHANGED <<kubeconfig, disk>>
    BY <1>7 DEF Abandon
  <2>2. Safe(Idle, kubeconfig, disk)
    BY DEF Safe
  <2> QED
    BY <1>2, <1>7, <2>1, <2>2, RunnableBy DEF Abandon
<1>8. ASSUME NEW e \in Edits, EditFile(e)
      PROVE  Runnable'
  <2>1. alone /\ kubeconfig'.users = kubeconfig.users /\ UNCHANGED <<proc, disk>>
    BY <1>8 DEF EditFile, Types, Files
  <2>2. Named(kubeconfig') = Named(kubeconfig)
    BY <2>1 DEF Named, UsersWith
  <2>3. \A p \in Procs : Safe(proc[p], kubeconfig', disk)
    BY <2>1, <2>2 DEF Runnable, Safe
  <2> QED
    BY <2>1, <2>2, <2>3 DEF Runnable, Named, UsersWith
<1>9. ASSUME NEW q \in Paths, PlaceBinary(q)
      PROVE  Runnable'
  <2>1. alone /\ disk \subseteq disk' /\ UNCHANGED <<proc, kubeconfig>>
    BY <1>9 DEF PlaceBinary
  <2>2. \A p \in Procs : Safe(proc[p], kubeconfig, disk')
    BY <2>1 DEF Runnable, Safe
  <2> QED
    BY <2>1, <2>2 DEF Runnable, Named, UsersWith
<1> QED
  BY <1>1, <1>3, <1>4, <1>5, <1>6, <1>7, <1>8, <1>9, StartLoads DEF Next

-----------------------------------------------------------------------------
(* The theorems. *)

\* The invariant holds in every reachable state.
LEMMA AlwaysIInv == Spec => []IInv
<1>1. Init => IInv
  <2> SUFFICES ASSUME Init PROVE IInv
    OBVIOUS
  <2>1. PICK args \in UserArgs :
          kubeconfig = [users |-> [u \in Users |-> Entry(FirstCommand[u], args)], edits |-> {}]
    BY DEF Init
  <2>2. kubeconfig \in Files /\ kubeconfig.edits = {}
    BY <2>1, SetupAssumption DEF Files, Entry, KnownArgs
  <2>3. Range(FirstCommand) \subseteq Paths
    BY SetupAssumption DEF Range
  <2>4. proc \in [Procs -> Records] /\ \A p \in Procs : proc[p] = Idle
    BY IdleIsSound DEF Init
  <2>5. Types
    BY <2>2, <2>3, <2>4, IdleIsSound DEF Init, Types
  <2>6. Saved
    BY <2>4 DEF Init, Saved, EditsRecoverable, Idle
  <2>7. \A u \in Users : kubeconfig.users[u].command = FirstCommand[u]
    BY <2>1 DEF Entry
  <2>8. Named(kubeconfig) \subseteq disk
    BY <2>7, SetupAssumption DEF Init, Named, UsersWith, DaemonPaths, Range
  <2>9. Runnable
    BY <2>4, <2>8 DEF Runnable, Safe
  <2> QED
    BY <2>5, <2>6, <2>9 DEF IInv
<1>2. IInv /\ [Next]_vars => IInv'
  <2> SUFFICES ASSUME IInv, [Next]_vars PROVE IInv'
    OBVIOUS
  <2>1. CASE Next
    <3>1. Types' /\ Saved'
      BY <2>1, TypesStep, SavedStep DEF IInv
    <3>2. Runnable'
      <4>1. CASE alone'
        BY <2>1, <4>1, RunnableStep DEF IInv
      <4>2. CASE ~alone'
        BY <4>2 DEF Runnable
      <4> QED
        BY <4>1, <4>2
    <3> QED
      BY <3>1, <3>2 DEF IInv
  <2>2. CASE UNCHANGED vars
    <3>1. Types'
      BY <2>2 DEF IInv, Types, Sound, Unwritten, vars
    <3>2. Saved'
      BY <2>2 DEF IInv, Saved, EditsRecoverable, vars
    <3>3. Runnable'
      BY <2>2 DEF IInv, Runnable, Safe, Named, UsersWith, vars
    <3> QED
      BY <3>1, <3>2, <3>3 DEF IInv
  <2> QED
    BY <2>1, <2>2
<1> QED
  BY <1>1, <1>2, PTL DEF Spec

\* The types, and that no command is going to delete its own executable.
THEOREM TypeCorrect == Spec => []TypeOK
<1>1. IInv => TypeOK
  <2> SUFFICES ASSUME IInv PROVE TypeOK
    OBVIOUS
  <2>1. \A u \in Users : kubeconfig.users[u].command \in Paths
    BY DEF IInv, Types, Files
  <2>2. \A p \in Procs :
          /\ proc[p].pc \in {"idle", "confirm", "backup", "write", "stop", "delete"}
          /\ proc[p].exe \notin proc[p].old
          /\ proc[p].pc = "delete" => proc[p].old # {}
    BY DEF IInv, Types, Sound, Records
  <2> QED
    BY <2>1, <2>2 DEF IInv, Types, TypeOK
<1> QED
  BY <1>1, AlwaysIInv, PTL

\* As long as commands do not overlap, none of them, finished, failed or killed,
\* leaves an entry whose daemon binary does not exist.
THEOREM UpgradeKeepsEntries == Spec => []EntriesRunnable
<1>1. IInv => EntriesRunnable
  BY DEF IInv, Runnable, EntriesRunnable, Named
<1> QED
  BY <1>1, AlwaysIInv, PTL

\* With --backup no edit of another tool is lost, except one made between the
\* backup and the write, however many commands run at once.
THEOREM BackupsKeepEdits == Spec => []EditsRecoverable
<1>1. IInv => EditsRecoverable
  BY DEF IInv, Saved
<1> QED
  BY <1>1, AlwaysIInv, PTL

=============================================================================

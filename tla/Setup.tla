--------------------------------- MODULE Setup ---------------------------------
(***************************************************************************)
(* The setup commands (install, migrate, upgrade) and the kubeconfig file. *)
(* A command loads the file, asks for confirmation or tries a login, backs *)
(* the file up, and replaces it with its changed copy of what it loaded;   *)
(* an upgrade then stops the daemon and deletes the binaries its entries   *)
(* used to name.  The file is shared with kubectl and editors and nobody   *)
(* holds a lock on it: other tools may write between any two steps, and a  *)
(* command may fail or be killed between any two steps.                    *)
(*                                                                         *)
(* Stopping the daemon has no effect on the state kept here; what it does  *)
(* to the daemon is in DaemonLifecycle.  A file is replaced by writing and *)
(* syncing a temporary file and renaming it (safeWriteFile), one step here *)
(* because nobody reads the temporary file; PersistFile takes the same     *)
(* pattern apart.                                                          *)
(***************************************************************************)
EXTENDS ExecArgs, FiniteSets

CONSTANTS
  Procs,      \* processes that run setup commands
  Users,      \* user names in the kubeconfig
  Contexts,   \* context names
  UserOf,     \* context |-> the user it names
  Paths,      \* absolute paths of executables
  BaseOf,     \* path |-> base name, without .exe
  Edits,      \* changes other tools make to the rest of the file
  FirstCommand, \* user |-> the executable its entry names at first
  UserArgs,   \* the exec arguments entries start with
  Flags,      \* the configurations setup install is called with
  MaxCommands,\* bound: how many commands are started
  None

ASSUME SetupAssumption ==
  /\ UserOf \in [Contexts -> Users]
  /\ DOMAIN BaseOf = Paths
  /\ FirstCommand \in [Users -> Paths]
  /\ None \notin Paths \cup Contexts \cup {"install", "migrate", "upgrade"}
  /\ MaxCommands \in Nat

VARIABLES
  kubeconfig,   \* the file: the users' exec entries and the edits it contains
  disk,         \* the executables that exist
  backups,      \* the edits contained in some backup file
  proc,         \* what each setup process is doing
  made,         \* history: edits made so far
  unprotected,  \* history: edits no backup was going to hold
  alone,        \* history: no two setup commands have overlapped
  started       \* how many commands have been started

vars == <<kubeconfig, disk, backups, proc, made, unprotected, alone, started>>

-----------------------------------------------------------------------------

upstreamBases == {"kubelogin", "kubectl-oidc_login"}
DaemonBases == {"kubelogin-daemon", "kubelogin-daemon-v2"}

\* isKubeloginDaemonCommand: the base name starts with kubelogin-daemon.
isKubeloginDaemonCommand(path) == BaseOf[path] \in DaemonBases

\* parseOIDCFromKubeconfig: the commands login, check and refresh accept.
loginAccepts(path) == BaseOf[path] \in upstreamBases \cup {"kubelogin-daemon"}

UpstreamPaths == { q \in Paths : BaseOf[q] \in upstreamBases }
DaemonPaths == { q \in Paths : isKubeloginDaemonCommand(q) }

Entry(command, args) == [command |-> command, args |-> args]

Idle == [pc |-> "idle", cmd |-> None, exe |-> None, config |-> None,
         targets |-> {}, install |-> None, backup |-> FALSE, old |-> {}]

\* A command run by executable x that has loaded the file.
Command(pc, cmd, x, targets, install, b, old) ==
  [pc |-> pc, cmd |-> cmd, exe |-> x, config |-> kubeconfig,
   targets |-> targets, install |-> install, backup |-> b, old |-> old]

UsersWith(config, commands) ==
  { u \in Users : config.users[u] # None /\ config.users[u].command \in commands }

Init ==
  /\ disk = { q \in Range(FirstCommand) : isKubeloginDaemonCommand(q) }
  /\ \E args \in UserArgs :
       kubeconfig = [users |-> [u \in Users |-> Entry(FirstCommand[u], args)],
                     edits |-> {}]
  /\ backups = {}
  /\ proc = [p \in Procs |-> Idle]
  /\ made = {}
  /\ unprotected = {}
  /\ alone = TRUE
  /\ started = 0

-----------------------------------------------------------------------------
(* Starting a command, up to the point where it waits for the user.        *)

Start(p, x, r) ==
  /\ proc[p] = Idle
  /\ started < MaxCommands
  /\ x \in disk
  /\ isKubeloginDaemonCommand(x)
  /\ proc' = [proc EXCEPT ![p] = r]
  /\ alone' = (alone /\ \A q \in Procs : proc[q] = Idle)
  /\ started' = started + 1
  /\ UNCHANGED <<kubeconfig, disk, backups, made, unprotected>>

\* runSetupInstall: the entry is built, the file loaded, and the login tried.
\* (The context that --cluster adds is not part of the file as kept here.)
runSetupInstall(p, x, u, f, b) ==
  /\ validate(f)
  /\ \E params \in SetToSeqs(DOMAIN f.extraParams),
        headers \in SetToSeqs(DOMAIN f.requestHeaders) :
       Start(p, x, Command("confirm", "install", x, {u},
                           [flags |-> f, args |-> InstallArgs(f, params, headers)], b, {}))

\* runSetupMigrate: the users of the upstream binary, or those of one context.
runSetupMigrate(p, x, contextFilter, b) ==
  LET entries == { u \in UsersWith(kubeconfig, UpstreamPaths) :
                     contextFilter # None => UserOf[contextFilter] = u }
  IN /\ entries # {}
     /\ Start(p, x, Command("confirm", "migrate", x, entries, None, b, {}))

\* Mutant: the entry's own binary is not excluded from the old ones.
UpgradeListsAll(p, x, b, keepOld) ==
  LET mine == UsersWith(kubeconfig, DaemonPaths)
      old == { kubeconfig.users[u].command : u \in mine }
  IN /\ mine # {}
     /\ Start(p, x, Command("confirm", "upgrade", x, mine, None, b,
                            IF keepOld THEN {} ELSE old))

\* runSetupUpgrade: the users whose daemon binary is not this one.  When every
\* entry names this binary only the daemon is stopped.
runSetupUpgrade(p, x, b, keepOld) ==
  LET mine == UsersWith(kubeconfig, DaemonPaths)
      stale == { u \in mine : kubeconfig.users[u].command # x }
      old == { kubeconfig.users[u].command : u \in stale }
  IN /\ mine # {}
     /\ Start(p, x, Command(IF stale = {} THEN "stop" ELSE "confirm", "upgrade", x,
                            stale, None, b, IF keepOld THEN {} ELSE old))

-----------------------------------------------------------------------------
(* The steps of a command.                                                 *)

\* The user agrees, or the test login succeeds (or is skipped).
Confirm(p) ==
  /\ proc[p].pc = "confirm"
  /\ proc' = [proc EXCEPT ![p].pc = IF proc[p].backup THEN "backup" ELSE "write"]
  /\ UNCHANGED <<kubeconfig, disk, backups, made, unprotected, alone, started>>

\* Mutant: the backup holds what the command loaded, not what the file holds.
BackupOfLoaded(p) ==
  /\ proc[p].pc = "backup"
  /\ backups' = backups \cup proc[p].config.edits
  /\ proc' = [proc EXCEPT ![p].pc = "write"]
  /\ UNCHANGED <<kubeconfig, disk, made, unprotected, alone, started>>

\* backupKubeconfig copies the file as it is now.
backupKubeconfig(p) ==
  /\ proc[p].pc = "backup"
  /\ backups' = backups \cup kubeconfig.edits
  /\ proc' = [proc EXCEPT ![p].pc = "write"]
  /\ UNCHANGED <<kubeconfig, disk, made, unprotected, alone, started>>

\* The entries a command writes: the loaded ones with its targets changed.
Changed(r) ==
  [r.config EXCEPT !.users =
     [u \in Users |-> IF u \notin r.targets THEN r.config.users[u]
                      ELSE Entry(r.exe, IF r.cmd = "install" THEN r.install.args
                                        ELSE r.config.users[u].args)]]

\* safeWriteKubeconfig: the changed copy of the loaded file replaces the file.
safeWriteKubeconfig(p) ==
  /\ proc[p].pc = "write"
  /\ kubeconfig' = Changed(proc[p])
  /\ unprotected' = IF proc[p].backup THEN unprotected
                    ELSE unprotected \cup (kubeconfig.edits \ proc[p].config.edits)
  /\ proc' = [proc EXCEPT ![p] = IF @.cmd = "upgrade" THEN [@ EXCEPT !.pc = "stop"]
                                 ELSE Idle]
  /\ UNCHANGED <<disk, backups, made, alone, started>>

\* The daemon is asked to stop, or killed, or keeps running.
StopDaemon(p) ==
  /\ proc[p].pc = "stop"
  /\ proc' = [proc EXCEPT ![p] = IF @.old = {} THEN Idle
                                 ELSE [@ EXCEPT !.pc = "delete"]]
  /\ UNCHANGED <<kubeconfig, disk, backups, made, unprotected, alone, started>>

\* Mutant: old binaries may be deleted before the file is replaced.
DeleteBeforeWrite(p, q) ==
  /\ proc[p].pc \in {"write", "delete"}
  /\ q \in proc[p].old
  /\ disk' = disk \ {q}
  /\ proc' = [proc EXCEPT ![p].old = @ \ {q}]
  /\ UNCHANGED <<kubeconfig, backups, made, unprotected, alone, started>>

\* deleteOldBinary, for each old path: nothing is deleted when the new binary
\* is gone, and a failed delete is only a warning.
deleteOldBinary(p, q) ==
  /\ proc[p].pc = "delete"
  /\ q \in proc[p].old
  /\ disk' \in {disk, IF proc[p].exe \in disk /\ q # proc[p].exe
                      THEN disk \ {q} ELSE disk}
  /\ proc' = [proc EXCEPT ![p] = IF @.old = {q} THEN Idle
                                 ELSE [proc[p] EXCEPT !.old = @ \ {q}]]
  /\ UNCHANGED <<kubeconfig, backups, made, unprotected, alone, started>>

\* The user declines, a step returns an error before the file is replaced, or
\* the process is killed anywhere.
Abandon(p) ==
  /\ proc[p] # Idle
  /\ proc' = [proc EXCEPT ![p] = Idle]
  /\ UNCHANGED <<kubeconfig, disk, backups, made, unprotected, alone, started>>

-----------------------------------------------------------------------------
(* The rest of the machine.                                                *)

\* Another tool changes some other part of the file.
EditFile(e) ==
  /\ e \notin made
  /\ kubeconfig' = [kubeconfig EXCEPT !.edits = @ \cup {e}]
  /\ made' = made \cup {e}
  /\ unprotected' = IF \E p \in Procs : proc[p].pc = "write"
                    THEN unprotected \cup {e} ELSE unprotected
  /\ UNCHANGED <<disk, backups, proc, alone, started>>

\* A new version of the program is put on the disk.
PlaceBinary(q) ==
  /\ isKubeloginDaemonCommand(q)
  /\ q \notin disk
  /\ disk' = disk \cup {q}
  /\ UNCHANGED <<kubeconfig, backups, proc, made, unprotected, alone, started>>

Next ==
  \/ \E p \in Procs, x \in Paths, b \in BOOLEAN :
       \/ \E u \in Users, f \in Flags : runSetupInstall(p, x, u, f, b)
       \/ \E c \in Contexts \cup {None} : runSetupMigrate(p, x, c, b)
       \/ \E keepOld \in BOOLEAN : runSetupUpgrade(p, x, b, keepOld)
  \/ \E p \in Procs :
       \/ Confirm(p)
       \/ backupKubeconfig(p)
       \/ safeWriteKubeconfig(p)
       \/ StopDaemon(p)
       \/ \E q \in Paths : deleteOldBinary(p, q)
       \/ Abandon(p)
  \/ \E e \in Edits : EditFile(e)
  \/ \E q \in Paths : PlaceBinary(q)

Spec == Init /\ [][Next]_vars

-----------------------------------------------------------------------------
(* Properties.                                                             *)

\* Every entry names a path, a process waits only for a command it runs, and
\* the paths it will delete are never its own executable.
TypeOK ==
  /\ disk \subseteq Paths
  /\ backups \subseteq made /\ unprotected \subseteq made /\ made \subseteq Edits
  /\ kubeconfig.edits \subseteq made
  /\ \A u \in Users : kubeconfig.users[u] # None =>
                        kubeconfig.users[u].command \in Paths
  /\ \A p \in Procs :
       /\ proc[p].pc \in {"idle", "confirm", "backup", "write", "stop", "delete"}
       /\ proc[p].exe \notin proc[p].old
       /\ proc[p].pc = "delete" => proc[p].old # {}

\* Upgrading never leaves an entry without its program: as long as no two
\* setup commands have overlapped, every entry that names a daemon binary names
\* one that exists, at every step of every command and wherever a command
\* fails or is killed.  (Two overlapping commands can write an old entry back
\* after the binary was deleted: the file is not locked.)
EntriesRunnable ==
  alone => \A u \in UsersWith(kubeconfig, DaemonPaths) :
             kubeconfig.users[u].command \in disk

\* A setup command replaces the file with a changed copy of what it loaded
\* earlier, so it drops what others wrote while it waited for the user.  With
\* --backup nothing is lost: an edit that was not made between a backup and
\* the write that follows it is in the file or in some backup, also when
\* several commands run at once.
EditsRecoverable ==
  made \subseteq kubeconfig.edits \cup backups \cup unprotected

\* Where arguments are spelled plainly, the key under which login stores a token
\* (parseExecArgs, resolveFromKubeconfig, buildCacheKey) is the key under which
\* get-token looks for it.
SameKeys(args) ==
  getTokenAccepts(args) /\ PlainArgs(args)
    => \A login \in LoginKeys(args), kubectl \in GetTokenKeys(args) : login = kubectl

\* That is so for every entry in the file that login accepts.
KeysAgree ==
  \A u \in Users :
    LET entry == kubeconfig.users[u]
    IN entry # None /\ loginAccepts(entry.command) => SameKeys(entry.args)

\* What setup install writes is read by get-token as what install was given.
Faithful(i) == getTokenAccepts(i.args) /\ getTokenConfig(i.args) = i.flags

\* The entry setup install writes makes get-token use the configuration that
\* install was called with: nothing is lost or changed on the way through the
\* arguments, in whatever order the maps are written, where no scope and no
\* parameter or header is one that pflag takes apart (PlainFlags).
InstallRoundTrip ==
  \A p \in Procs :
    proc[p].cmd = "install" /\ PlainFlags(proc[p].install.flags) => Faithful(proc[p].install)

=============================================================================

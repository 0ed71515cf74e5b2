------------------------------ MODULE Releases ------------------------------
(***************************************************************************)
(* The operations CLI of the bridge and the Mac it works on: setup,        *)
(* install, start, stop, serve, update, rollback and uninstall (ops/cli.ts),*)
(* the plans of update.ts, rollback.ts and uninstall.ts, the lifecycle     *)
(* driver of macos-system.ts and the Serve routes of tailscale-serve.ts.   *)
(*                                                                         *)
(* A command is a list of steps, one for each call of the lifecycle driver *)
(* or of the Serve driver.  Any step but the stop of an update may throw,  *)
(* the CLI may die between two steps, and the daemon and the other users   *)
(* of the Serve table work in between.                                     *)
(***************************************************************************)
EXTENDS Integers, Sequences, FiniteSets

CONSTANTS
    Versions,        \* releases
    Bad,             \* those whose bundle does not match its manifest
    WithExtension,   \* those that ship the Pi extension
    Ports,           \* ports the bridge may be configured for
    SessionsInside,  \* the Pi session directory lies under the install root
    MaxEvents,       \* bound on what the daemon commits
    MaxBackups,      \* bound on backups
    MaxGen,          \* bound on host generations
    None

Class == {"binary_only", "reversible_migration", "restore_required"}
Mode == {"retain_data", "remove_state", "full"}

ASSUME ReleasesAssumption ==
    /\ Bad \subseteq Versions /\ WithExtension \subseteq Versions
    /\ None \notin Versions \cup Ports
    /\ SessionsInside \in BOOLEAN
    /\ MaxEvents \in Nat /\ MaxBackups \in Nat /\ MaxGen \in Nat

VARIABLES
    files,       \* what is installed: daemon, extension, config and LaunchAgent plist
    db,          \* the main database file: generation, events, damage
    wal,         \* its write-ahead log: events, and the file they extend
    loaded,      \* launchd runs the agent
    backups,     \* the backup directories, oldest first
    routes,      \* the Serve table: who serves each port
    marker,      \* serve-owner.json: the port the bridge says it owns
    sessions,    \* the Pi session directory exists
    cli,         \* the command under way
    hardKilled   \* launchd once killed the daemon before it closed its store

vars == <<files, db, wal, loaded, backups, routes, marker, sessions, cli, hardKilled>>

Nobody == [port \in Ports |-> "none"]
Idle == [op |-> "none", phase |-> "report", cls |-> None, target |-> None, port |-> None,
         todo |-> <<>>, backup |-> 0, listed |-> Nobody, optIn |-> FALSE, mode |-> None,
         ok |-> FALSE, rolledBack |-> FALSE, resetDone |-> FALSE,
         before |-> [files |-> None, events |-> {}]]

Committed == db.events \cup wal.added

Init ==
    /\ files = [daemon |-> None, extension |-> None, config |-> None, plist |-> None]
    /\ db = [gen |-> 1, events |-> {}, damaged |-> FALSE]
    /\ wal = [base |-> {}, added |-> {}]
    /\ loaded = FALSE
    /\ backups = <<>>
    /\ routes = Nobody
    /\ marker = None
    /\ sessions = FALSE
    /\ cli = Idle
    /\ hardKilled = FALSE

-----------------------------------------------------------------------------
(* Plans.                                                                  *)

stagesForMigrationClass(class) ==
    <<"preflight", "verify", "stop", "backup">>
        \o (IF class = "binary_only" THEN <<>> ELSE <<"migrate">>)
        \o (IF class = "restore_required" THEN <<"reset">> ELSE <<>>)
        \o <<"swapDaemon", "swapExtension", "start", "ready">>

\* The backup directory is put back under a daemon that still runs.
swapBackLive == <<"restoreConfig", "restorePlist", "restoreDaemon", "restoreExtension", "restoreDb">>

swapBack == <<"stop", "restoreConfig", "restorePlist", "restoreDaemon", "restoreExtension", "restoreDb">>

\* The outdated order the head comment of rollback.ts still describes.
resetBeforeSwap(class) ==
    <<"preflight", "find">>
        \o (IF class = "restore_required" THEN <<"stop", "reset">> ELSE <<>>)
        \o swapBack \o <<"start", "ready">>

stagesForRollback(class) ==
    <<"preflight", "find">> \o swapBack
        \o (IF class = "restore_required" THEN <<"stop", "reset">> ELSE <<>>)
        \o <<"start", "ready">>

\* The two rollback hooks of an update.
restoreHook(class) ==
    swapBack \o (IF class = "restore_required" THEN <<>> ELSE <<"start", "ready">>)
resetHook == <<"reset", "start", "ready">>

applyServeRoute == <<"list", "set", "mark">>
removeOwnedServeRoute == <<"findOwned", "off", "unmark">>


-----------------------------------------------------------------------------
(* Commands.                                                               *)

Begin(op, todo) == [Idle EXCEPT !.op = op, !.phase = "run", !.todo = todo]

\* The login shell's environment is captured before anything is written.
installSteps ==
    <<"captureLoginEnv", "writeDaemon", "writeConfig", "writePlist", "bootstrap", "ready">>
        \o applyServeRoute

handleInstall(v, port) ==
    /\ cli.op = "none"
    /\ cli' = [Begin("install", installSteps) EXCEPT !.target = v, !.port = port]
    /\ UNCHANGED <<files, db, wal, loaded, backups, routes, marker, sessions, hardKilled>>

\* Tailscale is probed and the release installed; the copy of the CLI that
\* follows changes nothing modelled here.
handleSetup(v, port) ==
    /\ cli.op = "none"
    /\ cli' = [Begin("install", <<"preflight">> \o installSteps)
                 EXCEPT !.target = v, !.port = port]
    /\ UNCHANGED <<files, db, wal, loaded, backups, routes, marker, sessions, hardKilled>>

\* startConfigured: a daemon that answers is left alone.
handleStart ==
    /\ cli.op = "none" /\ files.config # None
    /\ cli' = [Begin("start", (IF loaded THEN <<>> ELSE <<"start", "ready">>) \o applyServeRoute)
                 EXCEPT !.port = files.config.port]
    /\ UNCHANGED <<files, db, wal, loaded, backups, routes, marker, sessions, hardKilled>>

handleStop ==
    /\ cli.op = "none" /\ files.config # None
    /\ cli' = Begin("stop", <<"stop">> \o removeOwnedServeRoute)
    /\ UNCHANGED <<files, db, wal, loaded, backups, routes, marker, sessions, hardKilled>>

handleServe(port) ==
    /\ cli.op = "none"
    /\ cli' = [Begin("serve", applyServeRoute) EXCEPT !.port = port]
    /\ UNCHANGED <<files, db, wal, loaded, backups, routes, marker, sessions, hardKilled>>

\* The version compared is the one of the config file, which a swap leaves.
handleUpdate(v, class) ==
    /\ cli.op = "none" /\ files.config # None
    /\ v # files.config.version
    /\ cli' = [Begin("update", stagesForMigrationClass(class))
                 EXCEPT !.target = v, !.cls = class,
                        !.before = [files |-> files, events |-> Committed]]
    /\ UNCHANGED <<files, db, wal, loaded, backups, routes, marker, sessions, hardKilled>>

handleRollback(b, class) ==
    /\ cli.op = "none" /\ files.config # None
    /\ cli' = [Begin("rollback", stagesForRollback(class)) EXCEPT !.cls = class, !.backup = b]
    /\ UNCHANGED <<files, db, wal, loaded, backups, routes, marker, sessions, hardKilled>>

handleUninstall(mode, optIn) ==
    /\ cli.op = "none"
    /\ cli' = [Begin("uninstall", <<"stop">> \o removeOwnedServeRoute \o <<"remove">>)
                 EXCEPT !.mode = mode, !.optIn = optIn]
    /\ UNCHANGED <<files, db, wal, loaded, backups, routes, marker, sessions, hardKilled>>

-----------------------------------------------------------------------------
(* executeUpdate and executeRollback: what follows a phase.                *)

At(step) == cli.todo # <<>> /\ Head(cli.todo) = step
Done == [cli EXCEPT !.todo = Tail(@)]

\* An update that failed restores its backup, if it had one, and then, in the
\* restore_required class, resets the generation whether it restored or not.
ResetNext(c) ==
    IF c.cls = "restore_required" THEN [c EXCEPT !.phase = "reset", !.todo = resetHook]
                                  ELSE [c EXCEPT !.phase = "report", !.todo = <<>>]

Failed(c) ==
    CASE c.op = "update" /\ c.phase = "run" /\ c.backup # 0 ->
             [c EXCEPT !.phase = "restore", !.todo = restoreHook(c.cls)]
      [] c.op = "update" /\ c.phase = "run" /\ c.backup = 0 -> ResetNext(c)
      [] c.phase = "restore" -> ResetNext(c)
      [] OTHER -> [c EXCEPT !.phase = "report", !.todo = <<>>]

Succeeded(c) ==
    CASE c.phase = "run"     -> [c EXCEPT !.phase = "report", !.ok = TRUE]
      [] c.phase = "restore" -> ResetNext([c EXCEPT !.rolledBack = TRUE])
      [] OTHER               -> [c EXCEPT !.phase = "report", !.resetDone = TRUE]

EndPhase ==
    /\ cli.op # "none" /\ cli.phase # "report" /\ cli.todo = <<>>
    /\ cli' = Succeeded(cli)
    /\ UNCHANGED <<files, db, wal, loaded, backups, routes, marker, sessions, hardKilled>>

\* A step throws before it changed anything.  The stop of an update ignores
\* its failure.
Throw ==
    /\ cli.todo # <<>> /\ (Head(cli.todo) = "stop" => cli.op = "stop")
    /\ cli' = Failed(cli)
    /\ UNCHANGED <<files, db, wal, loaded, backups, routes, marker, sessions, hardKilled>>

\* The result is printed, or the CLI dies with no trace of its progress.
Finish ==
    /\ cli.op # "none" /\ cli.phase = "report"
    /\ cli' = Idle
    /\ UNCHANGED <<files, db, wal, loaded, backups, routes, marker, sessions, hardKilled>>

CliDies ==
    /\ cli.op # "none" /\ cli.phase # "report"
    /\ cli' = Idle
    /\ UNCHANGED <<files, db, wal, loaded, backups, routes, marker, sessions, hardKilled>>

-----------------------------------------------------------------------------
(* The lifecycle driver.                                                   *)

\* Opening the store replays the write-ahead log onto whatever file is there.
Opened(d) == [d EXCEPT !.damaged = @ \/ (wal.added # {} /\ wal.base # d.events)]
\* Closing the last connection folds the log into the file.
Closed(d) == [d EXCEPT !.events = @ \cup wal.added]
EmptyLog(d) == [base |-> d.events, added |-> {}]

preflight ==
    /\ At("preflight")
    /\ cli' = Done
    /\ UNCHANGED <<files, db, wal, loaded, backups, routes, marker, sessions, hardKilled>>

verifyTarget ==
    /\ At("verify") /\ cli.target \notin Bad
    /\ cli' = Done
    /\ UNCHANGED <<files, db, wal, loaded, backups, routes, marker, sessions, hardKilled>>

verifyBackup ==
    /\ At("find") /\ cli.backup \in DOMAIN backups
    /\ cli' = Done
    /\ UNCHANGED <<files, db, wal, loaded, backups, routes, marker, sessions, hardKilled>>

\* launchctl bootout: the daemon drains and closes its store, or is killed.
stop(killed) ==
    /\ At("stop")
    /\ killed => loaded /\ wal.added # {}
    /\ loaded' = FALSE
    /\ db' = IF loaded /\ ~killed THEN Closed(db) ELSE db
    /\ wal' = IF loaded /\ ~killed THEN EmptyLog(db') ELSE wal
    /\ hardKilled' = (hardKilled \/ killed)
    /\ cli' = Done
    /\ UNCHANGED <<files, backups, routes, marker, sessions>>

\* The copies of backup(): the main database file, never its log.
backup ==
    /\ At("backup") /\ Len(backups) < MaxBackups
    /\ backups' = Append(backups, [files |-> files, db |-> db])
    /\ cli' = [Done EXCEPT !.backup = Len(backups) + 1]
    /\ UNCHANGED <<files, db, wal, loaded, routes, marker, sessions, hardKilled>>

migrate ==
    /\ At("migrate") /\ ~Opened(db).damaged
    /\ db' = IF loaded THEN db ELSE Closed(db)
    /\ wal' = IF loaded THEN wal ELSE EmptyLog(db')
    /\ cli' = Done
    /\ UNCHANGED <<files, loaded, backups, routes, marker, sessions, hardKilled>>

generationReset ==
    /\ At("reset") /\ ~Opened(db).damaged /\ db.gen < MaxGen
    /\ db' = [(IF loaded THEN db ELSE Closed(db)) EXCEPT !.gen = @ + 1]
    /\ wal' = IF loaded THEN wal ELSE EmptyLog(db')
    /\ cli' = Done
    /\ UNCHANGED <<files, loaded, backups, routes, marker, sessions, hardKilled>>

swapDaemon ==
    /\ At("swapDaemon")
    /\ files' = [files EXCEPT !.daemon = cli.target]
    /\ cli' = Done
    /\ UNCHANGED <<db, wal, loaded, backups, routes, marker, sessions, hardKilled>>

swapExtension ==
    /\ At("swapExtension")
    /\ files' = IF cli.target \in WithExtension
                THEN [files EXCEPT !.extension = cli.target] ELSE files
    /\ cli' = Done
    /\ UNCHANGED <<db, wal, loaded, backups, routes, marker, sessions, hardKilled>>

\* bootstrap, enable and kickstart: the daemon opens its store.
start ==
    /\ At("start") /\ (loaded \/ files.plist # None)
    /\ loaded' = TRUE
    /\ db' = Opened(db)
    /\ cli' = Done
    /\ UNCHANGED <<files, wal, backups, routes, marker, sessions, hardKilled>>

\* launchctl fails or times out with the daemon up all the same.
startThrows ==
    /\ At("start") \/ (At("bootstrap") /\ ~loaded)
    /\ loaded \/ files.plist # None
    /\ loaded' = TRUE
    /\ db' = Opened(db)
    /\ cli' = Failed(cli)
    /\ UNCHANGED <<files, wal, backups, routes, marker, sessions, hardKilled>>

\* installAndVerify bootstraps unconditionally, which a loaded label refuses.
bootstrap ==
    /\ At("bootstrap") /\ ~loaded /\ files.plist # None
    /\ loaded' = TRUE
    /\ db' = Opened(db)
    /\ cli' = Done
    /\ UNCHANGED <<files, wal, backups, routes, marker, sessions, hardKilled>>

verifyRunning ==
    /\ At("ready") /\ loaded /\ ~db.damaged
    /\ cli' = Done
    /\ UNCHANGED <<files, db, wal, loaded, backups, routes, marker, sessions, hardKilled>>

\* restore() puts everything back but the daemon.
restoreAllButDaemon(step, file) ==
    /\ At(step) /\ cli.backup \in DOMAIN backups
    /\ files' = IF backups[cli.backup].files[file] = None \/ file = "daemon" THEN files
                ELSE [files EXCEPT ![file] = backups[cli.backup].files[file]]
    /\ cli' = Done
    /\ UNCHANGED <<db, wal, loaded, backups, routes, marker, sessions, hardKilled>>

\* restore(): what the backup holds replaces what is installed; the database
\* file is renamed over the old one and the old log stays.
restoreFile(step, file) ==
    /\ At(step) /\ cli.backup \in DOMAIN backups
    /\ files' = IF backups[cli.backup].files[file] = None THEN files
                ELSE [files EXCEPT ![file] = backups[cli.backup].files[file]]
    /\ cli' = Done
    /\ UNCHANGED <<db, wal, loaded, backups, routes, marker, sessions, hardKilled>>

restoreDb ==
    /\ At("restoreDb") /\ cli.backup \in DOMAIN backups
    /\ db' = backups[cli.backup].db
    /\ wal' = IF wal.added = {} THEN EmptyLog(db') ELSE wal
    /\ cli' = Done
    /\ UNCHANGED <<files, loaded, backups, routes, marker, sessions, hardKilled>>

writeDaemon ==
    /\ At("writeDaemon")
    /\ files' = [files EXCEPT !.daemon = cli.target]
    /\ cli' = Done
    /\ UNCHANGED <<db, wal, loaded, backups, routes, marker, sessions, hardKilled>>

captureLoginEnv ==
    /\ At("captureLoginEnv")
    /\ cli' = Done
    /\ UNCHANGED <<files, db, wal, loaded, backups, routes, marker, sessions, hardKilled>>

writePlist ==
    /\ At("writePlist")
    /\ files' = [files EXCEPT !.plist = TRUE]
    /\ cli' = Done
    /\ UNCHANGED <<db, wal, loaded, backups, routes, marker, sessions, hardKilled>>

writeConfig ==
    /\ At("writeConfig")
    /\ files' = [files EXCEPT !.config = [version |-> cli.target, port |-> cli.port]]
    /\ cli' = Done
    /\ UNCHANGED <<db, wal, loaded, backups, routes, marker, sessions, hardKilled>>

\* executeUninstall.  The plist, outside the install root, is never removed.
remove ==
    /\ At("remove")
    /\ files' = [daemon |-> None, config |-> None, plist |-> files.plist,
                 extension |-> IF cli.mode = "retain_data" THEN files.extension ELSE None]
    /\ IF cli.mode = "retain_data"
       THEN UNCHANGED <<db, wal, backups, marker>>
       ELSE /\ db' = [gen |-> 1, events |-> {}, damaged |-> FALSE]
            /\ wal' = [base |-> {}, added |-> {}]
            /\ backups' = <<>> /\ marker' = None
    /\ sessions' = (sessions /\ ~cli.optIn /\ (cli.mode = "retain_data" \/ ~SessionsInside))
    /\ cli' = Done
    /\ UNCHANGED <<loaded, routes, hardKilled>>

-----------------------------------------------------------------------------
(* The Serve driver.                                                       *)

\* listRoutes calls a route owned when the marker names its port and target.
Owned(port) == marker = port /\ routes[port] = "bridge"

\* The table is applied without a look at who serves the port.
listAnything ==
    /\ At("list")
    /\ cli' = [Done EXCEPT !.listed = routes]
    /\ UNCHANGED <<files, db, wal, loaded, backups, routes, marker, sessions, hardKilled>>

\* A route of somebody else on the port is refused.
listRoutes ==
    /\ At("list") /\ (routes[cli.port] # "none" => Owned(cli.port))
    /\ cli' = [Done EXCEPT !.listed = routes]
    /\ UNCHANGED <<files, db, wal, loaded, backups, routes, marker, sessions, hardKilled>>

\* tailscale serve --bg: a route the bridge owned on another port stays.
setRoutes ==
    /\ At("set")
    /\ routes' = [routes EXCEPT ![cli.port] = "bridge"]
    /\ cli' = Done
    /\ UNCHANGED <<files, db, wal, loaded, backups, marker, sessions, hardKilled>>

mark ==
    /\ At("mark")
    /\ marker' = cli.port
    /\ cli' = Done
    /\ UNCHANGED <<files, db, wal, loaded, backups, routes, sessions, hardKilled>>

findOwned ==
    /\ At("findOwned")
    /\ cli' = IF \E port \in Ports : Owned(port)
              THEN [Done EXCEPT !.listed = routes, !.port = marker]
              ELSE [cli EXCEPT !.todo = SubSeq(@, 4, Len(@))]
    /\ UNCHANGED <<files, db, wal, loaded, backups, routes, marker, sessions, hardKilled>>

\* setRoutes reads the table again before it removes the owned route.
off ==
    /\ At("off")
    /\ IF Owned(cli.port)
       THEN routes' = [routes EXCEPT ![cli.port] = "none"] /\ cli' = Done
       ELSE cli' = [cli EXCEPT !.todo = SubSeq(@, 3, Len(@))] /\ UNCHANGED routes
    /\ UNCHANGED <<files, db, wal, loaded, backups, marker, sessions, hardKilled>>

unmark ==
    /\ At("unmark")
    /\ marker' = None
    /\ cli' = Done
    /\ UNCHANGED <<files, db, wal, loaded, backups, routes, sessions, hardKilled>>


-----------------------------------------------------------------------------
(* The daemon, Pi and the other users of the Serve table.                  *)

Commit ==
    /\ loaded /\ ~db.damaged
    /\ Cardinality(Committed) < MaxEvents
    /\ LET e == CHOOSE n \in 1 .. MaxEvents : n \notin Committed
       IN wal' = IF wal.added = {} THEN [base |-> db.events, added |-> {e}]
                 ELSE [wal EXCEPT !.added = @ \cup {e}]
    /\ UNCHANGED <<files, db, loaded, backups, routes, marker, sessions, cli, hardKilled>>

PiSavesSession ==
    /\ loaded /\ ~sessions
    /\ sessions' = TRUE
    /\ UNCHANGED <<files, db, wal, loaded, backups, routes, marker, cli, hardKilled>>

OtherService(port, who) ==
    /\ routes[port] # who
    /\ routes' = [routes EXCEPT ![port] = who]
    /\ UNCHANGED <<files, db, wal, loaded, backups, marker, sessions, cli, hardKilled>>

-----------------------------------------------------------------------------
Command ==
    \/ \E v \in Versions \ Bad, port \in Ports : handleInstall(v, port) \/ handleSetup(v, port)
    \/ handleStart \/ handleStop
    \/ \E port \in Ports : handleServe(port)
    \/ \E v \in Versions, class \in Class : handleUpdate(v, class)
    \/ \E b \in 1 .. MaxBackups, class \in Class : handleRollback(b, class)
    \/ \E mode \in Mode, optIn \in BOOLEAN : handleUninstall(mode, optIn)

Step ==
    \/ preflight \/ verifyTarget \/ verifyBackup \/ backup \/ migrate \/ generationReset
    \/ \E killed \in BOOLEAN : stop(killed)
    \/ swapDaemon \/ swapExtension \/ start \/ startThrows \/ bootstrap \/ verifyRunning
    \/ restoreFile("restoreConfig", "config")
    \/ restoreFile("restorePlist", "plist")
    \/ restoreFile("restoreDaemon", "daemon")
    \/ restoreFile("restoreExtension", "extension")
    \/ restoreDb \/ writeDaemon \/ writeConfig \/ writePlist \/ captureLoginEnv \/ remove
    \/ listRoutes \/ setRoutes \/ mark \/ findOwned \/ off \/ unmark
    \/ EndPhase \/ Throw \/ Finish \/ CliDies

World ==
    \/ Commit \/ PiSavesSession
    \/ \E port \in Ports, who \in {"none", "other"} : OtherService(port, who)

Next == Command \/ Step \/ World
Spec == Init /\ [][Next]_vars

-----------------------------------------------------------------------------
(* Properties.                                                             *)

Reporting(op) == cli.op = op /\ cli.phase = "report"

\* What an update or a rollback reports is true of the machine: after ok the
\* daemon of the target runs on everything committed before; after rolledBack
\* the daemon, the config and the events of before are back, and the bridge
\* runs again unless the reset that follows failed (executeUpdate,
\* executeRollback).  Only a daemon that launchd killed before it closed its
\* store, whose log no backup copies, is exempt.
ReportIsTrue ==
    ~hardKilled =>
        /\ Reporting("update") /\ cli.ok =>
               loaded /\ files.daemon = cli.target /\ cli.before.events \subseteq Committed
        /\ Reporting("update") /\ cli.rolledBack =>
               /\ files.daemon = cli.before.files.daemon
               /\ files.config = cli.before.files.config
               /\ cli.before.events \subseteq Committed
               /\ (cli.cls = "restore_required" => cli.resetDone) => loaded
        /\ Reporting("rollback") /\ cli.ok =>
               /\ loaded
               /\ backups[cli.backup].files.config = files.config
               /\ backups[cli.backup].db.events \subseteq Committed

\* A restore_required rollback that succeeds, and an update of that class that
\* was rolled back and reset, leave the restored database exactly one
\* generation ahead of its backup: "the restored database receives exactly
\* one reset" (planRollback).
ExactlyOneReset ==
    /\ cli.cls = "restore_required" /\ cli.phase = "report"
    /\ \/ cli.op = "rollback" /\ cli.ok
       \/ cli.op = "update" /\ cli.rolledBack /\ cli.resetDone
    => db.gen = backups[cli.backup].db.gen + 1

\* No command damages the database, in whatever order commands run, fail and
\* die: only a write-ahead log that a killed daemon left behind, met by a
\* restored file, does (MacLifecycleDriver.restore keeps the old log).
DamageNeedsAKill == db.damaged => hardKilled

\* No command changes a Serve route of another service that was there when the
\* command read the table (applyServeRoute, removeOwnedServeRoute).
ForeignRoutesKept ==
    [][\A port \in Ports :
         cli.op # "none" /\ cli' # cli /\ routes[port] = "other" /\ cli.listed[port] = "other"
             => routes'[port] = "other"]_vars

=============================================================================

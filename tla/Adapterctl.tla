----------------------------- MODULE Adapterctl -----------------------------
(***************************************************************************)
(* The installer, crates/adapterctl: install, uninstall, start/stop, the   *)
(* backup and the upgrade of the Postgres container it manages.  A command *)
(* is a process of its own that walks through its steps (op.pc); every     *)
(* step is one call that changes Docker, the file system or the service    *)
(* manager.  At each step the call may fail or the process may be killed   *)
(* (Abort): both leave everything the earlier steps did.                   *)
(*                                                                         *)
(* External and modelled from how the code uses them: the Docker engine    *)
(* (names are unique; create_volume of an existing name succeeds and       *)
(* changes nothing), the postgres image (POSTGRES_PASSWORD counts only     *)
(* when the data directory is empty) and systemd.  One adapterctl process  *)
(* runs at a time, with one prefix, and other users of the Docker engine   *)
(* change the three names only between commands.                           *)
(***************************************************************************)
EXTENDS Integers

CONSTANTS
    MaxCommands,    \* commands issued in a behaviour
    MaxRows         \* rows the daemon commits in a behaviour

ASSUME InstallerAssumption == MaxCommands \in Nat /\ MaxRows \in Nat

VARIABLES
    network,        \* who owns agent-connector-internal
    volume,         \* agent-connector-pg-data: owner, the role's password, rows
    container,      \* agent-connector-pg
    prefix,         \* adapter.yaml, .env and the binary below --prefix
    service,        \* the systemd unit and the daemon it runs
    files,          \* the two backup paths, each with its .tmp
    op,             \* the running command
    commands,       \* commands issued so far; numbers the generated passwords
    blind           \* an installation took a foreign volume for its own

vars == <<network, volume, container, prefix, service, files, op, commands, blind>>

Owner == {"none", "ours", "foreign"}

\* What a DSN says once it has been parsed: Garbled stands for a password that
\* the URL does not give back.
Unset == 0
Garbled == -1
Password == Garbled..MaxCommands
Dsn == [kind : {"none", "external", "managed"}, password : Password,
        host : {"loopback", "name"}]
NoDsn == [kind |-> "none", password |-> Unset, host |-> "loopback"]
ExternalDsn == [kind |-> "external", password |-> Unset, host |-> "loopback"]

\* What a backup file holds; NoDump where there is no file.
Dump == [rows : -1..MaxRows, whole : BOOLEAN]
NoDump == [rows |-> -1, whole |-> FALSE]
Backup == [tmp : Dump, final : Dump]
NoBackup == [tmp |-> NoDump, final |-> NoDump]

NoVolume == [owner |-> "none", password |-> Unset, rows |-> 0]
NoContainer == [owner |-> "none", running |-> FALSE, published |-> FALSE,
                password |-> Unset]

Storage == {"sqlite", "postgres", "managed"}

Step == {"idle",
         "network", "volume", "container", "new_container", "ready",
         "copy", "yaml", "env", "register", "start",
         "unregister", "files", "purge_data", "purge_container", "purge_remove", "purge_volume",
         "dump", "dumping", "dumped",
         "stop", "remove", "recreate", "restart"}

Idle == [pc |-> "idle", storage |-> "sqlite", password |-> Unset, dsn |-> NoDsn,
         flag |-> FALSE, path |-> "user", exit |-> 0, base |-> 0]

\* The type invariant of the installer's state.
InstallerTypeOK ==
    /\ network \in Owner
    /\ volume \in [owner : Owner, password : 0..MaxCommands, rows : 0..MaxRows]
    /\ container \in [owner : Owner, running : BOOLEAN, published : BOOLEAN,
                      password : 0..MaxCommands]
    /\ prefix \in [yaml : {"none", "sqlite", "postgres"}, env : Dsn, binary : BOOLEAN]
    /\ service \in [unit : BOOLEAN, running : BOOLEAN, dsn : Dsn]
    /\ files \in [{"user", "data"} -> Backup]
    /\ op \in [pc : Step, storage : Storage, password : 0..MaxCommands, dsn : Dsn,
               flag : BOOLEAN, path : {"user", "data"}, exit : 0..1, base : 0..MaxRows]
    /\ commands \in 0..MaxCommands
    /\ blind \in BOOLEAN

\* The machine before the first install: each of the three names is free or
\* belongs to somebody else.
Init ==
    /\ network \in {"none", "foreign"}
    /\ volume \in {NoVolume, [NoVolume EXCEPT !.owner = "foreign"]}
    /\ container \in {NoContainer, [NoContainer EXCEPT !.owner = "foreign"]}
    /\ prefix = [yaml |-> "none", env |-> NoDsn, binary |-> FALSE]
    /\ service = [unit |-> FALSE, running |-> FALSE, dsn |-> NoDsn]
    /\ files = [p \in {"user", "data"} |-> NoBackup]
    /\ op = Idle
    /\ commands = 0
    /\ blind = FALSE

(***************************************************************************)
(* Commands begin and end                                                  *)
(***************************************************************************)

At(step) == op.pc = step

Goto(step) == op' = [op EXCEPT !.pc = step]

Done == op' = Idle

Issue == At("idle") /\ commands < MaxCommands /\ commands' = commands + 1

\* plan puts a fresh password into the URL without escaping it: '@' and '%' are
\* in its alphabet, so the URL may not give the password back (plain = FALSE).
PlannedDsn(password, networkOnly, plain) ==
    [kind |-> "managed",
     password |-> IF plain THEN password ELSE Garbled,
     host |-> IF networkOnly THEN "name" ELSE "loopback"]

\* run_install up to resolve_storage: the checks that may refuse come first, and
\* only the data directory is made before the storage is resolved.
BeginInstall ==
    /\ Issue
    /\ \E networkOnly, plain, startNow \in BOOLEAN :
          LET password == commands' IN
          \/ op' = [Idle EXCEPT !.pc = "copy", !.storage = "sqlite",
                                !.flag = startNow]
          \/ op' = [Idle EXCEPT !.pc = "copy", !.storage = "postgres",
                                !.dsn = ExternalDsn, !.flag = startNow]
          \/ op' = [Idle EXCEPT !.pc = "network", !.storage = "managed",
                                !.password = password,
                                !.dsn = PlannedDsn(password, networkOnly, plain),
                                !.flag = startNow]
    /\ UNCHANGED <<network, volume, container, prefix, service, files, blind>>

BeginUninstall ==
    /\ Issue
    /\ \E purge \in BOOLEAN : op' = [Idle EXCEPT !.pc = "unregister", !.flag = purge]
    /\ UNCHANGED <<network, volume, container, prefix, service, files, blind>>

BeginBackup ==
    /\ Issue
    /\ op' = [Idle EXCEPT !.pc = "dump"]
    /\ UNCHANGED <<network, volume, container, prefix, service, files, blind>>

\* Every upgrade backs up to a path of its own (the timestamp is in the name):
\* files["data"] is the one of the latest upgrade, and older ones stay.
BeginUpgrade ==
    /\ Issue
    /\ container.owner = "ours"
    /\ op' = [Idle EXCEPT !.pc = "dump", !.path = "data", !.base = volume.rows]
    /\ files' = [files EXCEPT !["data"] = NoBackup]
    /\ UNCHANGED <<network, volume, container, prefix, service, blind>>

\* A call of the current step returns an error, or the process is killed.
Abort ==
    /\ ~At("idle")
    /\ Done
    /\ UNCHANGED <<network, volume, container, prefix, service, files, commands, blind>>

(***************************************************************************)
(* install: resolve_storage for managed-docker-postgres                    *)
(***************************************************************************)

EnsureNetwork ==
    /\ At("network")
    /\ network # "foreign"
    /\ network' = "ours"
    /\ Goto("volume")
    /\ UNCHANGED <<volume, container, prefix, service, files, commands, blind>>

EnsureVolume ==
    /\ At("volume")
    /\ volume.owner # "foreign"
    /\ volume' = [volume EXCEPT !.owner = "ours"]
    /\ Goto("container")
    /\ UNCHANGED <<network, container, prefix, service, files, commands, blind>>

\* Any error of inspect_volume counts as "there is none": the volume is created,
\* which does nothing to an existing one, and nobody has looked at its label.
EnsureVolumeBlind ==
    /\ At("volume")
    /\ volume.owner = "foreign"
    /\ blind' = TRUE
    /\ Goto("container")
    /\ UNCHANGED <<network, volume, container, prefix, service, files, commands>>

\* postgres starts in a container: an empty data directory is initialised with
\* the container's POSTGRES_PASSWORD, any other one is served as it is.
Initialised(v, password) ==
    IF v.password = Unset THEN [v EXCEPT !.password = password] ELSE v

\* ensure_container finds the container: it is started if it has to be, and keeps
\* the password and the ports it was created with.
EnsureContainerExisting ==
    /\ At("container")
    /\ container.owner = "ours"
    /\ container' = [container EXCEPT !.running = TRUE]
    /\ volume' = Initialised(volume, container.password)
    /\ Goto("ready")
    /\ UNCHANGED <<network, prefix, service, files, commands, blind>>

\* Mutant: POSTGRES_PASSWORD taken from what the DSN says.
CreateContainerFromDsn ==
    /\ At("container")
    /\ container.owner = "none"
    /\ container' = [owner |-> "ours", running |-> FALSE,
                     published |-> op.dsn.host = "loopback", password |-> op.dsn.password]
    /\ Goto("new_container")
    /\ UNCHANGED <<network, volume, prefix, service, files, commands, blind>>

\* ensure_container finds none: the image is pulled and the container created ...
CreateContainer ==
    /\ At("container")
    /\ container.owner = "none"
    /\ container' = [owner |-> "ours", running |-> FALSE,
                     published |-> op.dsn.host = "loopback", password |-> op.password]
    /\ Goto("new_container")
    /\ UNCHANGED <<network, volume, prefix, service, files, commands, blind>>

\* ... and started.
StartContainer ==
    /\ At("new_container")
    /\ container' = [container EXCEPT !.running = TRUE]
    /\ volume' = Initialised(volume, container.password)
    /\ Goto("ready")
    /\ UNCHANGED <<network, prefix, service, files, commands, blind>>

\* A client that holds this DSN can log in.  Whether the container's name resolves
\* outside of its network is up to the machine.
Opens(dsn) ==
    \/ dsn.kind = "external"
    \/ /\ dsn.kind = "managed"
       /\ container.owner = "ours" /\ container.running
       /\ dsn.password = volume.password
       /\ dsn.host = "loopback" => container.published

\* wait_for_ready: pg_isready inside the container needs no password and no port.
PgIsReady == container.running

\* Mutant: validate_postgres_connection skipped.
ValidateNothing ==
    /\ At("ready") /\ PgIsReady
    /\ Goto("copy")
    /\ UNCHANGED <<network, volume, container, prefix, service, files, commands, blind>>

\* Once Postgres is ready, validate_postgres_connection tries the planned DSN.
Validate ==
    /\ At("ready") /\ PgIsReady
    /\ Opens(op.dsn)
    /\ Goto("copy")
    /\ UNCHANGED <<network, volume, container, prefix, service, files, commands, blind>>

(***************************************************************************)
(* install: files and service                                              *)
(***************************************************************************)

CopyBinary ==
    /\ At("copy")
    /\ prefix' = [prefix EXCEPT !.binary = TRUE]
    /\ Goto("yaml")
    /\ UNCHANGED <<network, volume, container, service, files, commands, blind>>

WriteYaml ==
    /\ At("yaml")
    /\ prefix' = [prefix EXCEPT !.yaml = IF op.storage = "sqlite" THEN "sqlite" ELSE "postgres"]
    /\ Goto("env")
    /\ UNCHANGED <<network, volume, container, service, files, commands, blind>>

WriteEnv ==
    /\ At("env")
    /\ prefix' = [prefix EXCEPT !.env = op.dsn]
    /\ Goto("register")
    /\ UNCHANGED <<network, volume, container, service, files, commands, blind>>

RegisterService ==
    /\ At("register")
    /\ service' = [service EXCEPT !.unit = TRUE]
    /\ IF op.flag THEN Goto("start") ELSE Done
    /\ UNCHANGED <<network, volume, container, prefix, files, commands, blind>>

\* systemd starts the daemon, which reads .env once; starting a running service
\* changes nothing.  The daemon opens its storage before it serves.
Started ==
    /\ service.unit /\ prefix.binary /\ prefix.yaml # "none"
    /\ prefix.yaml = "postgres" => Opens(prefix.env)
    /\ service' = IF service.running THEN service
                  ELSE [service EXCEPT !.running = TRUE, !.dsn = prefix.env]

StartNow ==
    /\ At("start")
    /\ Started
    /\ Done
    /\ UNCHANGED <<network, volume, container, prefix, files, commands, blind>>

\* The commands start, stop and restart are one call each.
ServiceStart ==
    /\ Issue
    /\ Started
    /\ UNCHANGED <<network, volume, container, prefix, files, op, blind>>

ServiceStop ==
    /\ Issue
    /\ service.unit
    /\ service' = [service EXCEPT !.running = FALSE, !.dsn = NoDsn]
    /\ UNCHANGED <<network, volume, container, prefix, files, op, blind>>

ServiceRestart ==
    /\ Issue
    /\ service.unit /\ prefix.binary /\ prefix.yaml # "none"
    /\ prefix.yaml = "postgres" => Opens(prefix.env)
    /\ service' = [service EXCEPT !.running = TRUE, !.dsn = prefix.env]
    /\ UNCHANGED <<network, volume, container, prefix, files, op, blind>>

(***************************************************************************)
(* uninstall                                                               *)
(***************************************************************************)

\* systemctl disable --now; the file it removes lacks the .service suffix, so
\* the unit itself stays known to systemd.
UnregisterService ==
    /\ At("unregister")
    /\ service' = [service EXCEPT !.running = FALSE, !.dsn = NoDsn]
    /\ Goto("files")
    /\ UNCHANGED <<network, volume, container, prefix, files, commands, blind>>

RemoveFiles ==
    /\ At("files")
    /\ prefix' = [yaml |-> "none", env |-> NoDsn, binary |-> FALSE]
    /\ IF op.flag THEN Goto("purge_data") ELSE Done
    /\ UNCHANGED <<network, volume, container, service, files, commands, blind>>

\* The data directory goes, and the pre-upgrade backups in it.
PurgeData ==
    /\ At("purge_data")
    /\ files' = [files EXCEPT !["data"] = NoBackup]
    /\ Goto("purge_container")
    /\ UNCHANGED <<network, volume, container, prefix, service, commands, blind>>

\* remove_all_resources: an inspection that fails counts as "there is none", and a
\* container without the label ends the command with a warning (Abort).
PurgeSkipsContainer ==
    /\ At("purge_container")
    /\ Goto("purge_volume")
    /\ UNCHANGED <<network, volume, container, prefix, service, files, commands, blind>>

PurgeStopsContainer ==
    /\ At("purge_container")
    /\ container.owner = "ours"
    /\ container' = [container EXCEPT !.running = FALSE]
    /\ Goto("purge_remove")
    /\ UNCHANGED <<network, volume, prefix, service, files, commands, blind>>

PurgeRemovesContainer ==
    /\ At("purge_remove")
    /\ container' = NoContainer
    /\ Goto("purge_volume")
    /\ UNCHANGED <<network, volume, prefix, service, files, commands, blind>>

\* Mutant: The label of the volume is not looked at.
PurgeAnyVolume ==
    /\ At("purge_volume")
    /\ container.owner # "ours"
    /\ volume' = NoVolume
    /\ Done
    /\ UNCHANGED <<network, container, prefix, service, files, commands, blind>>

\* The volume goes last; Docker keeps it while a container uses it.
PurgeVolume ==
    /\ At("purge_volume")
    /\ volume.owner = "ours" /\ container.owner # "ours"
    /\ volume' = NoVolume
    /\ Done
    /\ UNCHANGED <<network, container, prefix, service, files, commands, blind>>

(***************************************************************************)
(* backup, alone or as the first part of an upgrade                        *)
(***************************************************************************)

\* verify_ownership, create_exec, File::create(tmp): pg_dump works on the snapshot
\* of the moment it starts.
DumpStarts ==
    /\ At("dump")
    /\ container.owner = "ours" /\ container.running
    /\ files' = [files EXCEPT ![op.path].tmp = [rows |-> volume.rows, whole |-> FALSE]]
    /\ Goto("dumping")
    /\ UNCHANGED <<network, volume, container, prefix, service, commands, blind>>

\* The stream ends: pg_dump is through (exit 0), or it has given up half-way.
DumpEnds ==
    /\ At("dumping")
    /\ \E exit \in {0, 1} :
          /\ files' = [files EXCEPT ![op.path].tmp.whole = (exit = 0)]
          /\ op' = [op EXCEPT !.pc = "dumped", !.exit = exit]
    /\ UNCHANGED <<network, volume, container, prefix, service, commands, blind>>

\* Ctrl+C drops the future and removes .tmp; an error of the stream (Abort) does not.
DumpInterrupted ==
    /\ op.pc \in {"dumping", "dumped"}
    /\ files' = [files EXCEPT ![op.path].tmp = NoDump]
    /\ Done
    /\ UNCHANGED <<network, volume, container, prefix, service, commands, blind>>

\* Mutant: A failed pre-upgrade backup that does not stop the upgrade.
DumpFailedGoesOn ==
    /\ At("dumped")
    /\ op.exit # 0
    /\ files' = [files EXCEPT ![op.path].tmp = NoDump]
    /\ IF op.path = "data" THEN Goto("stop") ELSE Done
    /\ UNCHANGED <<network, volume, container, prefix, service, commands, blind>>

DumpFailed ==
    /\ At("dumped")
    /\ op.exit # 0
    /\ files' = [files EXCEPT ![op.path].tmp = NoDump]
    /\ Done
    /\ UNCHANGED <<network, volume, container, prefix, service, commands, blind>>

\* Mutant: The exit code is not looked at.
DumpRenamedUnchecked ==
    /\ At("dumped")
    /\ files' = [files EXCEPT ![op.path] = [tmp |-> NoDump, final |-> files[op.path].tmp]]
    /\ IF op.path = "data" THEN Goto("stop") ELSE Done
    /\ UNCHANGED <<network, volume, container, prefix, service, commands, blind>>

\* Exit 0 and a file that is not empty: the rename is the only way to succeed.
DumpRenamed ==
    /\ At("dumped")
    /\ op.exit = 0
    /\ files' = [files EXCEPT ![op.path] = [tmp |-> NoDump, final |-> files[op.path].tmp]]
    /\ IF op.path = "data" THEN Goto("stop") ELSE Done
    /\ UNCHANGED <<network, volume, container, prefix, service, commands, blind>>

(***************************************************************************)
(* upgrade, after its backup                                               *)
(***************************************************************************)

UpgradeStops ==
    /\ At("stop")
    /\ container' = [container EXCEPT !.running = FALSE]
    /\ Goto("remove")
    /\ UNCHANGED <<network, volume, prefix, service, files, commands, blind>>

UpgradeRemoves ==
    /\ At("remove")
    /\ container' = NoContainer
    /\ Goto("recreate")
    /\ UNCHANGED <<network, volume, prefix, service, files, commands, blind>>

\* pull_image comes when the old container is gone. The new container has the
\* volume and the network of the old one, but no environment and no published port.
UpgradeRecreates ==
    /\ At("recreate")
    /\ container' = [NoContainer EXCEPT !.owner = "ours"]
    /\ Goto("restart")
    /\ UNCHANGED <<network, volume, prefix, service, files, commands, blind>>

\* Started; whether pg_isready then answers decides only what is printed.
UpgradeStarts ==
    /\ At("restart")
    /\ container' = [container EXCEPT !.running = TRUE]
    /\ Done
    /\ UNCHANGED <<network, volume, prefix, service, files, commands, blind>>

(***************************************************************************)
(* The daemon and the other users of the machine                           *)
(***************************************************************************)

DaemonCommits ==
    /\ service.running
    /\ service.dsn.kind = "managed" /\ Opens(service.dsn)
    /\ volume.rows < MaxRows
    /\ volume' = [volume EXCEPT !.rows = @ + 1]
    /\ UNCHANGED <<network, container, prefix, service, files, op, commands, blind>>

\* Between commands somebody takes one of the names, or gives it back.
OthersTakeName ==
    /\ At("idle")
    /\ \/ /\ network = "none" /\ network' = "foreign"
          /\ UNCHANGED <<volume, container>>
       \/ /\ volume.owner = "none" /\ volume' = [NoVolume EXCEPT !.owner = "foreign"]
          /\ UNCHANGED <<network, container>>
       \/ /\ container.owner = "none" /\ container' = [NoContainer EXCEPT !.owner = "foreign"]
          /\ UNCHANGED <<network, volume>>
    /\ UNCHANGED <<prefix, service, files, op, commands, blind>>

OthersFreeName ==
    /\ At("idle")
    /\ \/ /\ network = "foreign" /\ container.owner # "ours" /\ network' = "none"
          /\ UNCHANGED <<volume, container>>
       \/ /\ volume.owner = "foreign" /\ container.owner # "ours" /\ volume' = NoVolume
          /\ UNCHANGED <<network, container>>
       \/ /\ container.owner = "foreign" /\ container' = NoContainer
          /\ UNCHANGED <<network, volume>>
    /\ UNCHANGED <<prefix, service, files, op, commands, blind>>

\* The machine's administrator removes the managed container by hand.
AdministratorRemovesContainer ==
    /\ At("idle")
    /\ container.owner = "ours" /\ container' = NoContainer
    /\ UNCHANGED <<network, volume, prefix, service, files, op, commands, blind>>

-----------------------------------------------------------------------------

Install ==
    \/ BeginInstall \/ EnsureNetwork \/ EnsureVolume \/ EnsureVolumeBlind
    \/ EnsureContainerExisting \/ CreateContainer \/ StartContainer \/ Validate
    \/ CopyBinary \/ WriteYaml \/ WriteEnv \/ RegisterService \/ StartNow

Uninstall ==
    \/ BeginUninstall \/ UnregisterService \/ RemoveFiles \/ PurgeData
    \/ PurgeSkipsContainer \/ PurgeStopsContainer \/ PurgeRemovesContainer \/ PurgeVolume

BackupUpgrade ==
    \/ BeginBackup \/ BeginUpgrade
    \/ DumpStarts \/ DumpEnds \/ DumpInterrupted \/ DumpFailed \/ DumpRenamed
    \/ UpgradeStops \/ UpgradeRemoves \/ UpgradeRecreates \/ UpgradeStarts

Others == OthersTakeName \/ OthersFreeName \/ AdministratorRemovesContainer

Next ==
    \/ Install \/ Uninstall \/ BackupUpgrade
    \/ ServiceStart \/ ServiceStop \/ ServiceRestart
    \/ Abort \/ DaemonCommits \/ Others

Spec == Init /\ [][Next]_vars

(***************************************************************************)
(* Properties                                                              *)
(***************************************************************************)

\* "The installer does not touch other people's containers, networks, volumes":
\* while a command runs, a resource of one of its three names without the label
\* is neither changed nor removed, wherever the command is cut off and whatever
\* ran before it.  The one exception is the installation whose inspect_volume
\* failed for another reason than that there is no volume.
ForeignUntouched ==
    [][(~At("idle") /\ ~blind) =>
          /\ network = "foreign" => network' = network
          /\ volume.owner = "foreign" => volume' = volume
          /\ container.owner = "foreign" => container' = container]_vars

\* A file under its final name is a whole dump, whenever a backup is cut off,
\* fails or is interrupted, and whatever an earlier one left as .tmp.
BackupsAreWhole ==
    \A p \in {"user", "data"} : files[p].final # NoDump => files[p].final.whole

\* While the old container is gone for the new one, the upgrade's own backup is
\* there, whole, with every row that was committed when the upgrade began, and
\* the volume has lost none of them.
UpgradeHasBackup ==
    op.pc \in {"remove", "recreate", "restart"} =>
        /\ files["data"].final # NoDump
        /\ files["data"].final.whole
        /\ files["data"].final.rows >= op.base
        /\ volume.rows >= files["data"].final.rows

\* The password in .env is the one the managed database was initialised with,
\* however many installs, failed or cut off, come after the one that wrote it,
\* through upgrades and through an uninstall that is cut off: .env is written
\* after the DSN in it has been tried, and removed before the volume is.
EnvPasswordOpens ==
    (prefix.env.kind = "managed" /\ ~blind) =>
        volume.owner = "ours" /\ volume.password = prefix.env.password

\* What the header of .env says: a regeneration rotates the password.  Once the
\* database is ready, the new password opens it.
RotationTakesEffect ==
    At("ready") /\ op.dsn.password # Garbled => op.password = volume.password
=============================================================================

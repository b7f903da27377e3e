--------------------------- MODULE ReleaseLifecycle ---------------------------
(***************************************************************************)
(* The commands backup, upgrade and restore of one instance, with the      *)
(* daemon that writes to the database between and, during a backup, below  *)
(* them.  A command is a process of its own: it may be killed between any  *)
(* two steps, and every step may fail (a full disk, a sqlite3 that exits   *)
(* with an error), which runs the code's catch and finally blocks.         *)
(*                                                                         *)
(* The database is its main file and its write-ahead log.  A commit goes   *)
(* to the log; the last connection that closes checkpoints it.  A log next *)
(* to a main file that it does not belong to would be replayed into it.    *)
(*                                                                         *)
(* As --confirm-offline asserts, no daemon runs during upgrade and         *)
(* restore; and the operator runs one command at a time.                   *)
(***************************************************************************)
EXTENDS Naturals

CONSTANTS
    Backups,     \* output directories
    MinVersion,  \* MIN_SUPPORTED_SCHEMA_VERSION
    Version,     \* CURRENT_SCHEMA_VERSION
    OldVersions, \* the schema versions of earlier releases, whose daemons may run
    MaxWrites,   \* bound: writes that the daemon acknowledges
    None

ASSUME VersionsAssumption ==
    /\ MinVersion \in Nat /\ Version \in Nat /\ 2 < MinVersion /\ MinVersion < Version
    /\ OldVersions \subseteq MinVersion..(Version - 1)
    /\ MaxWrites \in Nat
    /\ None \notin Backups

VARIABLES
    main,    \* the main database file
    wal,     \* the -wal file: none, the log of the main file, or of another one
    backup,  \* the directories: absent, open, copied or complete with a manifest
    op,      \* the command that runs, or how the last one ended
    daemon,  \* the schema version the running daemon was built for, or 0
    acked    \* history: the writes that were acknowledged

vars == <<main, wal, backup, op, daemon, acked>>
database == <<main, wal>>

Contents == [ver : Nat, data : SUBSET (1..MaxWrites)]
Empty == [ver |-> 0, data |-> {}]
NoLog == [kind |-> "none", content |-> Empty]
Absent == [stage |-> "absent", content |-> Empty, manifest |-> 0]

\* What a connection to the database sees.
View == IF wal.kind = "none" THEN main ELSE wal.content

\* readBackupManifest: the checksum holds, and the copy has the version that
\* the manifest names.
Readable(b) ==
    /\ backup[b].stage = "complete"
    /\ backup[b].content.ver = backup[b].manifest

Supported(version) == version \in MinVersion..Version

Init ==
    /\ \E v \in {Version} \cup OldVersions : main = [ver |-> v, data |-> {}]
    /\ wal = NoLog
    /\ backup = [b \in Backups |-> Absent]
    /\ op = [cmd |-> "none", pc |-> "ok", own |-> None, seen |-> 0, rollback |-> FALSE,
             before |-> Empty, goal |-> Empty]
    /\ daemon = 0
    /\ acked = {}

Ends == {"ok", "failed", "killed", "unclear"}
Idle == op.pc \in Ends

-----------------------------------------------------------------------------
(* Commits and the daemon. *)

\* A transaction by a sqlite3 process: it stays in the log while another
\* connection is open or when the process is killed as it closes.
Commit(content) ==
    \/ /\ wal' = [kind |-> "own", content |-> content]
       /\ UNCHANGED main
    \/ /\ main' = content
       /\ wal' = NoLog

\* A daemon opens a database of its own schema version only.
DaemonStart ==
    /\ daemon = 0
    /\ Idle \/ op.cmd = "backup"
    /\ View.ver \in {Version} \cup OldVersions
    /\ daemon' = View.ver
    /\ UNCHANGED <<database, backup, op, acked>>

DaemonStop ==
    /\ daemon # 0
    /\ daemon' = 0
    /\ UNCHANGED <<database, backup, op, acked>>

DaemonWrite ==
    /\ daemon # 0
    /\ \E w \in (1..MaxWrites) \ acked :
          /\ \A v \in (1..MaxWrites) \ acked : w <= v
          /\ Commit([View EXCEPT !.data = @ \cup {w}])
          /\ acked' = acked \cup {w}
    /\ UNCHANGED <<backup, op, daemon>>

-----------------------------------------------------------------------------
(* The commands. *)

Run(cmd, pc, goal) ==
    op' = [cmd |-> cmd, pc |-> pc, own |-> None, seen |-> 0, rollback |-> FALSE,
           before |-> View, goal |-> goal]

BackupBegins ==
    /\ Idle
    /\ Run("backup", "status", View)
    /\ UNCHANGED <<database, backup, daemon, acked>>

\* restoreInstance: the backup is verified before anything else.
RestoreBegins(target) ==
    /\ Idle /\ daemon = 0
    /\ Readable(target)
    /\ Run("restore", "checkpoint", backup[target].content)
    /\ UNCHANGED <<database, backup, daemon, acked>>

\* upgradeInstance: nothing to do at the current version, refused outside of
\* the range.
UpgradeBegins ==
    /\ Idle /\ daemon = 0
    /\ Supported(View.ver) /\ View.ver # Version
    /\ Run("upgrade", "checkpoint", [View EXCEPT !.ver = Version])
    /\ UNCHANGED <<database, backup, daemon, acked>>

\* main: the commands that change the files.
Begins == BackupBegins \/ UpgradeBegins \/ \E b \in Backups : RestoreBegins(b)

At(pc) == op.pc = pc

Goto(pc) == op' = [op EXCEPT !.pc = pc]

\* checkpointDatabase: the log is truncated, or the command is refused.
CheckpointDatabase ==
    /\ At("checkpoint")
    /\ main' = View /\ wal' = NoLog
    /\ Goto("status")
    /\ UNCHANGED <<backup, daemon, acked>>

\* Mutant: the directory may exist.
OpenOutputAgain(b) ==
    /\ At("status")
    /\ Supported(View.ver)
    /\ backup' = [backup EXCEPT ![b].stage = "open"]
    /\ op' = [op EXCEPT !.pc = "snapshot", !.own = b, !.seen = View.ver]
    /\ UNCHANGED <<database, daemon, acked>>

\* backupInstance: the version is read first; the directory must be new.
OpenOutput(b) ==
    /\ At("status")
    /\ Supported(View.ver)
    /\ backup[b].stage = "absent"
    /\ backup' = [backup EXCEPT ![b].stage = "open"]
    /\ op' = [op EXCEPT !.pc = "snapshot", !.own = b, !.seen = View.ver]
    /\ UNCHANGED <<database, daemon, acked>>

\* VACUUM INTO copies what one read transaction sees, the log included.
Snapshot(b) ==
    /\ At("snapshot") /\ op.own = b
    /\ backup' = [backup EXCEPT ![b].stage = "copied", ![b].content = View]
    /\ Goto("manifest")
    /\ UNCHANGED <<database, daemon, acked>>

Continue == CASE op.cmd = "backup" -> "ok"
              [] op.cmd = "restore" -> "copy"
              [] op.cmd = "upgrade" -> "configure"

\* The manifest is the last thing that is written.
WriteManifest(b) ==
    /\ At("manifest") /\ op.own = b
    /\ backup' = [backup EXCEPT ![b].stage = "complete", ![b].manifest = op.seen]
    /\ Goto(Continue)
    /\ UNCHANGED <<database, daemon, acked>>

\* The first script of SqliteDatabase.configure puts the version to 2,
\* whichever it was.
Configure ==
    /\ At("configure")
    /\ Commit([View EXCEPT !.ver = 2])
    /\ Goto("migrate")
    /\ UNCHANGED <<backup, daemon, acked>>

\* Each of the migrations after it commits the next version.
Migrate ==
    /\ At("migrate")
    /\ Commit([View EXCEPT !.ver = @ + 1])
    /\ Goto(IF View.ver + 1 = Version THEN "verify" ELSE "migrate")
    /\ UNCHANGED <<backup, daemon, acked>>

\* databaseStatus of the result, and the command returns.
Verified ==
    /\ At("verify")
    /\ Goto("ok")
    /\ UNCHANGED <<database, backup, daemon, acked>>

-----------------------------------------------------------------------------
(* replaceDatabase, by what is to be restored or, in a rollback, by the     *)
(* backup that the command made itself.                                     *)

\* The candidate is copied next to the database and checked.
CopyCandidate ==
    /\ At("copy")
    /\ Goto("unlink")
    /\ UNCHANGED <<database, backup, daemon, acked>>

\* Mutant: the log stays.
UnlinkLogsNot ==
    /\ At("unlink")
    /\ Goto("rename")
    /\ UNCHANGED <<database, backup, daemon, acked>>

UnlinkLogs ==
    /\ At("unlink")
    /\ wal' = NoLog
    /\ Goto("rename")
    /\ UNCHANGED <<main, backup, daemon, acked>>

Rename ==
    /\ At("rename")
    /\ main' = IF op.rollback THEN backup[op.own].content ELSE op.goal
    /\ wal' = IF wal.kind = "none" THEN NoLog ELSE [wal EXCEPT !.kind = "foreign"]
    /\ Goto(IF op.rollback THEN "failed" ELSE "verify")
    /\ UNCHANGED <<backup, daemon, acked>>

-----------------------------------------------------------------------------
(* Failures. *)

\* Before the backup, nothing has changed.
FailsEarly ==
    /\ op.pc \in {"checkpoint", "status"}
    /\ Goto("failed")
    /\ UNCHANGED <<database, backup, daemon, acked>>

\* An incomplete backup is removed.
BackupFails(b) ==
    /\ op.pc \in {"snapshot", "manifest"} /\ op.own = b
    /\ backup' = [backup EXCEPT ![b] = Absent]
    /\ Goto("failed")
    /\ UNCHANGED <<database, daemon, acked>>

Touching == {"configure", "migrate", "verify", "copy", "unlink", "rename"}

\* Mutant: only a failed migration is undone.
FailsLateUnlessMigrating ==
    /\ op.pc \in Touching /\ ~op.rollback
    /\ op' = IF op.pc \in {"configure", "migrate"} THEN [op EXCEPT !.pc = "copy", !.rollback = TRUE]
                                  ELSE [op EXCEPT !.pc = "failed"]
    /\ UNCHANGED <<database, backup, daemon, acked>>

\* The catch block replaces the database by the command's own backup.
FailsLate ==
    /\ op.pc \in Touching /\ ~op.rollback
    /\ op' = IF Readable(op.own) THEN [op EXCEPT !.pc = "copy", !.rollback = TRUE]
                                 ELSE [op EXCEPT !.pc = "unclear"]
    /\ UNCHANGED <<database, backup, daemon, acked>>

\* So does the rollback fail.
RollbackFails ==
    /\ op.pc \in Touching /\ op.rollback
    /\ Goto("unclear")
    /\ UNCHANGED <<database, backup, daemon, acked>>

\* The command is killed; what it left stays.
Killed ==
    /\ ~Idle
    /\ Goto("killed")
    /\ UNCHANGED <<database, backup, daemon, acked>>

-----------------------------------------------------------------------------
Next ==
    \/ DaemonStart \/ DaemonStop \/ DaemonWrite
    \/ Begins
    \/ \E b \in Backups : OpenOutput(b) \/ Snapshot(b) \/ WriteManifest(b) \/ BackupFails(b)
    \/ CheckpointDatabase \/ Configure \/ Migrate \/ Verified
    \/ CopyCandidate \/ UnlinkLogs \/ Rename
    \/ FailsEarly \/ FailsLate \/ RollbackFails \/ Killed

Spec == Init /\ [][Next]_vars

-----------------------------------------------------------------------------
(* Properties. *)

\* Every write that the daemon acknowledged is in the database or in a backup
\* that restore accepts, wherever a command fails or is killed.
NothingAcknowledgedIsLost ==
    \A w \in acked : w \in View.data \/ \E b \in Backups : Readable(b) /\ w \in backup[b].content.data

\* The log next to the main file is the log of that file: no step order of
\* replaceDatabase and no kill lets sqlite replay another one's.
DatabaseIsWhole == wal.kind # "foreign"

\* A command that succeeds has done all of what it promises, one that fails
\* and could roll back has done nothing: a restored database is the backup, an
\* upgraded one has kept its data, a backup is readable and has at least what
\* was committed before it began.
AllOrNothing ==
    [][/\ op.pc \notin Ends /\ op'.pc = "ok" =>
             IF op.cmd = "backup"
             THEN Readable(op.own)' /\ op.before.data \subseteq backup'[op.own].content.data
             ELSE View' = op.goal
       /\ op.pc \notin Ends /\ op'.pc = "failed" /\ op.cmd # "backup" => View' = op.before]_vars
===============================================================================

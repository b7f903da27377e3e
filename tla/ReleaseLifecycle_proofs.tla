------------------------ MODULE ReleaseLifecycle_proofs ------------------------
(***************************************************************************)
(* Proofs about ReleaseLifecycle, for every number of writes and backup    *)
(* directories and every range of schema versions.  The strengthening says *)
(* what a command knows at each of its steps: no daemon writes next to an  *)
(* upgrade or a restore; the output directory of a backup is its own; the  *)
(* snapshot has the version that was read; and before the database is      *)
(* touched every acknowledged write is in a backup that can be read.       *)
(***************************************************************************)
EXTENDS ReleaseLifecycle, TLAPS

Commands == {"none", "backup", "restore", "upgrade"}
Early == {"checkpoint", "status"}
Steps == Early \cup {"snapshot", "manifest"} \cup Touching
Stages == {"absent", "open", "copied", "complete"}

TypeOK ==
    /\ main \in Contents
    /\ wal \in [kind : {"none", "own", "foreign"}, content : Contents]
    /\ backup \in [Backups -> [stage : Stages, content : Contents, manifest : Nat]]
    /\ op \in [cmd : Commands, pc : Steps \cup Ends, own : Backups \cup {None}, seen : Nat,
               rollback : BOOLEAN, before : Contents, goal : Contents]
    /\ daemon \in Nat
    /\ acked \in SUBSET (1..MaxWrites)

\* No daemon runs next to a command that replaces or migrates the database.
Offline == ~Idle /\ op.cmd # "backup" => daemon = 0

\* What runs is one of the commands.
CommandRuns == ~Idle => op.cmd # "none"

\* A backup in progress fills a directory that nothing else relies on.
OwnOutput ==
    /\ op.pc = "snapshot" => op.own \in Backups /\ backup[op.own].stage = "open"
    /\ op.pc = "manifest" => op.own \in Backups /\ backup[op.own].stage = "copied"

\* Without a daemon the snapshot is the database.
SnapshotIsCurrent ==
    op.cmd # "backup" =>
       /\ op.pc = "snapshot" => op.seen = View.ver
       /\ op.pc = "manifest" => backup[op.own].content = View /\ op.seen = View.ver

\* What is acknowledged is in a backup.
Saved(w) == \E b \in Backups : Readable(b) /\ w \in backup[b].content.data

\* The database is touched only by a command other than backup, after a
\* complete backup of everything.
SavedBeforeTouched ==
    op.pc \in Touching =>
       /\ op.cmd # "backup" /\ op.own \in Backups
       /\ \A w \in acked : Saved(w)

\* The log is gone when the main file changes.
NoLogAtRename == op.pc = "rename" => wal.kind = "none"

IInv ==
    /\ TypeOK /\ Offline /\ CommandRuns /\ OwnOutput /\ SnapshotIsCurrent /\ SavedBeforeTouched
    /\ NoLogAtRename /\ DatabaseIsWhole /\ NothingAcknowledgedIsLost

\* A backup keeps up with the daemon beside it: what it copies is of the version it has
\* read and has what was there when it began.
BackupKeepsUp ==
    op.cmd = "backup" =>
       /\ op.pc \in Early \cup {"snapshot"} => op.before.data \subseteq View.data
       /\ op.pc = "snapshot" => op.seen = View.ver
       /\ op.pc = "manifest" => /\ backup[op.own].content.ver = op.seen
                                /\ op.before.data \subseteq backup[op.own].content.data

\* Another command has changed nothing until its own backup holds what it began with; that
\* one can be read, and only a rollback goes back to it.
RollbackIsReady ==
    ~Idle /\ op.cmd # "backup" =>
       /\ op.pc \notin Touching => View = op.before
       /\ op.pc \in Touching => Readable(op.own) /\ backup[op.own].content = op.before
       /\ op.rollback => op.pc \in {"copy", "unlink", "rename"}

RestoreIsDone ==
    op.cmd = "restore" =>
       op.pc \notin {"configure", "migrate"} /\ (op.pc = "verify" => View = op.goal)

UpgradeIsDone ==
    op.cmd = "upgrade" =>
       /\ op.goal = [op.before EXCEPT !.ver = Version]
       /\ op.pc \in {"copy", "unlink", "rename"} => op.rollback
       /\ op.pc \in {"configure", "migrate"} => View.data = op.before.data
       /\ op.pc = "verify" => View = op.goal

Progress == BackupKeepsUp /\ RollbackIsReady /\ RestoreIsDone /\ UpgradeIsDone

-----------------------------------------------------------------------------
(* Facts about the operators. *)

\* What a connection sees is the content of a database.
LEMMA ViewType ==
    ASSUME main \in Contents, wal \in [kind : {"none", "own", "foreign"}, content : Contents]
    PROVE  View \in Contents
  BY DEF View

\* A commit changes what is seen into what is committed, and leaves no log of
\* another file.
LEMMA CommitIsSeen ==
    ASSUME NEW c \in Contents, main \in Contents,
           wal \in [kind : {"none", "own", "foreign"}, content : Contents], Commit(c)
    PROVE  /\ View' = c /\ wal'.kind # "foreign"
           /\ main' \in Contents
           /\ wal' \in [kind : {"none", "own", "foreign"}, content : Contents]
  <1>0. Empty \in Contents
    BY DEF Empty, Contents
  <1>1. CASE wal' = [kind |-> "own", content |-> c] /\ UNCHANGED main
    BY <1>1 DEF View
  <1>2. CASE main' = c /\ wal' = NoLog
    BY <1>0, <1>2 DEF View, NoLog
  <1> QED
    BY <1>1, <1>2 DEF Commit

\* A readable backup stays one while its directory is left alone.
LEMMA SavedStays ==
    ASSUME NEW w, Saved(w),
           \A b \in Backups : Readable(b) => backup'[b] = backup[b]
    PROVE  Saved(w)'
  <1>1. PICK b \in Backups : Readable(b) /\ w \in backup[b].content.data
    BY DEF Saved
  <1>2. backup'[b] = backup[b]
    BY <1>1
  <1>3. Readable(b)' /\ w \in backup'[b].content.data
    BY <1>1, <1>2 DEF Readable
  <1> QED
    BY <1>3 DEF Saved

-----------------------------------------------------------------------------
(* The initial states. *)

\* The strengthening holds initially.
LEMMA InitIInv == Init => IInv
  <1> SUFFICES ASSUME Init PROVE IInv
    OBVIOUS
  <1>1. Empty \in Contents /\ NoLog.kind = "none"
    BY DEF Empty, Contents, NoLog
  <1>2. TypeOK
    <2>1. main \in Contents
      BY VersionsAssumption DEF Init, Contents
    <2>2. wal \in [kind : {"none", "own", "foreign"}, content : Contents]
      BY <1>1 DEF Init, NoLog
    <2>3. backup \in [Backups -> [stage : Stages, content : Contents, manifest : Nat]]
      BY <1>1 DEF Init, Absent, Stages
    <2>4. op \in [cmd : Commands, pc : Steps \cup Ends, own : Backups \cup {None}, seen : Nat,
                  rollback : BOOLEAN, before : Contents, goal : Contents]
      BY <1>1 DEF Init, Commands, Ends
    <2> QED
      BY <2>1, <2>2, <2>3, <2>4 DEF Init, TypeOK
  <1>3. op.pc = "ok" /\ acked = {} /\ wal.kind = "none"
    BY <1>1 DEF Init
  <1> QED
    BY <1>2, <1>3 DEF IInv, Offline, CommandRuns, Idle, Ends, OwnOutput, SnapshotIsCurrent, SavedBeforeTouched,
       Touching, NoLogAtRename, DatabaseIsWhole, NothingAcknowledgedIsLost

-----------------------------------------------------------------------------
(* The steps.  Most leave the database, the directories and what is        *)
(* acknowledged alone, and only move the command.                          *)

\* What has no record of a command keeps what it says.
LEMMA MovesKeep ==
    ASSUME IInv, UNCHANGED <<database, backup, acked>>
    PROVE  /\ View' = View
           /\ \A b \in Backups : Readable(b)' <=> Readable(b)
           /\ \A w : Saved(w)' <=> Saved(w)
           /\ DatabaseIsWhole' /\ NothingAcknowledgedIsLost'
  <1>1. View' = View
    BY DEF View, database
  <1>2. \A b \in Backups : Readable(b)' <=> Readable(b)
    BY DEF Readable
  <1>3. \A w : Saved(w)' <=> Saved(w)
    BY <1>2 DEF Saved
  <1>4. DatabaseIsWhole' /\ NothingAcknowledgedIsLost'
    BY <1>1, <1>2 DEF IInv, DatabaseIsWhole, NothingAcknowledgedIsLost, database
  <1> QED
    BY <1>1, <1>2, <1>3, <1>4

\* A move of the command to a step outside of the backup keeps the invariant,
\* if what it needs before it touches the database is there.
LEMMA MoveKeepsIInv ==
    ASSUME IInv, UNCHANGED <<database, backup, daemon, acked>>,
           op' \in [cmd : Commands, pc : Steps \cup Ends, own : Backups \cup {None}, seen : Nat,
                    rollback : BOOLEAN, before : Contents, goal : Contents],
           op'.pc \in Ends \/ op'.cmd = "backup" \/ daemon = 0,
           op'.pc \in Ends \/ op'.cmd # "none",
           op'.pc \notin {"snapshot", "manifest"},
           op'.pc \in Touching =>
              op'.cmd # "backup" /\ op'.own \in Backups /\ \A w \in acked : Saved(w),
           op'.pc = "rename" => wal.kind = "none"
    PROVE  IInv'
  <1>1. TypeOK'
    BY DEF IInv, TypeOK, database
  <1>2. Offline' /\ CommandRuns'
    BY DEF Offline, CommandRuns, Idle
  <1>3. OwnOutput' /\ SnapshotIsCurrent'
    BY DEF OwnOutput, SnapshotIsCurrent
  <1>4. SavedBeforeTouched'
    BY MovesKeep DEF SavedBeforeTouched
  <1>5. NoLogAtRename'
    BY DEF NoLogAtRename, database
  <1> QED
    BY <1>1, <1>2, <1>3, <1>4, <1>5, MovesKeep DEF IInv

\* A commit next to an unchanged command keeps the type of everything.
LEMMA DaemonWriteKeepsIInv == IInv /\ DaemonWrite => IInv'
  <1> SUFFICES ASSUME IInv, DaemonWrite PROVE IInv'
    OBVIOUS
  <1>1. PICK w \in (1..MaxWrites) \ acked :
           Commit([View EXCEPT !.data = @ \cup {w}]) /\ acked' = acked \cup {w}
    BY DEF DaemonWrite
  <1>2. daemon # 0 /\ UNCHANGED <<backup, op, daemon>>
    BY DEF DaemonWrite
  <1> DEFINE c == [View EXCEPT !.data = @ \cup {w}]
  <1>3. View \in Contents
    BY ViewType DEF IInv, TypeOK
  <1>4. c \in Contents /\ c.data = View.data \cup {w} /\ c.ver = View.ver
    BY <1>3 DEF Contents
  <1>5. /\ View' = c /\ wal'.kind # "foreign" /\ main' \in Contents
        /\ wal' \in [kind : {"none", "own", "foreign"}, content : Contents]
    <2> HIDE DEF c
    <2> QED
      BY <1>1, <1>4, CommitIsSeen DEF IInv, TypeOK, c
  <1>6. TypeOK'
    BY <1>1, <1>2, <1>5 DEF IInv, TypeOK
  <1>7. Idle \/ op.cmd = "backup"
    BY <1>2 DEF IInv, Offline
  <1>8. op.pc \notin Touching
    BY <1>7 DEF IInv, SavedBeforeTouched, Idle, Ends, Touching
  <1>9. Offline' /\ CommandRuns' /\ OwnOutput' /\ SavedBeforeTouched'
    BY <1>2, <1>8 DEF IInv, Offline, CommandRuns, OwnOutput, SavedBeforeTouched, Idle
  <1>10. SnapshotIsCurrent' /\ NoLogAtRename'
    BY <1>2, <1>7, <1>8 DEF SnapshotIsCurrent, NoLogAtRename, Idle, Ends, Touching
  <1>11. DatabaseIsWhole'
    BY <1>5 DEF DatabaseIsWhole
  <1>12. NothingAcknowledgedIsLost'
    <2> SUFFICES ASSUME NEW v \in acked'
                 PROVE  v \in View'.data \/ \E b \in Backups : Readable(b)' /\ v \in backup'[b].content.data
      BY DEF NothingAcknowledgedIsLost
    <2>1. \A b \in Backups : Readable(b)' <=> Readable(b)
      BY <1>2 DEF Readable
    <2> QED
      BY <1>1, <1>2, <1>4, <1>5, <2>1 DEF IInv, NothingAcknowledgedIsLost
  <1> QED
    BY <1>6, <1>9, <1>10, <1>11, <1>12 DEF IInv

\* The daemon comes and goes.
LEMMA DaemonTurnsKeepIInv == IInv /\ (DaemonStart \/ DaemonStop) => IInv'
  <1> SUFFICES ASSUME IInv, DaemonStart \/ DaemonStop PROVE IInv'
    OBVIOUS
  <1>1. UNCHANGED <<database, backup, op, acked>>
    BY DEF DaemonStart, DaemonStop
  <1>2. TypeOK'
    <2>1. daemon' \in Nat
      <3>1. View \in Contents
        BY ViewType DEF IInv, TypeOK
      <3> QED
        BY <3>1 DEF DaemonStart, DaemonStop, Contents
    <2> QED
      BY <1>1, <2>1 DEF IInv, TypeOK, database
  <1>3. Offline' /\ CommandRuns'
    BY <1>1 DEF IInv, Offline, CommandRuns, Idle, DaemonStart, DaemonStop
  <1>4. OwnOutput' /\ SnapshotIsCurrent' /\ SavedBeforeTouched' /\ NoLogAtRename'
    BY <1>1, MovesKeep DEF IInv, OwnOutput, SnapshotIsCurrent, SavedBeforeTouched, NoLogAtRename, database
  <1> QED
    BY <1>1, <1>2, <1>3, <1>4, MovesKeep DEF IInv

\* A command begins.
LEMMA BeginKeepsIInv ==
    IInv /\ Begins => IInv'
  <1> SUFFICES ASSUME IInv, Begins
               PROVE  IInv'
    OBVIOUS
  <1>1. UNCHANGED <<database, backup, daemon, acked>>
    BY DEF Begins, BackupBegins, UpgradeBegins, RestoreBegins
  <1>2. View \in Contents
    BY ViewType DEF IInv, TypeOK
  <1>3. PICK cmd \in Commands \ {"none"}, pc \in Early, goal \in Contents :
           Run(cmd, pc, goal) /\ (cmd = "backup" \/ daemon = 0)
    <2>1. CASE BackupBegins
      BY <1>2, <2>1 DEF BackupBegins, Commands, Early
    <2>2. CASE UpgradeBegins
      <3>1. [View EXCEPT !.ver = Version] \in Contents
        BY <1>2, VersionsAssumption DEF Contents
      <3> QED
        BY <2>2, <3>1 DEF UpgradeBegins, Commands, Early
    <2>3. ASSUME NEW b \in Backups, RestoreBegins(b)
          PROVE  \E cmd \in Commands \ {"none"}, pc \in Early, goal \in Contents :
                    Run(cmd, pc, goal) /\ (cmd = "backup" \/ daemon = 0)
      <3>1. backup[b].content \in Contents
        BY DEF IInv, TypeOK
      <3> QED
        BY <2>3, <3>1 DEF RestoreBegins, Commands, Early
    <2> QED
      BY <2>1, <2>2, <2>3 DEF Begins
  <1>4. op' \in [cmd : Commands, pc : Steps \cup Ends, own : Backups \cup {None}, seen : Nat,
                 rollback : BOOLEAN, before : Contents, goal : Contents]
    BY <1>2, <1>3 DEF Run, Steps
  <1>5. op'.pc \in Early /\ op'.cmd = cmd
    BY <1>3 DEF Run
  <1> QED
    BY <1>1, <1>3, <1>4, <1>5, MoveKeepsIInv DEF Early, Touching

\* The record of the command keeps its type when it moves.
LEMMA GotoType ==
    ASSUME IInv, NEW pc \in Steps \cup Ends, Goto(pc)
    PROVE  /\ op' \in [cmd : Commands, pc : Steps \cup Ends, own : Backups \cup {None}, seen : Nat,
                       rollback : BOOLEAN, before : Contents, goal : Contents]
           /\ op'.pc = pc /\ op'.cmd = op.cmd /\ op'.own = op.own /\ op'.seen = op.seen
  BY DEF IInv, TypeOK, Goto

\* A step that only moves the command, other than into a backup.
LEMMA GotoKeepsIInv ==
    ASSUME IInv, UNCHANGED <<database, backup, daemon, acked>>, NEW pc \in Ends \cup Touching, Goto(pc),
           pc \in Touching => op.pc \in Touching,
           pc = "rename" => wal.kind = "none"
    PROVE  IInv'
  <1>1. /\ op' \in [cmd : Commands, pc : Steps \cup Ends, own : Backups \cup {None}, seen : Nat,
                    rollback : BOOLEAN, before : Contents, goal : Contents]
        /\ op'.pc = pc /\ op'.cmd = op.cmd /\ op'.own = op.own
    BY GotoType DEF Steps
  <1>2. pc \in Touching => daemon = 0 /\ op.cmd \notin {"none", "backup"} /\ op.own \in Backups /\ \A w \in acked : Saved(w)
    BY DEF IInv, SavedBeforeTouched, Offline, CommandRuns, Idle, Ends, Touching
  <1>3. pc \notin {"snapshot", "manifest"}
    BY DEF Ends, Touching
  <1> QED
    BY <1>1, <1>2, <1>3, MoveKeepsIInv
\* Ends of commands, and the steps that lead from one touch of the database to
\* the next without changing it.
LEMMA MovesKeepIInv ==
    IInv /\ (Verified \/ CopyCandidate \/ FailsEarly \/ FailsLate \/ RollbackFails \/ Killed) => IInv'
  <1> SUFFICES ASSUME IInv, Verified \/ CopyCandidate \/ FailsEarly \/ FailsLate \/ RollbackFails \/ Killed
               PROVE  IInv'
    OBVIOUS
  <1>1. UNCHANGED <<database, backup, daemon, acked>>
    BY DEF Verified, CopyCandidate, FailsEarly, FailsLate, RollbackFails, Killed
  <1>2. CASE Verified
    BY <1>1, <1>2, GotoKeepsIInv DEF Verified, Ends, Touching
  <1>3. CASE CopyCandidate
    BY <1>1, <1>3, GotoKeepsIInv DEF CopyCandidate, At, Touching
  <1>4. CASE FailsEarly
    BY <1>1, <1>4, GotoKeepsIInv DEF FailsEarly, Ends, Touching
  <1>5. CASE FailsLate
    <2>1. op.cmd \notin {"none", "backup"} /\ op.own \in Backups /\ daemon = 0 /\ \A w \in acked : Saved(w)
      BY <1>5 DEF IInv, SavedBeforeTouched, Offline, CommandRuns, Idle, Ends, Touching, FailsLate
    <2>2. op' \in [cmd : Commands, pc : Steps \cup Ends, own : Backups \cup {None}, seen : Nat,
                   rollback : BOOLEAN, before : Contents, goal : Contents]
      BY <1>5 DEF IInv, TypeOK, FailsLate, Steps, Touching, Ends
    <2>3. op'.cmd = op.cmd /\ op'.own = op.own /\ op'.pc \in {"copy", "unclear"}
      BY <1>5 DEF FailsLate, IInv, TypeOK
    <2> QED
      BY <1>1, <2>1, <2>2, <2>3, MoveKeepsIInv
  <1>6. CASE RollbackFails
    BY <1>1, <1>6, GotoKeepsIInv DEF RollbackFails, Ends, Touching
  <1>7. CASE Killed
    BY <1>1, <1>7, GotoKeepsIInv DEF Killed, Ends, Touching
  <1> QED
    BY <1>2, <1>3, <1>4, <1>5, <1>6, <1>7

\* The checkpoint moves what is seen into the main file.
LEMMA CheckpointKeepsIInv == IInv /\ CheckpointDatabase => IInv'
  <1> SUFFICES ASSUME IInv, CheckpointDatabase PROVE IInv'
    OBVIOUS
  <1>1. /\ op.pc = "checkpoint" /\ main' = View /\ wal' = NoLog
        /\ Goto("status") /\ UNCHANGED <<backup, daemon, acked>>
    BY DEF CheckpointDatabase, At
  <1>2. View' = View /\ wal'.kind = "none"
    BY <1>1 DEF View, NoLog
  <1>3. /\ op' \in [cmd : Commands, pc : Steps \cup Ends, own : Backups \cup {None}, seen : Nat,
                    rollback : BOOLEAN, before : Contents, goal : Contents]
        /\ op'.pc = "status" /\ op'.cmd = op.cmd
    BY <1>1, GotoType DEF Steps, Early
  <1>4. TypeOK'
    <2>1. View \in Contents /\ Empty \in Contents
      BY ViewType DEF IInv, TypeOK, Empty, Contents
    <2>2. main' \in Contents /\ wal' \in [kind : {"none", "own", "foreign"}, content : Contents]
      BY <1>1, <2>1 DEF NoLog
    <2> QED
      BY <1>1, <1>3, <2>2 DEF IInv, TypeOK
  <1>5. Offline' /\ CommandRuns' /\ OwnOutput' /\ SnapshotIsCurrent' /\ SavedBeforeTouched' /\ NoLogAtRename'
    BY <1>1, <1>3 DEF IInv, Offline, CommandRuns, Idle, Ends, OwnOutput, SnapshotIsCurrent, SavedBeforeTouched, Touching,
       NoLogAtRename
  <1>6. DatabaseIsWhole'
    BY <1>2 DEF DatabaseIsWhole
  <1>7. NothingAcknowledgedIsLost'
    BY <1>1, <1>2 DEF IInv, NothingAcknowledgedIsLost, Readable
  <1> QED
    BY <1>4, <1>5, <1>6, <1>7 DEF IInv

\* The steps of a backup touch one directory that is not complete, and leave
\* the database alone: what is lost by nobody stays so.
LEMMA BackupStepKeepsSafety ==
    ASSUME IInv, NEW b \in Backups, UNCHANGED <<database, acked>>, backup[b].stage # "complete",
           \A d \in Backups \ {b} : backup'[d] = backup[d]
    PROVE  View' = View /\ DatabaseIsWhole' /\ NothingAcknowledgedIsLost'
  <1>1. View' = View
    BY DEF View, database
  <1>2. \A d \in Backups : Readable(d) => backup'[d] = backup[d]
    BY DEF Readable
  <1>3. NothingAcknowledgedIsLost'
    <2> SUFFICES ASSUME NEW w \in acked, w \notin View.data PROVE Saved(w)'
      BY <1>1 DEF NothingAcknowledgedIsLost, Saved
    <2> QED
      BY <1>2, SavedStays DEF IInv, NothingAcknowledgedIsLost, Saved
  <1> QED
    BY <1>1, <1>3 DEF IInv, DatabaseIsWhole, database

\* A directory is made.
LEMMA OpenOutputKeepsIInv == ASSUME NEW b \in Backups PROVE IInv /\ OpenOutput(b) => IInv'
  <1> SUFFICES ASSUME IInv, OpenOutput(b) PROVE IInv'
    OBVIOUS
  <1>1. /\ op.pc = "status" /\ backup[b].stage = "absent"
        /\ backup' = [backup EXCEPT ![b].stage = "open"]
        /\ op' = [op EXCEPT !.pc = "snapshot", !.own = b, !.seen = View.ver]
        /\ UNCHANGED <<database, daemon, acked>>
    BY DEF OpenOutput, At
  <1>2. View' = View /\ DatabaseIsWhole' /\ NothingAcknowledgedIsLost'
    BY <1>1, BackupStepKeepsSafety DEF IInv, TypeOK
  <1>3. View \in Contents
    BY ViewType DEF IInv, TypeOK
  <1>4. /\ op' \in [cmd : Commands, pc : Steps \cup Ends, own : Backups \cup {None}, seen : Nat,
                    rollback : BOOLEAN, before : Contents, goal : Contents]
        /\ op'.pc = "snapshot" /\ op'.own = b /\ op'.seen = View.ver /\ op'.cmd = op.cmd
    BY <1>1, <1>3 DEF IInv, TypeOK, Steps, Contents
  <1>5. TypeOK'
    <2>1. backup' \in [Backups -> [stage : Stages, content : Contents, manifest : Nat]]
      BY <1>1 DEF IInv, TypeOK, Stages
    <2> QED
      BY <1>1, <1>4, <2>1 DEF IInv, TypeOK, database
  <1>6. backup'[b].stage = "open"
    BY <1>1 DEF IInv, TypeOK
  <1>7. Offline' /\ CommandRuns' /\ OwnOutput' /\ SnapshotIsCurrent' /\ SavedBeforeTouched' /\ NoLogAtRename'
    BY <1>1, <1>2, <1>4, <1>6 DEF IInv, Offline, CommandRuns, Idle, Ends, OwnOutput, SnapshotIsCurrent, SavedBeforeTouched,
       Touching, NoLogAtRename
  <1> QED
    BY <1>2, <1>5, <1>7 DEF IInv

\* The snapshot is taken.
LEMMA SnapshotKeepsIInv == ASSUME NEW b \in Backups PROVE IInv /\ Snapshot(b) => IInv'
  <1> SUFFICES ASSUME IInv, Snapshot(b) PROVE IInv'
    OBVIOUS
  <1>1. /\ op.pc = "snapshot" /\ op.own = b
        /\ backup' = [backup EXCEPT ![b].stage = "copied", ![b].content = View]
        /\ Goto("manifest") /\ UNCHANGED <<database, daemon, acked>>
    BY DEF Snapshot, At
  <1>2. backup[b].stage = "open"
    BY <1>1 DEF IInv, OwnOutput
  <1>3. View' = View /\ DatabaseIsWhole' /\ NothingAcknowledgedIsLost'
    BY <1>1, <1>2, BackupStepKeepsSafety DEF IInv, TypeOK
  <1>4. View \in Contents
    BY ViewType DEF IInv, TypeOK
  <1>5. /\ op' \in [cmd : Commands, pc : Steps \cup Ends, own : Backups \cup {None}, seen : Nat,
                    rollback : BOOLEAN, before : Contents, goal : Contents]
        /\ op'.pc = "manifest" /\ op'.own = b /\ op'.seen = op.seen /\ op'.cmd = op.cmd
    BY <1>1, GotoType DEF Steps
  <1>6. TypeOK'
    <2> DEFINE Row == [stage : Stages, content : Contents, manifest : Nat]
    <2>0. backup \in [Backups -> Row]
      BY DEF IInv, TypeOK
    <2>2. [backup[b] EXCEPT !.stage = "copied", !.content = View] \in Row
      BY <1>4, <2>0 DEF Stages
    <2>3. backup' = [backup EXCEPT ![b] = [backup[b] EXCEPT !.stage = "copied", !.content = View]]
      BY <1>1, <2>0
    <2>1. backup' \in [Backups -> Row]
      <3> HIDE DEF Row
      <3> QED
        BY <2>0, <2>2, <2>3
    <2> QED
      BY <1>1, <1>5, <2>1 DEF IInv, TypeOK, database
  <1>7. backup'[b].stage = "copied" /\ backup'[b].content = View
    BY <1>1 DEF IInv, TypeOK
  <1>8. Offline' /\ CommandRuns' /\ OwnOutput' /\ SnapshotIsCurrent' /\ SavedBeforeTouched' /\ NoLogAtRename'
    BY <1>1, <1>3, <1>5, <1>7 DEF IInv, Offline, CommandRuns, Idle, Ends, OwnOutput, SnapshotIsCurrent, SavedBeforeTouched,
       Touching, NoLogAtRename
  <1> QED
    BY <1>3, <1>6, <1>8 DEF IInv
\* The backup is complete: without a daemon it has everything.
LEMMA WriteManifestKeepsIInv == ASSUME NEW b \in Backups PROVE IInv /\ WriteManifest(b) => IInv'
  <1> SUFFICES ASSUME IInv, WriteManifest(b) PROVE IInv'
    OBVIOUS
  <1>1. /\ op.pc = "manifest" /\ op.own = b
        /\ backup' = [backup EXCEPT ![b].stage = "complete", ![b].manifest = op.seen]
        /\ Goto(Continue) /\ UNCHANGED <<database, daemon, acked>>
    BY DEF WriteManifest, At
  <1>2. backup[b].stage = "copied"
    BY <1>1 DEF IInv, OwnOutput
  <1>3. View' = View /\ DatabaseIsWhole' /\ NothingAcknowledgedIsLost'
    BY <1>1, <1>2, BackupStepKeepsSafety DEF IInv, TypeOK
  <1>4. op.cmd \in {"backup", "restore", "upgrade"}
    BY <1>1 DEF IInv, TypeOK, Commands, CommandRuns, Idle, Ends
  <1>5. Continue \in {"ok", "copy", "configure"} /\ (Continue = "ok" <=> op.cmd = "backup")
    BY <1>4 DEF Continue
  <1>6. /\ op' \in [cmd : Commands, pc : Steps \cup Ends, own : Backups \cup {None}, seen : Nat,
                    rollback : BOOLEAN, before : Contents, goal : Contents]
        /\ op'.pc = Continue /\ op'.own = b /\ op'.cmd = op.cmd
    BY <1>1, <1>5, GotoType DEF Steps, Touching, Ends
  <1>7. TypeOK'
    <2> DEFINE Row == [stage : Stages, content : Contents, manifest : Nat]
    <2>0. backup \in [Backups -> Row] /\ op.seen \in Nat
      BY DEF IInv, TypeOK
    <2>2. [backup[b] EXCEPT !.stage = "complete", !.manifest = op.seen] \in Row
      BY <2>0 DEF Stages
    <2>3. backup' = [backup EXCEPT ![b] = [backup[b] EXCEPT !.stage = "complete", !.manifest = op.seen]]
      BY <1>1, <2>0
    <2>1. backup' \in [Backups -> Row]
      <3> HIDE DEF Row
      <3> QED
        BY <2>0, <2>2, <2>3
    <2> QED
      BY <1>1, <1>6, <2>1 DEF IInv, TypeOK, database
  <1>8. SavedBeforeTouched'
    <2> SUFFICES ASSUME op'.pc \in Touching
                 PROVE  op'.cmd # "backup" /\ op'.own \in Backups /\ \A w \in acked' : Saved(w)'
      BY DEF SavedBeforeTouched
    <2>1. op.cmd # "backup"
      BY <1>5, <1>6 DEF Touching
    <2>2. backup[b].content = View /\ op.seen = View.ver
      BY <1>1, <2>1 DEF IInv, SnapshotIsCurrent
    <2>3. backup'[b].content = View /\ backup'[b].stage = "complete" /\ backup'[b].manifest = View.ver
      BY <1>1, <2>2 DEF IInv, TypeOK
    <2>4. Readable(b)'
      BY <2>3 DEF Readable
    <2>5. ASSUME NEW w \in acked' PROVE Saved(w)'
      <3>1. w \in View'.data \/ Saved(w)'
        BY <1>3, <2>5 DEF NothingAcknowledgedIsLost, Saved
      <3> QED
        BY <1>3, <2>3, <2>4, <3>1 DEF Saved
    <2> QED
      BY <1>6, <2>1, <2>5
  <1>9. Offline' /\ CommandRuns' /\ OwnOutput' /\ SnapshotIsCurrent' /\ NoLogAtRename'
    BY <1>1, <1>5, <1>6 DEF IInv, Offline, CommandRuns, Idle, Ends, OwnOutput, SnapshotIsCurrent, NoLogAtRename
  <1> QED
    BY <1>3, <1>7, <1>8, <1>9 DEF IInv

\* An incomplete backup is removed.
LEMMA BackupFailsKeepsIInv == ASSUME NEW b \in Backups PROVE IInv /\ BackupFails(b) => IInv'
  <1> SUFFICES ASSUME IInv, BackupFails(b) PROVE IInv'
    OBVIOUS
  <1>1. /\ op.pc \in {"snapshot", "manifest"} /\ op.own = b
        /\ backup' = [backup EXCEPT ![b] = Absent]
        /\ Goto("failed") /\ UNCHANGED <<database, daemon, acked>>
    BY DEF BackupFails
  <1>2. backup[b].stage # "complete"
    BY <1>1 DEF IInv, OwnOutput
  <1>3. View' = View /\ DatabaseIsWhole' /\ NothingAcknowledgedIsLost'
    BY <1>1, <1>2, BackupStepKeepsSafety DEF IInv, TypeOK
  <1>4. /\ op' \in [cmd : Commands, pc : Steps \cup Ends, own : Backups \cup {None}, seen : Nat,
                    rollback : BOOLEAN, before : Contents, goal : Contents]
        /\ op'.pc = "failed"
    BY <1>1, GotoType DEF Ends
  <1>5. TypeOK'
    <2>1. Absent \in [stage : Stages, content : Contents, manifest : Nat]
      BY DEF Absent, Stages, Empty, Contents
    <2> QED
      BY <1>1, <1>4, <2>1 DEF IInv, TypeOK, database
  <1>6. Offline' /\ CommandRuns' /\ OwnOutput' /\ SnapshotIsCurrent' /\ SavedBeforeTouched' /\ NoLogAtRename'
    BY <1>4 DEF Offline, CommandRuns, Idle, Ends, OwnOutput, SnapshotIsCurrent, SavedBeforeTouched, Touching, NoLogAtRename
  <1> QED
    BY <1>3, <1>5, <1>6 DEF IInv

-----------------------------------------------------------------------------
(* The steps that change the database.  Everything is in a backup by then, *)
(* and the directories do not change.                                      *)

\* What a command that touches the database keeps, if the log it leaves is not
\* one of another file.
LEMMA TouchKeepsIInv ==
    ASSUME IInv, op.pc \in Touching, UNCHANGED <<backup, daemon, acked>>,
           main' \in Contents, wal' \in [kind : {"none", "own", "foreign"}, content : Contents],
           wal'.kind # "foreign",
           NEW pc \in Touching \cup Ends, Goto(pc), pc = "rename" => wal'.kind = "none"
    PROVE  IInv'
  <1>1. /\ op' \in [cmd : Commands, pc : Steps \cup Ends, own : Backups \cup {None}, seen : Nat,
                    rollback : BOOLEAN, before : Contents, goal : Contents]
        /\ op'.pc = pc /\ op'.cmd = op.cmd /\ op'.own = op.own
    BY GotoType DEF Steps
  <1>2. daemon = 0 /\ op.cmd \notin {"none", "backup"} /\ op.own \in Backups /\ \A w \in acked : Saved(w)
    BY DEF IInv, SavedBeforeTouched, Offline, CommandRuns, Idle, Ends, Touching
  <1>3. TypeOK'
    BY <1>1 DEF IInv, TypeOK
  <1>4. \A w \in acked' : Saved(w)'
    BY <1>2, SavedStays
  <1>5. NothingAcknowledgedIsLost'
    BY <1>4 DEF NothingAcknowledgedIsLost, Saved
  <1>6. pc \notin {"snapshot", "manifest"}
    BY DEF Touching, Ends
  <1>7. Offline' /\ CommandRuns' /\ OwnOutput' /\ SnapshotIsCurrent' /\ SavedBeforeTouched' /\ NoLogAtRename'
    BY <1>1, <1>2, <1>4, <1>6 DEF Offline, CommandRuns, OwnOutput, SnapshotIsCurrent, SavedBeforeTouched,
       NoLogAtRename
  <1> QED
    BY <1>3, <1>5, <1>7 DEF IInv, DatabaseIsWhole

\* The scripts of a migration.
LEMMA MigrationKeepsIInv == IInv /\ (Configure \/ Migrate) => IInv'
  <1> SUFFICES ASSUME IInv, Configure \/ Migrate PROVE IInv'
    OBVIOUS
  <1>1. View \in Contents
    BY ViewType DEF IInv, TypeOK
  <1>2. PICK c \in Contents, pc \in {"migrate", "verify"} : Commit(c) /\ Goto(pc)
    <2>1. CASE Configure
      <3>1. [View EXCEPT !.ver = 2] \in Contents
        BY <1>1 DEF Contents
      <3> QED
        BY <2>1, <3>1 DEF Configure
    <2>2. CASE Migrate
      <3>1. [View EXCEPT !.ver = @ + 1] \in Contents
        BY <1>1 DEF Contents
      <3> QED
        BY <2>2, <3>1 DEF Migrate
    <2> QED
      BY <2>1, <2>2
  <1>3. op.pc \in Touching /\ UNCHANGED <<backup, daemon, acked>>
    BY DEF Configure, Migrate, At, Touching
  <1>4. /\ wal'.kind # "foreign" /\ main' \in Contents
        /\ wal' \in [kind : {"none", "own", "foreign"}, content : Contents]
    BY <1>2, CommitIsSeen DEF IInv, TypeOK
  <1> QED
    BY <1>2, <1>3, <1>4, TouchKeepsIInv DEF Touching

\* The log is removed and the file renamed.
LEMMA ReplaceKeepsIInv == IInv /\ (UnlinkLogs \/ Rename) => IInv'
  <1> SUFFICES ASSUME IInv, UnlinkLogs \/ Rename PROVE IInv'
    OBVIOUS
  <1>1. NoLog \in [kind : {"none", "own", "foreign"}, content : Contents] /\ NoLog.kind = "none"
    BY DEF NoLog, Empty, Contents
  <1>2. CASE UnlinkLogs
    <2>1. main' \in Contents
      BY <1>2 DEF IInv, TypeOK, UnlinkLogs
    <2> QED
      BY <1>1, <1>2, <2>1, TouchKeepsIInv DEF UnlinkLogs, At, Touching
  <1>3. CASE Rename
    <2>1. op.pc = "rename" /\ UNCHANGED <<backup, daemon, acked>>
      BY <1>3 DEF Rename, At
    <2>2. wal' = NoLog
      BY <1>3, <2>1 DEF Rename, IInv, NoLogAtRename
    <2>3. op.own \in Backups
      BY <2>1 DEF IInv, SavedBeforeTouched, Touching
    <2>4. main' \in Contents
      BY <1>3, <2>3 DEF Rename, IInv, TypeOK
    <2>5. PICK pc \in {"failed", "verify"} : Goto(pc)
      BY <1>3 DEF Rename
    <2> QED
      BY <1>1, <2>1, <2>2, <2>4, <2>5, TouchKeepsIInv DEF Touching, Ends
  <1> QED
    BY <1>2, <1>3

-----------------------------------------------------------------------------
(* The strengthening is an invariant. *)

\* Every step keeps the strengthening.
LEMMA NextKeepsIInv == IInv /\ [Next]_vars => IInv'
  <1> SUFFICES ASSUME IInv, [Next]_vars PROVE IInv'
    OBVIOUS
  <1>1. CASE UNCHANGED vars
    BY <1>1 DEF vars, IInv, TypeOK, Offline, Idle, OwnOutput, SnapshotIsCurrent, SavedBeforeTouched, Saved,
       NoLogAtRename, DatabaseIsWhole, NothingAcknowledgedIsLost, Readable, View, CommandRuns
  <1>2. CASE Next
    BY <1>2, DaemonTurnsKeepIInv, DaemonWriteKeepsIInv, BeginKeepsIInv, MovesKeepIInv, CheckpointKeepsIInv,
       OpenOutputKeepsIInv, SnapshotKeepsIInv, WriteManifestKeepsIInv, BackupFailsKeepsIInv,
       MigrationKeepsIInv, ReplaceKeepsIInv
    DEF Next
  <1> QED
    BY <1>1, <1>2

-----------------------------------------------------------------------------
(* What a command has done.                                                *)

\* The record of the command moves on and stays the same otherwise.
LEMMA GotoFields ==
    ASSUME IInv, NEW pc, Goto(pc)
    PROVE  /\ op'.pc = pc /\ op'.cmd = op.cmd /\ op'.own = op.own /\ op'.seen = op.seen
           /\ op'.rollback = op.rollback /\ op'.before = op.before /\ op'.goal = op.goal
  BY DEF IInv, TypeOK, Goto

LEMMA OpFields ==
    ASSUME IInv
    PROVE  /\ op.cmd \in Commands /\ op.pc \in Steps \cup Ends /\ op.rollback \in BOOLEAN
           /\ op.before \in Contents /\ op.goal \in Contents
           /\ op.pc \in Touching => op.cmd \in {"restore", "upgrade"} /\ op.own \in Backups
           /\ ~Idle <=> op.pc \in Steps
           /\ op.pc \in {"snapshot", "manifest"} => op.own \in Backups
           /\ ~Idle => op.cmd \in {"backup", "restore", "upgrade"}
  BY DEF IInv, TypeOK, SavedBeforeTouched, OwnOutput, CommandRuns, Commands, Idle, Steps, Early,
         Touching, Ends

\* A command that ends, in whichever way, is bound by nothing further.
LEMMA EndKeepsProgress ==
    ASSUME Progress, op'.pc \in Ends, op'.cmd = op.cmd, op'.before = op.before, op'.goal = op.goal
    PROVE  Progress'
  BY DEF Progress, BackupKeepsUp, RollbackIsReady, RestoreIsDone, UpgradeIsDone, Idle, Ends, Early

\* The daemon beside a backup only adds.
LEMMA DaemonKeepsProgress ==
    IInv /\ Progress /\ (DaemonStart \/ DaemonStop \/ DaemonWrite) => Progress'
  <1> SUFFICES ASSUME IInv, Progress, DaemonStart \/ DaemonStop \/ DaemonWrite PROVE Progress'
    OBVIOUS
  <1>1. UNCHANGED <<backup, op>>
    BY DEF DaemonStart, DaemonStop, DaemonWrite
  <1>2. CASE DaemonStart \/ DaemonStop
    <2>1. View' = View
      BY <1>2 DEF DaemonStart, DaemonStop, View, database
    <2> QED
      BY <1>1, <2>1 DEF Progress, BackupKeepsUp, RollbackIsReady, RestoreIsDone, UpgradeIsDone, Idle,
         Readable
  <1>3. CASE DaemonWrite
    <2>1. PICK w \in (1..MaxWrites) \ acked : Commit([View EXCEPT !.data = @ \cup {w}])
      BY <1>3 DEF DaemonWrite
    <2> DEFINE c == [View EXCEPT !.data = @ \cup {w}]
    <2>2. View \in Contents
      BY ViewType DEF IInv, TypeOK
    <2>3. c \in Contents /\ View.data \subseteq c.data /\ c.ver = View.ver
      BY <2>2 DEF Contents
    <2>4. View' = c
      <3> HIDE DEF c
      <3> QED
        BY <2>1, <2>3, CommitIsSeen DEF IInv, TypeOK, c
    <2> HIDE DEF c
    <2>5. View.data \subseteq View'.data /\ View'.ver = View.ver
      BY <2>3, <2>4
    <2>6. Idle \/ op.cmd = "backup"
      BY <1>3 DEF IInv, Offline, DaemonWrite
    <2>7. op.pc \notin Touching
      BY <2>6 DEF IInv, SavedBeforeTouched, Idle, Ends, Touching
    <2>8. op'.pc \notin {"configure", "migrate", "verify"} /\ ~(~Idle' /\ op'.cmd # "backup")
      BY <1>1, <2>6, <2>7 DEF Touching, Idle
    <2> QED
      BY <1>1, <2>5, <2>8 DEF Progress, BackupKeepsUp, RollbackIsReady, RestoreIsDone, UpgradeIsDone
  <1> QED
    BY <1>2, <1>3

LEMMA BeginKeepsProgress == IInv /\ Begins => Progress'
  <1> SUFFICES ASSUME IInv, Begins PROVE Progress'
    OBVIOUS
  <1>1. View' = View
    BY DEF Begins, BackupBegins, UpgradeBegins, RestoreBegins, View, database
  <1>2. /\ op'.pc \in Early /\ op'.rollback = FALSE /\ op'.before = View
        /\ op'.cmd = "upgrade" => op'.goal = [View EXCEPT !.ver = Version]
    BY DEF Begins, BackupBegins, UpgradeBegins, RestoreBegins, Run, Early
  <1> QED
    BY <1>1, <1>2 DEF Progress, BackupKeepsUp, RollbackIsReady, RestoreIsDone, UpgradeIsDone, Early,
       Touching

\* Checkpoint and backup leave what is seen alone.
LEMMA BackupKeepsProgress ==
    ASSUME IInv, Progress,
           CheckpointDatabase \/ \E b \in Backups : OpenOutput(b) \/ Snapshot(b) \/ WriteManifest(b)
    PROVE  Progress'
  <1>0. Progress <=> BackupKeepsUp /\ RollbackIsReady /\ RestoreIsDone /\ UpgradeIsDone
    BY DEF Progress
  <1>1. CASE CheckpointDatabase
    <2>1. View' = View
      BY <1>1 DEF CheckpointDatabase, View, NoLog
    <2>2. op.pc = "checkpoint" /\ Goto("status") /\ backup' = backup
      BY <1>1 DEF CheckpointDatabase, At
    <2>3. /\ op'.pc = "status" /\ op'.cmd = op.cmd /\ op'.rollback = op.rollback
          /\ op'.before = op.before /\ op'.goal = op.goal
      BY <2>2, GotoFields
    <2> QED
      BY <1>0, <2>1, <2>2, <2>3 DEF Progress, BackupKeepsUp, RollbackIsReady, RestoreIsDone,
         UpgradeIsDone, Early, Touching, Idle, Ends
  <1>2. ASSUME NEW b \in Backups, OpenOutput(b) PROVE Progress'
    <2>1. View' = View
      BY <1>2 DEF OpenOutput, View, database
    <2>2. /\ op.pc = "status" /\ op'.pc = "snapshot" /\ op'.cmd = op.cmd /\ op'.seen = View.ver
          /\ op'.rollback = op.rollback /\ op'.before = op.before /\ op'.goal = op.goal
      BY <1>2 DEF OpenOutput, At, IInv, TypeOK
    <2> QED
      BY <1>0, <2>1, <2>2 DEF Progress, BackupKeepsUp, RollbackIsReady, RestoreIsDone,
         UpgradeIsDone, Early, Touching, Idle, Ends
  <1>3. ASSUME NEW b \in Backups, Snapshot(b) PROVE Progress'
    <2>1. View' = View
      BY <1>3 DEF Snapshot, View, database
    <2>2. /\ op.pc = "snapshot" /\ op.own = b /\ Goto("manifest")
          /\ backup' = [backup EXCEPT ![b].stage = "copied", ![b].content = View]
      BY <1>3 DEF Snapshot, At
    <2>3. /\ op'.pc = "manifest" /\ op'.cmd = op.cmd /\ op'.own = b /\ op'.seen = op.seen
          /\ op'.rollback = op.rollback /\ op'.before = op.before /\ op'.goal = op.goal
      BY <2>2, GotoFields
    <2>4. backup'[b].content = View
      BY <2>2 DEF IInv, TypeOK
    <2> QED
      BY <1>0, <2>1, <2>2, <2>3, <2>4 DEF Progress, BackupKeepsUp, RollbackIsReady, RestoreIsDone,
         UpgradeIsDone, Early, Touching, Idle, Ends
  <1>4. ASSUME NEW b \in Backups, WriteManifest(b) PROVE Progress'
    <2>1. View' = View
      BY <1>4 DEF WriteManifest, View, database
    <2>2. /\ op.pc = "manifest" /\ op.own = b /\ Goto(Continue)
          /\ backup' = [backup EXCEPT ![b].stage = "complete", ![b].manifest = op.seen]
      BY <1>4 DEF WriteManifest, At
    <2>3. /\ op'.pc = Continue /\ op'.cmd = op.cmd /\ op'.own = b
          /\ op'.rollback = op.rollback /\ op'.before = op.before /\ op'.goal = op.goal
      BY <2>2, GotoFields
    <2>4. /\ backup'[b].content = backup[b].content /\ backup'[b].manifest = op.seen
          /\ backup'[b].stage = "complete"
      BY <2>2 DEF IInv, TypeOK
    <2>5. op.cmd \in {"backup", "restore", "upgrade"} /\ ~Idle /\ op.pc \notin Touching
      BY <2>2, OpFields DEF Idle, Ends, Touching
    <2>6. CASE op.cmd = "backup"
      <3>1. op'.pc \in Ends
        BY <2>3, <2>6 DEF Continue, Ends
      <3> QED
        BY <2>3, <3>1, EndKeepsProgress
    <2>7. CASE op.cmd \in {"restore", "upgrade"}
      <3>1. op'.pc = IF op.cmd = "restore" THEN "copy" ELSE "configure"
        BY <2>3, <2>7 DEF Continue
      <3>2. backup[b].content = View /\ op.seen = View.ver
        BY <2>2, <2>7 DEF IInv, SnapshotIsCurrent
      <3>3. Readable(b)'
        BY <2>4, <3>2 DEF Readable
      <3>4. View = op.before /\ ~op.rollback
        BY <1>0, <2>2, <2>5, <2>7 DEF RollbackIsReady, Touching
      <3>5. Readable(op.own)' /\ backup'[op'.own].content = op'.before
        BY <2>2, <2>3, <2>4, <3>2, <3>3, <3>4 DEF Readable
      <3>6. RollbackIsReady'
        BY <2>3, <3>1, <3>4, <3>5 DEF RollbackIsReady, Touching, Readable
      <3>7. BackupKeepsUp' /\ RestoreIsDone' /\ UpgradeIsDone'
        BY <1>0, <2>1, <2>3, <2>7, <3>1, <3>4 DEF BackupKeepsUp, RestoreIsDone, UpgradeIsDone
      <3> QED
        BY <3>6, <3>7 DEF Progress
    <2> QED
      BY <2>5, <2>6, <2>7
  <1> QED
    BY <1>1, <1>2, <1>3, <1>4

\* The steps that touch the database leave the directories alone.
LEMMA TouchKeepsProgress ==
    ASSUME IInv, Progress, Configure \/ Migrate \/ CopyCandidate \/ UnlinkLogs \/ Rename \/ FailsLate
    PROVE  Progress'
  <1>0. BackupKeepsUp /\ RollbackIsReady /\ RestoreIsDone /\ UpgradeIsDone
    BY DEF Progress
  <1>1. op.pc \in Touching /\ backup' = backup
    BY DEF Configure, Migrate, CopyCandidate, UnlinkLogs, Rename, FailsLate, At, Touching
  <1>2. /\ op.cmd \in {"restore", "upgrade"} /\ op.own \in Backups /\ ~Idle
        /\ View \in Contents /\ op.before \in Contents
    BY <1>1, OpFields, ViewType DEF Steps, IInv, TypeOK
  <1>3. Readable(op.own) /\ backup[op.own].content = op.before
    BY <1>0, <1>1, <1>2 DEF RollbackIsReady
  \* A move between these steps keeps what the command's own backup is good for.
  <1>4. ASSUME op'.cmd = op.cmd, op'.own = op.own, op'.before = op.before, op'.pc \in Touching,
               op'.rollback => op'.pc \in {"copy", "unlink", "rename"}
        PROVE  BackupKeepsUp' /\ RollbackIsReady'
    BY <1>1, <1>2, <1>3, <1>4 DEF BackupKeepsUp, RollbackIsReady, Readable, Touching
  <1>5. CASE Configure
    <2> DEFINE c == [View EXCEPT !.ver = 2]
    <2>1. c \in Contents /\ c.data = View.data
      BY <1>2 DEF Contents
    <2>2. op.pc = "configure" /\ Commit(c) /\ Goto("migrate")
      BY <1>5 DEF Configure, At
    <2> HIDE DEF c
    <2>3. View'.data = View.data
      BY <2>1, <2>2, CommitIsSeen DEF IInv, TypeOK
    <2>4. /\ op'.pc = "migrate" /\ op'.cmd = op.cmd /\ op'.own = op.own /\ op'.rollback = op.rollback
          /\ op'.before = op.before /\ op'.goal = op.goal
      BY <2>2, GotoFields
    <2>5. ~op.rollback /\ op.cmd = "upgrade"
      BY <1>0, <1>2, <2>2 DEF RollbackIsReady, RestoreIsDone
    <2> QED
      BY <1>0, <1>4, <2>2, <2>3, <2>4, <2>5
         DEF Progress, RestoreIsDone, UpgradeIsDone, Touching
  <1>6. CASE Migrate
    <2> DEFINE c == [View EXCEPT !.ver = @ + 1]
    <2>1. c \in Contents /\ c.data = View.data /\ c.ver = View.ver + 1
      BY <1>2 DEF Contents
    <2>2. /\ op.pc = "migrate" /\ Commit(c)
          /\ Goto(IF View.ver + 1 = Version THEN "verify" ELSE "migrate")
      BY <1>6 DEF Migrate, At
    <2> HIDE DEF c
    <2>3. View' = c
      BY <2>1, <2>2, CommitIsSeen DEF IInv, TypeOK
    <2>4. /\ op'.pc = IF View.ver + 1 = Version THEN "verify" ELSE "migrate"
          /\ op'.cmd = op.cmd /\ op'.own = op.own /\ op'.rollback = op.rollback
          /\ op'.before = op.before /\ op'.goal = op.goal
      BY <2>2, GotoFields
    <2>5. ~op.rollback /\ op.cmd = "upgrade"
      BY <1>0, <1>2, <2>2 DEF RollbackIsReady, RestoreIsDone
    <2>6. View.data = op.before.data /\ op.goal = [op.before EXCEPT !.ver = Version]
      BY <1>0, <2>2, <2>5 DEF UpgradeIsDone
    <2>7. op'.pc = "verify" => c = op.goal
      BY <1>2, <2>1, <2>4, <2>6 DEF Contents
    <2> QED
      BY <1>4, <2>1, <2>3, <2>4, <2>5, <2>6, <2>7
         DEF Progress, RestoreIsDone, UpgradeIsDone, Touching
  <1>7. CASE CopyCandidate \/ UnlinkLogs
    <2>1. PICK pc \in {"unlink", "rename"} : Goto(pc)
      BY <1>7 DEF CopyCandidate, UnlinkLogs
    <2>2. /\ op'.pc = pc /\ op'.cmd = op.cmd /\ op'.own = op.own /\ op'.rollback = op.rollback
          /\ op'.before = op.before /\ op'.goal = op.goal
      BY <2>1, GotoFields
    <2>3. op.pc \in {"copy", "unlink"}
      BY <1>7 DEF CopyCandidate, UnlinkLogs, At
    <2> QED
      BY <1>0, <1>4, <2>2, <2>3 DEF Progress, RestoreIsDone, UpgradeIsDone, Touching
  <1>8. CASE Rename
    <2>1. /\ op.pc = "rename" /\ Goto(IF op.rollback THEN "failed" ELSE "verify")
          /\ main' = IF op.rollback THEN backup[op.own].content ELSE op.goal
          /\ wal' = NoLog
      BY <1>8 DEF Rename, At, IInv, NoLogAtRename
    <2>2. /\ op'.pc = IF op.rollback THEN "failed" ELSE "verify"
          /\ op'.cmd = op.cmd /\ op'.own = op.own /\ op'.rollback = op.rollback
          /\ op'.before = op.before /\ op'.goal = op.goal
      BY <2>1, GotoFields
    <2>3. CASE op.rollback
      BY <2>2, <2>3, EndKeepsProgress DEF Ends
    <2>4. CASE ~op.rollback
      <3>1. View' = op.goal
        BY <2>1, <2>4 DEF View, NoLog
      <3>2. op.cmd = "restore"
        BY <1>0, <1>2, <2>1, <2>4 DEF UpgradeIsDone
      <3> QED
        BY <1>4, <2>2, <2>4, <3>1, <3>2 DEF Progress, RestoreIsDone, UpgradeIsDone, Touching
    <2> QED
      BY <2>3, <2>4
  <1>9. CASE FailsLate
    <2>1. /\ op'.pc = "copy" /\ op'.rollback /\ op'.cmd = op.cmd /\ op'.own = op.own
          /\ op'.before = op.before /\ op'.goal = op.goal
      BY <1>3, <1>9 DEF FailsLate, IInv, TypeOK
    <2> QED
      BY <1>0, <1>4, <2>1 DEF Progress, RestoreIsDone, UpgradeIsDone, Touching
  <1> QED
    BY <1>5, <1>6, <1>7, <1>8, <1>9

LEMMA EndsKeepProgress ==
    ASSUME IInv, Progress,
           \/ Verified \/ FailsEarly \/ RollbackFails \/ Killed
           \/ \E b \in Backups : BackupFails(b)
    PROVE  Progress'
  <1>1. PICK pc \in Ends : Goto(pc)
    BY DEF Verified, FailsEarly, RollbackFails, Killed, BackupFails, Ends
  <1> QED
    BY <1>1, GotoFields, EndKeepsProgress

LEMMA NextKeepsProgress == IInv /\ Progress /\ [Next]_vars => Progress'
  <1> SUFFICES ASSUME IInv, Progress, [Next]_vars PROVE Progress'
    OBVIOUS
  <1>1. CASE UNCHANGED vars
    BY <1>1 DEF vars, Progress, BackupKeepsUp, RollbackIsReady, RestoreIsDone, UpgradeIsDone, Idle,
       Readable, View
  <1> QED
    BY <1>1, DaemonKeepsProgress, BeginKeepsProgress, BackupKeepsProgress, TouchKeepsProgress,
       EndsKeepProgress DEF Next

-----------------------------------------------------------------------------
(* The theorems. *)

\* Wherever a backup, an upgrade or a restore fails or is killed, every
\* acknowledged write is in the database or in a backup that restore accepts.
THEOREM Durability == Spec => []NothingAcknowledgedIsLost
  <1>1. IInv => NothingAcknowledgedIsLost
    BY DEF IInv
  <1> QED
    BY InitIInv, NextKeepsIInv, <1>1, PTL DEF Spec

\* No write-ahead log is ever left next to another main file.
THEOREM Wholeness == Spec => []DatabaseIsWhole
  <1>1. IInv => DatabaseIsWhole
    BY DEF IInv
  <1> QED
    BY InitIInv, NextKeepsIInv, <1>1, PTL DEF Spec

\* A command that returns has done what it promises, one that fails and could roll back has
\* left what it found: whatever failed before, and whatever a daemon wrote beside a backup.
THEOREM Atomicity == Spec => AllOrNothing
  <1> DEFINE Kept ==
        /\ op.pc \notin Ends /\ op'.pc = "ok" =>
              IF op.cmd = "backup"
              THEN Readable(op.own)' /\ op.before.data \subseteq backup'[op.own].content.data
              ELSE View' = op.goal
        /\ op.pc \notin Ends /\ op'.pc = "failed" /\ op.cmd # "backup" => View' = op.before
  <1>1. Init => Progress
    BY DEF Init, Progress, BackupKeepsUp, RollbackIsReady, RestoreIsDone, UpgradeIsDone, Idle, Ends
  <1>2. IInv /\ Progress /\ [Next]_vars => [Kept]_vars
    <2> SUFFICES ASSUME IInv, Progress, Next, op.pc \notin Ends, op'.pc \in {"ok", "failed"}
                 PROVE  Kept
      BY DEF Ends
    <2>0. BackupKeepsUp /\ RollbackIsReady /\ RestoreIsDone /\ UpgradeIsDone /\ ~Idle
      BY DEF Progress, Idle
    <2>1. CASE Verified
      <3>1. op.pc = "verify" /\ op'.pc = "ok" /\ View' = View
        BY <2>1, GotoFields DEF Verified, At, View, database
      <3>2. op.cmd \in {"restore", "upgrade"}
        BY <3>1, OpFields DEF Touching
      <3> QED
        BY <2>0, <3>1, <3>2 DEF RestoreIsDone, UpgradeIsDone
    <2>2. ASSUME NEW b \in Backups, WriteManifest(b) PROVE Kept
      <3>1. /\ op.pc = "manifest" /\ op.own = b /\ op'.own = b /\ op'.pc = Continue
            /\ backup' = [backup EXCEPT ![b].stage = "complete", ![b].manifest = op.seen]
        BY <2>2, GotoFields DEF WriteManifest, At
      <3>2. /\ backup'[b].content = backup[b].content /\ backup'[b].manifest = op.seen
            /\ backup'[b].stage = "complete"
        BY <3>1 DEF IInv, TypeOK
      <3>3. op.cmd = "backup" /\ op'.pc = "ok"
        BY <2>0, <3>1, OpFields DEF Continue
      <3>4. backup[b].content.ver = op.seen /\ op.before.data \subseteq backup[b].content.data
        BY <2>0, <3>1, <3>3 DEF BackupKeepsUp
      <3> QED
        BY <3>1, <3>2, <3>3, <3>4 DEF Readable
    <2>3. CASE FailsEarly
      <3>1. op.pc \in Early /\ op'.pc = "failed" /\ View' = View
        BY <2>3, GotoFields DEF FailsEarly, Early, View, database
      <3>2. op.cmd # "backup" => View = op.before
        BY <2>0, <3>1 DEF RollbackIsReady, Early, Touching
      <3> QED
        BY <3>1, <3>2
    <2>4. ASSUME NEW b \in Backups, BackupFails(b) PROVE Kept
      <3>1. op.pc \in {"snapshot", "manifest"} /\ op'.pc = "failed" /\ View' = View
        BY <2>4, GotoFields DEF BackupFails, View, database
      <3>2. op.cmd # "backup" => View = op.before
        BY <2>0, <3>1 DEF RollbackIsReady, Touching
      <3> QED
        BY <3>1, <3>2
    <2>5. CASE Rename
      <3>1. /\ op.pc = "rename" /\ Goto(IF op.rollback THEN "failed" ELSE "verify")
            /\ main' = IF op.rollback THEN backup[op.own].content ELSE op.goal
            /\ wal' = NoLog
        BY <2>5 DEF Rename, At, IInv, NoLogAtRename
      <3>2. op'.pc = IF op.rollback THEN "failed" ELSE "verify"
        BY <3>1, GotoFields
      <3>3. op.rollback /\ op'.pc = "failed"
        BY <3>2
      <3>4. op.cmd # "backup" => backup[op.own].content = op.before
        BY <2>0, <3>1 DEF RollbackIsReady, Touching
      <3> QED
        BY <3>1, <3>3, <3>4 DEF View, NoLog
    <2>6. CASE CheckpointDatabase \/ CopyCandidate \/ UnlinkLogs \/ Configure
      <3>1. PICK pc \in {"status", "unlink", "rename", "migrate"} : Goto(pc)
        BY <2>6 DEF CheckpointDatabase, CopyCandidate, UnlinkLogs, Configure
      <3> QED
        BY <3>1, GotoFields
    <2>7. CASE Migrate
      <3>1. PICK pc \in {"verify", "migrate"} : Goto(pc)
        BY <2>7 DEF Migrate
      <3> QED
        BY <3>1, GotoFields
    <2>8. ASSUME NEW b \in Backups, OpenOutput(b) \/ Snapshot(b) PROVE Kept
      <3>1. op'.pc \in {"snapshot", "manifest"}
        BY <2>8, GotoFields DEF OpenOutput, Snapshot, IInv, TypeOK
      <3> QED
        BY <3>1
    <2>9. CASE FailsLate
      <3>1. op'.pc \in {"copy", "unclear"}
        BY <2>9 DEF FailsLate, IInv, TypeOK
      <3> QED
        BY <3>1
    <2>10. CASE RollbackFails \/ Killed
      <3>1. PICK pc \in {"unclear", "killed"} : Goto(pc)
        BY <2>10 DEF RollbackFails, Killed
      <3> QED
        BY <3>1, GotoFields
    <2>11. CASE DaemonStart \/ DaemonStop \/ DaemonWrite
      <3>1. op' = op
        BY <2>11 DEF DaemonStart, DaemonStop, DaemonWrite
      <3> QED
        BY <3>1 DEF Ends
    <2>12. ~Begins
      BY <2>0 DEF Begins, BackupBegins, UpgradeBegins, RestoreBegins
    <2> QED
      BY <2>1, <2>2, <2>3, <2>4, <2>5, <2>6, <2>7, <2>8, <2>9, <2>10, <2>11, <2>12 DEF Next
  <1> QED
    BY InitIInv, NextKeepsIInv, NextKeepsProgress, <1>1, <1>2, PTL DEF Spec, AllOrNothing
===============================================================================

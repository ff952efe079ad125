----------------------------- MODULE Migrations -----------------------------
(***************************************************************************)
(* Opening, upgrading, rolling back, backing up and restoring one          *)
(* trekoon.db from several processes (src/src/storage/migrations.ts,       *)
(* backup.ts, commands/migrate.ts).  Each process is one command: it opens *)
(* the database, works and closes it.  A transaction is one action; every  *)
(* read, transaction and file operation between which another process can  *)
(* run is an action of its own.                                            *)
(*                                                                         *)
(* Releases may differ: Release[p] is the newest migration the binary of p *)
(* knows, as when two worktrees run different installs on the one file.    *)
(***************************************************************************)
EXTENDS SchemaObjects, FiniteSets

CONSTANTS
    Process,        \* concurrent commands
    Release,        \* the newest version that the binary of a process knows
    Targets,        \* the values of migrate rollback --to-version, -1 if not given
    Retain,         \* migrate backup --retain
    MaxCommands,    \* bound: commands started in a behaviour
    Databases,      \* the databases a command may find at the start
    Items           \* ids of the tasks and subtasks, for the dependency rows

ASSUME ReleaseAssumption == Release \in [Process -> 1..LatestMigrationVersion]
ASSUME TargetsAssumption == Targets \subseteq Nat \cup {-1}
ASSUME MaxCommandsAssumption == MaxCommands \in Nat
ASSUME RetainAssumption == Retain \in Nat \ {0}

VARIABLES
    db,         \* the database file
    marker,     \* the migration-version file beside it
    tmp,        \* its .tmp, shared by all writers
    backups,    \* copies, oldest first
    pc, job,    \* where each command is, and what it carries
    started     \* how many commands have been started

vars == <<db, marker, tmp, backups, pc, job, started>>

(***************************************************************************)
(* A database: the versions recorded in schema_migrations, PRAGMA          *)
(* user_version, the schema, the dependency rows, and the row of the base  *)
(* migration if its version is not known: "no column" before the version   *)
(* column exists, "null" between the ALTER and the UPDATE.                 *)
(***************************************************************************)
Empty == [applied |-> {}, userVersion |-> 0, unversioned |-> "none",
          schema |-> EmptySchema, edges |-> {}]

CurrentVersion(d) == IF d.applied = {} THEN 0
                     ELSE CHOOSE v \in d.applied : \A u \in d.applied : u <= v

\* The version of the schema itself, counting a base row not yet numbered.
SchemaLevel(d) == IF d.applied = {} /\ d.unversioned # "none" THEN 1 ELSE CurrentVersion(d)

None == [version |-> -1, userVersion |-> -1]
Payload(version, userVersion) == [version |-> version, userVersion |-> userVersion]
Idle == [kind |-> "idle", target |-> 0, payload |-> None]

\* A database that some release has left: a gapless run of versions is recorded, the
\* header claims none that is not, the objects of its version are there, and a base row
\* without a number is of a release before the scopes.
DatabaseOK(d) ==
    d \in [applied : SUBSET (1..LatestMigrationVersion), userVersion : 0..LatestMigrationVersion,
           unversioned : {"none", "no column", "null"}, schema : Schemas, edges : {d.edges}]
Gapless(d) == d.applied = 1..CurrentVersion(d)
HeaderClaims(d) == 1..d.userVersion \subseteq d.applied
LeftByRelease(d) ==
    /\ DatabaseOK(d) /\ Gapless(d) /\ HeaderClaims(d)
    /\ Fits(SchemaLevel(d), d.schema)
    /\ d.unversioned # "none" => d.applied = {} /\ Unscoped(d.schema)
    /\ \A r \in d.edges : r.id \in Nat

ASSUME DatabasesAssumption == \A d \in Databases : LeftByRelease(d)

\* migrateBoardIdempotencyState
BackfillState(d) ==
    [d EXCEPT !.schema = Exec(@, Column("board_idempotency_keys", "state"))]

\* ensureMigrationVersionColumn: the column, then the number of the base row.
AddVersionColumn(d) == [d EXCEPT !.unversioned = IF @ = "no column" THEN "null" ELSE @]
NumberBaseRow(d) == [d EXCEPT !.applied = @ \cup {1}, !.unversioned = "none"]
EnsureVersionColumn(d) ==
    IF d.unversioned = "no column" THEN NumberBaseRow(AddVersionColumn(d)) ELSE d

ApplyMigration(d, v) ==
    LET edges == CleanedEdges(v, d.edges, Items)
    IN  [d EXCEPT !.schema = ExecAll(@, UpStatements[v]), !.edges = edges,
                  !.applied = @ \cup {v}]

\* The pending versions, none if the database is newer than the release.
Ascending(from, to) == IF to < from THEN <<>> ELSE [i \in 1..(to - from) |-> from + i]
ApplyAll(d, versions) ==
    LET after[k \in 0 .. Len(versions)] ==
            IF k = 0 THEN d ELSE ApplyMigration(after[k - 1], versions[k])
    IN  after[Len(versions)]
ApplyPending(d, latest) == ApplyAll(d, Ascending(CurrentVersion(d), latest))

\* The slow path of migrateDatabase, and whether it commits.
Upgraded(d, latest) ==
    [ApplyPending(BackfillState(EnsureVersionColumn(d)), latest) EXCEPT !.userVersion = latest]
UpgradeCommits(d, latest) == ~Upgraded(d, latest).schema.failed

RevertMigration(d, v) ==
    [d EXCEPT !.schema = ExecAll(@, DownStatements[v]), !.applied = @ \ {v},
              !.edges = IF v = 1 THEN {} ELSE @]

\* Mutant: off by one, the newest version stays and the target goes.
DescendingFromPrevious(from, to) == [i \in 1..(from - to) |-> from - i]
Descending(from, to) == [i \in 1..(from - to) |-> from + 1 - i]
RevertAll(d, versions) ==
    LET after[k \in 0 .. Len(versions)] ==
            IF k = 0 THEN d ELSE RevertMigration(after[k - 1], versions[k])
    IN  after[Len(versions)]

\* rollbackDatabase, and the errors that roll its transaction back: a target
\* above, a version without down(), a version this release has no code for.
RolledBack(d, target) ==
    LET ready == EnsureVersionColumn(d)
    IN  [RevertAll(ready, Descending(CurrentVersion(ready), target))
            EXCEPT !.userVersion = target]

\* Mutant: the versions without down() are passed over.
RollbackCommitsAlways(d, target, latest) ==
    /\ target <= CurrentVersion(EnsureVersionColumn(d))
    /\ {v \in EnsureVersionColumn(d).applied : v > target} \subseteq 1..latest

RollbackCommits(d, target, latest) ==
    LET reverted == {v \in EnsureVersionColumn(d).applied : v > target}
    IN  /\ target <= CurrentVersion(EnsureVersionColumn(d))
        /\ reverted \cap Irreversible = {}
        /\ reverted \subseteq 1..latest

(***************************************************************************)
(* Steps of a command.                                                     *)
(***************************************************************************)
Init == /\ db \in Databases
        /\ marker \in {None, Payload(SchemaLevel(db), -1)}
        /\ tmp = None
        /\ backups = <<>>
        /\ pc = [p \in Process |-> "idle"]
        /\ job = [p \in Process |-> Idle]
        /\ started = 0

Goto(p, label) == pc' = [pc EXCEPT ![p] = label]
Start(p) == /\ pc[p] = "idle"
            /\ started < MaxCommands
            /\ started' = started + 1
Become(p, j) == job' = [job EXCEPT ![p] = j]

\* openTrekoonDatabase with autoMigrate, which creates a missing file empty;
\* migrate status and migrate rollback open without it.
Open(p) == /\ Start(p)
           /\ Goto(p, "marker")
           /\ Become(p, [Idle EXCEPT !.kind = "open"])
           /\ UNCHANGED <<db, marker, tmp, backups>>

OpenForStatus(p) == /\ Start(p)
                    /\ Goto(p, "describe")
                    /\ Become(p, [Idle EXCEPT !.kind = "status"])
                    /\ UNCHANGED <<db, marker, tmp, backups>>

OpenForRollback(p) == /\ Start(p)
                      /\ Goto(p, "describe")
                      /\ \E t \in Targets :
                            Become(p, [Idle EXCEPT !.kind = "rollback", !.target = t])
                      /\ UNCHANGED <<db, marker, tmp, backups>>

\* canSkipProbeViaMarker: the payload first, then the header of the database.
ReadMarker(p) ==
    /\ pc[p] = "marker"
    /\ Goto(p, IF marker = Payload(Release[p], Release[p]) THEN "header" ELSE "probe")
    /\ UNCHANGED <<db, marker, tmp, backups, job, started>>

\* Mutant: the marker is believed whatever the header says.
MatchHeaderUnread(p) ==
    /\ pc[p] = "header"
    /\ Goto(p, "ready") /\ db' = BackfillState(db)
    /\ UNCHANGED <<marker, tmp, backups, job, started>>

MatchHeader(p) ==
    /\ pc[p] = "header"
    /\ IF db.userVersion = Release[p]
       THEN Goto(p, "ready") /\ db' = BackfillState(db)
       ELSE Goto(p, "probe") /\ UNCHANGED db
    /\ UNCHANGED <<marker, tmp, backups, job, started>>

\* isSchemaCurrentFastPath: every version of the release and no other.
IsSchemaCurrent(d, latest) == d.unversioned = "none" /\ d.applied = 1..latest

ProbeSchema(p) ==
    /\ pc[p] = "probe"
    /\ IF IsSchemaCurrent(db, Release[p])
       THEN Goto(p, "confirm") /\ db' = BackfillState(db)
       ELSE Goto(p, "upgrade") /\ UNCHANGED db
    /\ UNCHANGED <<marker, tmp, backups, job, started>>

\* The recheck under the exclusive lock, and the stamp in the same transaction.
ConfirmAndStamp(p) ==
    /\ pc[p] = "confirm"
    /\ IF CurrentVersion(db) = Release[p]
       THEN Goto(p, "stamped") /\ db' = [db EXCEPT !.userVersion = Release[p]]
       ELSE Goto(p, "upgrade") /\ UNCHANGED db
    /\ UNCHANGED <<marker, tmp, backups, job, started>>

Upgrade(p) ==
    /\ pc[p] = "upgrade"
    /\ IF UpgradeCommits(db, Release[p])
       THEN Goto(p, "stamped") /\ db' = Upgraded(db, Release[p])
       ELSE Goto(p, "failed") /\ UNCHANGED db
    /\ UNCHANGED <<marker, tmp, backups, job, started>>

\* describeMigrations runs outside a transaction: each statement commits.
AlterTable(p) ==
    /\ pc[p] = "describe"
    /\ IF db.unversioned = "no column"
       THEN Goto(p, "number") /\ db' = AddVersionColumn(db)
       ELSE Goto(p, "described") /\ UNCHANGED db
    /\ UNCHANGED <<marker, tmp, backups, job, started>>

\* The unique index on the version column cannot be made on two rows of version 1.
NumberRow(p) ==
    /\ pc[p] = "number"
    /\ Goto(p, IF 1 \in db.applied THEN "failed" ELSE "described")
    /\ db' = NumberBaseRow(db)
    /\ UNCHANGED <<marker, tmp, backups, job, started>>

Predecessor(d) == IF CurrentVersion(d) = 0 THEN 0 ELSE CurrentVersion(d) - 1

Described(p) ==
    /\ pc[p] = "described"
    /\ db' = BackfillState(db)
    /\ IF job[p].kind = "status"
       THEN Goto(p, "ready") /\ UNCHANGED job
       ELSE /\ Goto(p, "rollback")
            /\ Become(p, [job[p] EXCEPT !.target = IF @ = -1 THEN Predecessor(db) ELSE @])
    /\ UNCHANGED <<marker, tmp, backups, started>>

Rollback(p) ==
    /\ pc[p] = "rollback"
    /\ IF RollbackCommits(db, job[p].target, Release[p])
       THEN Goto(p, "stamped") /\ db' = RolledBack(db, job[p].target)
       ELSE Goto(p, "failed") /\ UNCHANGED db
    /\ UNCHANGED <<marker, tmp, backups, job, started>>

\* runExclusive waits for the lock up to busy_timeout, then SQLITE_BUSY.
LockBusy(p) == /\ pc[p] \in {"confirm", "upgrade", "rollback"}
               /\ \E q \in Process \ {p} : pc[q] \notin {"idle", "failed"}
               /\ Goto(p, "failed")
               /\ UNCHANGED <<db, marker, tmp, backups, job, started>>

\* writeMarkerPayload after the commit: the header is read again, the payload
\* goes to the one temporary file and that file is renamed.  A write that fails
\* is swallowed, except that a rollback then removes the marker.
ReadUserVersion(p) ==
    /\ pc[p] = "stamped"
    /\ Goto(p, "write")
    /\ LET version == IF job[p].kind = "rollback" THEN job[p].target ELSE Release[p]
       IN  Become(p, [job[p] EXCEPT !.payload = Payload(version, db.userVersion)])
    /\ UNCHANGED <<db, marker, tmp, backups, started>>

WriteFails(p) ==
    /\ pc[p] \in {"write", "rename"}
    /\ Goto(p, IF job[p].kind = "rollback" THEN "unlink" ELSE "ready")
    /\ UNCHANGED <<db, marker, tmp, backups, job, started>>

WriteTmp(p) == /\ pc[p] = "write"
               /\ tmp' = job[p].payload
               /\ Goto(p, "rename")
               /\ UNCHANGED <<db, marker, backups, job, started>>

RenameTmp(p) == /\ pc[p] = "rename"
                /\ tmp # None
                /\ marker' = tmp /\ tmp' = None
                /\ Goto(p, "ready")
                /\ UNCHANGED <<db, backups, job, started>>

UnlinkMarker(p) == /\ pc[p] = "unlink"
                   /\ marker' \in {None, marker}
                   /\ Goto(p, "ready")
                   /\ UNCHANGED <<db, tmp, backups, job, started>>

Close(p) == /\ pc[p] \in {"ready", "failed"}
            /\ Goto(p, "idle") /\ Become(p, Idle)
            /\ UNCHANGED <<db, marker, tmp, backups, started>>

\* migrate backup: VACUUM INTO copies the committed state and its header, then
\* all but the newest Retain copies are unlinked.
Backup(p) ==
    /\ Start(p)
    /\ LET all == Append(backups, db)
       IN  backups' = SubSeq(all, 1 + Len(all) - (IF Len(all) < Retain THEN Len(all) ELSE Retain),
                             Len(all))
    /\ UNCHANGED <<db, marker, tmp, pc, job>>

(***************************************************************************)
(* The environment: a command dies, and an operator copies a backup over   *)
(* the database while no command runs.  The marker file stays as it is.    *)
(***************************************************************************)
Crash(p) == /\ pc[p] \notin {"idle", "ready", "failed"}
            /\ Goto(p, "idle") /\ Become(p, Idle)
            /\ UNCHANGED <<db, marker, tmp, backups, started>>

Restore == /\ \A p \in Process : pc[p] = "idle"
           /\ \E i \in DOMAIN backups : db' = backups[i]
           /\ UNCHANGED <<marker, tmp, backups, pc, job, started>>

\* What a command does next once it has been started.
Step(p) == \/ ReadMarker(p) \/ MatchHeader(p) \/ ProbeSchema(p) \/ ConfirmAndStamp(p)
           \/ Upgrade(p) \/ AlterTable(p) \/ NumberRow(p) \/ Described(p) \/ Rollback(p)
           \/ ReadUserVersion(p) \/ WriteTmp(p) \/ RenameTmp(p) \/ WriteFails(p)
           \/ UnlinkMarker(p)

Next == \/ \E p \in Process :
              \/ Open(p) \/ OpenForStatus(p) \/ OpenForRollback(p) \/ Backup(p)
              \/ Step(p) \/ LockBusy(p) \/ Close(p) \/ Crash(p)
        \/ Restore

Spec == Init /\ [][Next]_vars
-----------------------------------------------------------------------------
Live(d) == {Edge(r) : r \in DropOrphans(d.edges, Items)}
Stored == {db} \cup {backups[i] : i \in DOMAIN backups}

Labels == {"idle", "marker", "header", "probe", "confirm", "upgrade", "describe", "number",
           "described", "rollback", "stamped", "write", "rename", "unlink", "ready", "failed"}

\* The values of the state; a stored database records a gapless run of versions.
TypeOK == /\ \A d \in Stored : DatabaseOK(d) /\ Gapless(d)
          /\ pc \in [Process -> Labels]
          /\ Len(backups) <= Retain

\* A database is what its header says, the live one and every copy: the header claims
\* no migration that is not applied (what canSkipProbeViaMarker rests on when it skips
\* every probe), and one that is current has the schema of a fresh install, whichever
\* releases, rollbacks, copies and crashes led there; an index that an earlier migration
\* left under the same name has not stayed.
FreshSchema == Upgraded(Empty, LatestMigrationVersion).schema
HeaderTruthful ==
    \A d \in Stored :
        /\ HeaderClaims(d)
        /\ IsSchemaCurrent(d, LatestMigrationVersion) => d.schema = FreshSchema

\* An upgrade removes orphaned and repeated dependency rows and nothing else:
\* every dependency between existing items is still there after it.
EdgesKept == [][\A p \in Process : Upgrade(p) => Live(db') = Live(db)]_vars

\* A command that opens the database is let through only at a moment when every
\* migration its release knows is applied: by the marker and the header, by the
\* recheck under the lock, or by its own upgrade.
Opening == {"marker", "header", "probe", "confirm", "upgrade"}
ServedMigrated ==
    [][\A p \in Process :
          pc[p] \in Opening /\ pc'[p] \in {"stamped", "ready"}
             => 1..Release[p] \subseteq db'.applied]_vars

\* The processes together keep the promise of SchemaVersion: whole upgrades, no
\* rollback past an irreversible version, and no other change of the version.
Versions == INSTANCE SchemaVersion
    WITH Latest <- {Release[p] : p \in Process}, NoWayBack <- Irreversible,
         version <- SchemaLevel(db), saved <- {SchemaLevel(backups[i]) : i \in DOMAIN backups}
OneVersionAtATime == Versions!Spec
=============================================================================

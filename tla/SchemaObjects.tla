---------------------------- MODULE SchemaObjects ----------------------------
(***************************************************************************)
(* The schema of trekoon.db and the thirteen migrations that build it      *)
(* (src/src/storage/migrations.ts and schema.ts), as statements over the   *)
(* set of tables, of columns added to them since they were first created,  *)
(* and of indexes.  An index is [name, table, keys]: CREATE INDEX IF NOT   *)
(* EXISTS looks at the name alone, which is why the key columns matter.    *)
(* Uniqueness, types and defaults are left out; so are the indexes that no *)
(* migration creates or drops.                                             *)
(***************************************************************************)
EXTENDS Integers, Sequences, SequencesExt

LatestMigrationVersion == 13

\* The versions whose down() throws migration_down_unsupported.
Irreversible == {4, 5, 6}

Table(t, columns) == [op |-> "table", table |-> t, columns |-> columns]
DropTable(t) == [op |-> "drop table", table |-> t]
Column(t, c) == [op |-> "column", table |-> t, column |-> c]
IndexOn(n, t, k, columns) ==
    [op |-> "index", index |-> [name |-> n, table |-> t, keys |-> k], columns |-> columns]
Index(n, t, k) == IndexOn(n, t, k, {})
DropIndex(n) == [op |-> "drop index", name |-> n]

Indexed(schema, name) == \E i \in schema.indexes : i.name = name
Columns(t, columns) == {t} \X columns

\* An index is created on a table and columns that exist, or the statement throws.
Throws(schema, stmt) ==
    /\ stmt.op = "index"
    /\ ~Indexed(schema, stmt.index.name)
    /\ \/ stmt.index.table \notin schema.tables
       \/ ~(Columns(stmt.index.table, stmt.columns) \subseteq schema.columns)

\* What one statement does: the IF [NOT] EXISTS of every one of them, and the
\* indexes that go with a dropped table.  A column is added to a table that
\* exists and lacks it (tableExists, tableHasColumn).  After a statement that
\* throws nothing else runs.
Exec(schema, stmt) ==
    IF schema.failed THEN schema
    ELSE IF Throws(schema, stmt) THEN [schema EXCEPT !.failed = TRUE]
    ELSE CASE stmt.op = "table" ->
            IF stmt.table \in schema.tables THEN schema
            ELSE [schema EXCEPT !.tables = @ \cup {stmt.table},
                                !.columns = @ \cup Columns(stmt.table, stmt.columns)]
      [] stmt.op = "drop table" ->
            [schema EXCEPT !.tables = @ \ {stmt.table},
                           !.columns = {c \in @ : c[1] # stmt.table},
                           !.indexes = {i \in @ : i.table # stmt.table}]
      [] stmt.op = "column" ->
            IF stmt.table \in schema.tables
            THEN [schema EXCEPT !.columns = @ \cup {<<stmt.table, stmt.column>>}]
            ELSE schema
      [] stmt.op = "index" ->
            IF Indexed(schema, stmt.index.name) THEN schema
            ELSE [schema EXCEPT !.indexes = @ \cup {stmt.index}]
      [] stmt.op = "drop index" ->
            [schema EXCEPT !.indexes = {i \in @ : i.name # stmt.name}]

\* The statements of one migration, in their order.
ExecAll(schema, stmts) ==
    LET after[k \in 0 .. Len(stmts)] ==
            IF k = 0 THEN schema ELSE Exec(after[k - 1], stmts[k])
    IN  after[Len(stmts)]

(***************************************************************************)
(* BASE_SCHEMA_STATEMENTS, revision 5, as the first migration runs them.   *)
(***************************************************************************)
BaseTables ==
    <<Table("epics", {}), Table("tasks", {}), Table("subtasks", {}),
      Table("dependencies", {}), Table("events", {}),
      Table("git_context", {"metadata_scope"}), Table("sync_cursors", {"owner"}),
      Table("sync_conflicts", {"scope"}), Table("board_idempotency_keys", {"state"})>>

BaseIndexes ==
    <<Index("idx_events_branch_cursor", "events", "branch"),
      Index("idx_events_entity_branch_cursor", "events", "entity"),
      IndexOn("idx_git_context_scope_path", "git_context", "scope", {"metadata_scope"}),
      IndexOn("idx_sync_cursors_owner", "sync_cursors", "owner", {"owner"}),
      Index("idx_conflicts_resolution_entity_field_id", "sync_conflicts", "resolution"),
      IndexOn("idx_sync_conflicts_scope_entity", "sync_conflicts", "entity", {"scope"}),
      IndexOn("idx_sync_conflicts_scope_resolution", "sync_conflicts", "scope", {"scope"}),
      Index("idx_board_idempotency_created_at", "board_idempotency_keys", "created"),
      IndexOn("idx_board_idempotency_state_created_at", "board_idempotency_keys",
              "state", {"state"}),
      Index("idx_dependencies_source", "dependencies", "source, kind"),
      Index("idx_dependencies_target", "dependencies", "target, kind"),
      Index("uniq_dependencies_edge", "dependencies", "edge, kinds"),
      Index("idx_tasks_epic_created", "tasks", "epic"),
      Index("idx_subtasks_task_created", "subtasks", "task")>>

BaseRollback ==
    <<DropTable("sync_conflicts"), DropTable("sync_cursors"), DropTable("git_context"),
      DropTable("events"), DropTable("dependencies"), DropTable("subtasks"),
      DropTable("tasks"), DropTable("epics")>>

\* migrateWorktreeScopedSyncMetadata
SyncMetadata ==
    <<Column("git_context", "metadata_scope"),
      IndexOn("idx_git_context_scope_path", "git_context", "scope", {"metadata_scope"}),
      Column("sync_cursors", "owner"),
      IndexOn("idx_sync_cursors_owner", "sync_cursors", "owner", {"owner"})>>

\* migrateSyncConflictsScope
ConflictScope ==
    <<Column("sync_conflicts", "scope"),
      IndexOn("idx_sync_conflicts_scope_entity", "sync_conflicts", "entity", {"scope"}),
      IndexOn("idx_sync_conflicts_scope_resolution", "sync_conflicts", "scope", {"scope"})>>

\* Mutant: the indexes are created without dropping those of version 2.
DependencyKindsNoDrop ==
    <<Index("idx_dependencies_source", "dependencies", "source, kind"),
      Index("idx_dependencies_target", "dependencies", "target, kind"),
      Index("uniq_dependencies_edge", "dependencies", "edge, kinds")>>

\* migrateDependencyKindIndexes: the single-column indexes of version 2 go
\* first, for CREATE INDEX IF NOT EXISTS would leave the one of the same name.
DependencyKinds ==
    <<DropIndex("idx_dependencies_source"), DropIndex("idx_dependencies_depends_on"),
      Index("idx_dependencies_source", "dependencies", "source, kind"),
      Index("idx_dependencies_target", "dependencies", "target, kind"),
      Index("uniq_dependencies_edge", "dependencies", "edge, kinds")>>

DependencyKindsDown ==
    <<DropIndex("uniq_dependencies_edge"), DropIndex("idx_dependencies_target"),
      DropIndex("idx_dependencies_source"),
      Index("idx_dependencies_source", "dependencies", "source"),
      Index("idx_dependencies_depends_on", "dependencies", "target")>>

\* up() of the migrations, by version.
UpStatements ==
    << BaseTables \o BaseIndexes,
       <<Index("idx_events_created_at", "events", "created"),
         Index("idx_events_git_branch", "events", "branch only"),
         Index("idx_events_created_at_id", "events", "created, id"),
         Index("idx_dependencies_source", "dependencies", "source"),
         Index("idx_dependencies_depends_on", "dependencies", "target")>>,
       <<Table("event_archive", {}), Index("idx_event_archive_created_at", "event_archive", "created")>>,
       SyncMetadata,
       <<Index("idx_dependencies_edge", "dependencies", "edge")>>,
       <<Column("tasks", "owner"), Column("subtasks", "owner")>>,
       <<Index("idx_dependencies_depends_on_kind", "dependencies", "target, kind"),
         IndexOn("idx_tasks_owner", "tasks", "owner", {"owner"}),
         IndexOn("idx_subtasks_owner", "subtasks", "owner", {"owner"}),
         Index("idx_conflicts_resolution_updated_at", "sync_conflicts", "updated")>>,
       <<Index("idx_events_branch_cursor", "events", "branch"),
         Index("idx_events_entity_branch_cursor", "events", "entity"),
         Index("idx_conflicts_resolution_entity_field_id", "sync_conflicts", "resolution")>>,
       <<Table("board_idempotency_keys", {"state"}),
         Index("idx_board_idempotency_created_at", "board_idempotency_keys", "created")>>,
       <<IndexOn("idx_board_idempotency_state_created_at", "board_idempotency_keys",
                 "state", {"state"})>>,
       ConflictScope,
       DependencyKinds,
       <<Index("idx_tasks_epic_created", "tasks", "epic"),
         Index("idx_subtasks_task_created", "subtasks", "task")>> >>

\* down() of the migrations that have one, by version.
DownStatements ==
    << BaseRollback,
       <<DropIndex("idx_events_created_at"), DropIndex("idx_events_git_branch"),
         DropIndex("idx_events_created_at_id"), DropIndex("idx_dependencies_source"),
         DropIndex("idx_dependencies_depends_on")>>,
       <<DropIndex("idx_event_archive_created_at"), DropTable("event_archive")>>,
       <<>>, <<>>, <<>>,
       <<DropIndex("idx_conflicts_resolution_updated_at"), DropIndex("idx_subtasks_owner"),
         DropIndex("idx_tasks_owner"), DropIndex("idx_dependencies_depends_on_kind")>>,
       <<DropIndex("idx_conflicts_resolution_entity_field_id"),
         DropIndex("idx_events_entity_branch_cursor"), DropIndex("idx_events_branch_cursor")>>,
       <<DropIndex("idx_board_idempotency_created_at"), DropTable("board_idempotency_keys")>>,
       <<DropIndex("idx_board_idempotency_state_created_at")>>,
       <<DropIndex("idx_sync_conflicts_scope_entity"),
         DropIndex("idx_sync_conflicts_scope_resolution")>>,
       DependencyKindsDown,
       <<DropIndex("idx_subtasks_task_created"), DropIndex("idx_tasks_epic_created")>> >>

(***************************************************************************)
(* What a schema of version v has.  The first releases made less than      *)
(* BASE_SCHEMA_STATEMENTS makes today, and a rollback leaves what the base *)
(* made early, so an object is there for certain only from the version     *)
(* that makes it on an old database (the state column: from the version    *)
(* after its table, which may be older than the column).  The indexes of   *)
(* version 2 on one column are the exception: version 12 supersedes them.  *)
(***************************************************************************)
TablesOf(v) == {s.table : s \in {s \in ToSet(UpStatements[v]) : s.op = "table"}}
ColumnsOf(v) ==
    {<<s.table, s.column>> : s \in {s \in ToSet(UpStatements[v]) : s.op = "column"}}
IndexesOf(v) == {s.index : s \in {s \in ToSet(UpStatements[v]) : s.op = "index"}}

Superseded == {Index("idx_dependencies_source", "dependencies", "source").index,
               Index("idx_dependencies_depends_on", "dependencies", "target").index}

TablesSince(v) == IF v = 1 THEN TablesOf(1) \ TablesOf(9) ELSE TablesOf(v)
ColumnsSince(v) ==
    IF v = 10 THEN Columns("board_idempotency_keys", {"state"}) ELSE ColumnsOf(v)
IndexesSince(v) == IF v = 1 THEN {} ELSE IndexesOf(v) \ Superseded

Fits(v, schema) ==
    /\ \A w \in 1..v : /\ TablesSince(w) \subseteq schema.tables
                       /\ ColumnsSince(w) \subseteq schema.columns
                       /\ IndexesSince(w) \subseteq schema.indexes
    /\ v >= 12 => schema.indexes \cap Superseded = {}

AllTables == UNION {TablesSince(v) : v \in 1..LatestMigrationVersion}
AllColumns == UNION {ColumnsSince(v) : v \in 1..LatestMigrationVersion}
AllIndexes == Superseded \cup UNION {IndexesSince(v) : v \in 1..LatestMigrationVersion}

\* Schemas of objects that the migrations make, after no statement has thrown.
Schemas == [tables : SUBSET AllTables, columns : SUBSET AllColumns,
            indexes : SUBSET AllIndexes, failed : {FALSE}]

\* The schema of the releases that did not number their migrations: without the
\* scope of the git context, and without the index on it.
Unscoped(schema) ==
    /\ "git_context" \in schema.tables
    /\ <<"git_context", "metadata_scope">> \notin schema.columns
    /\ ~Indexed(schema, "idx_git_context_scope_path")

(***************************************************************************)
(* The rows of the dependencies table that versions 5 and 12 clean.  A row *)
(* is [id, source, target]; its id is also its age.                        *)
(***************************************************************************)
Edge(r) == <<r.source, r.target>>
\* Mutant: rows are compared by their source alone.
KeepOldestOfSource(rows) ==
    {r \in rows : \A o \in rows : o.source = r.source => r.id <= o.id}
KeepOldest(rows) == {r \in rows : \A o \in rows : Edge(o) = Edge(r) => r.id <= o.id}
DropOrphans(rows, items) == {r \in rows : r.source \in items /\ r.target \in items}

CleanedEdges(v, rows, items) ==
    CASE v = 5  -> KeepOldest(DropOrphans(rows, items))
      [] v = 12 -> KeepOldest(rows)
      [] OTHER  -> rows

EmptySchema == [tables |-> {}, columns |-> {}, indexes |-> {}, failed |-> FALSE]
=============================================================================

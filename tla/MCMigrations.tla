---------------------------- MODULE MCMigrations ----------------------------
(***************************************************************************)
(* Two commands of different releases on one database: a missing file, one *)
(* of the first releases (no version column, repeated and orphaned         *)
(* dependency rows), one of release 9 (no user_version, no state column).  *)
(***************************************************************************)
EXTENDS Migrations

CONSTANTS p1, p2

MCRelease == (p1 :> 13) @@ (p2 :> 12)
MCTargets == {-1, 8}
MCItems == {"t", "u", "v"}

Row(i, s, t) == [id |-> i, source |-> s, target |-> t]

FirstRelease ==
    [Empty EXCEPT !.unversioned = "no column",
                  !.schema.tables = {"epics", "tasks", "subtasks", "dependencies", "events",
                                     "git_context", "sync_cursors", "sync_conflicts"},
                  !.edges = {Row(1, "t", "u"), Row(2, "t", "u"), Row(3, "t", "v"), Row(4, "t", "gone")}]

NinthRelease ==
    LET nine == ApplyPending(NumberBaseRow(FirstRelease), 9)
    IN  [nine EXCEPT !.schema.columns = @ \ {<<"board_idempotency_keys", "state">>}]

MCDatabases == {Empty, FirstRelease, NinthRelease}
=============================================================================

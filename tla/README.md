# Trekoon in TLA+

Trekoon is an issue tracker for coding agents: a command line, a daemon and a local
web board over one SQLite database that all git worktrees of a repository share.
This directory holds TLA+ modules translated from its TypeScript source, TLC
configurations that check them on small instances, and proofs of the main
results that TLAPS checks for every instance. Paths are relative to `src/` of the
source tree.

## The system

| Component (source) | State | Operations | What is hard about it | What makes it correct |
|---|---|---|---|---|
| Work graph (`domain/`) | `epics`, `tasks`, `subtasks`, `dependencies`; one event per change | create, batches, expand, update, claim, finish, cascade, delete, add and remove dependencies | edges without a foreign key, three cycle searches, five ways into a gated status, deletions that take other rows along | no dangling row or edge, no cycle, no change without its event, no way past the gate |
| Edits of one row (`domain/mutation-service.ts`) | `version`, `owner`, texts of a row; what a client saw | update, If-Match, claim, append, replace, cascade, replayed events | writers of many processes, reads before the transaction | a version pins a content, one owner, no note lost |
| Sync (`sync/`) | cursor per worktree and branch, `sync_conflicts`, tagged events | pull in batches, resolve | order of replay, conflicts per field and deletion, withheld cascades, crashes between batches | nothing skipped, nothing lost unnoticed, deletions spare own edits |
| Event log and retention (`sync/event-writes.ts`, `storage/events-retention.ts`) | timestamps, cursors | append, read from a cursor, prune | clocks that go back, a cutoff computed before its transaction | a cursor stands for one place, nothing needed is pruned |
| Idempotency keys (`domain/mutation-service.ts`, `storage/`) | `board_idempotency_keys` | claim, complete, replay | retries whose answer was lost | at most one run per key |
| Board server and watcher (`board/routes.ts`, `event-bus.ts`, `wal-watcher.ts`) | streams with queues; baseline and cursor of the watcher | publish, reconcile, connect, pull, drop | three publishers of the same commits, commits between two reads, slow tabs | tabs converge, never go back, queues are bounded |
| Board client (`board/assets/state/`) | store, mutation queue, the optimistic edit in flight | enqueue, send, confirm, roll back, retry, take frames | answers and frames in any order, lost answers, time limits | a quiet tab shows the rows, the queue never blocks |
| Migrations, backups (`storage/migrations.ts`, `backup.ts`) | `schema_migrations`, `user_version`, marker file, copies | open, upgrade, roll back, back up, restore | three copies of one fact, several processes and releases, crashes | a served database is migrated, the header tells the truth |
| Worktree recovery (`storage/worktree-recovery.ts`) | old files, the shared file, `.bak` copies | find, compare, copy, import, wipe | no lock over the import, two looks for the shared file, two kinds of fingerprint, crashes, operators | no content and no reported write is lost |
| Daemon, handles (`runtime/daemon.ts`, `storage/database.ts`) | socket path, connections, cache of handles | connect, run, answer, evict, stop | two daemons on one path, time limits, crashes | no command runs twice, no handle is closed under its user |
| Readiness (`domain/`, `commands/task.ts`, `task-readiness.ts`, `suggest.ts`) | none of its own | ready, next, suggest, done | what becomes ready is told once, agents hold tasks that wait for others | ready work is told to somebody, plans end |
| Rendering, export, output, argument parsing | - | - | text, pure reads | not modelled |

Every mutation runs in one `BEGIN IMMEDIATE` transaction (`storage/database.ts`,
`writeTransaction`): SQLite serialises them, and an exception rolls everything back.
So a mutation is one action of a model, an error is an action that is not
enabled, and processes interleave only between transactions. Where an
operation reads before its transaction, or works on files or sockets, it has an
action per step between which others can run.

How they interact: commands, routes and pulls write rows and append events
(`Tracker`, `SharedRow`, `Sync`); the watcher turns the log or a diff into deltas
and the streams carry them to tabs (`BoardStream`), which edit back through
routes with versions and keys (`BoardClient`); commands reach the database
through a daemon or themselves (`Daemon`), after the file was found or imported
(`Recovery`) and migrated (`Migrations`); agents tie the commands together
(`Execution`, which composes `Tracker` with what the commands answer).

## Modules

| Module | Role |
|---|---|
| `StatusMachine` | `VALID_TRANSITIONS`, `validateStatusTransition`, the gated statuses |
| `Tracker`, `TrackerProofs` | the work graph: every operation of `MutationService` that changes rows or edges; the proofs include those about `Execution` |
| `SharedRow` | one task row and everybody who edits it |
| `Sync`, `SyncProofs` | pulls between branches, their conflicts and the resolution of those |
| `EventLog` | timestamps, cursors and prunes |
| `RowsAndLogProofs` | the proofs about `SharedRow` and `EventLog` |
| `BoardStream`, `BoardStreamProofs` | publishers, watcher, event bus and streams |
| `BoardClient`, `BoardClientProofs` | one tab, its routes and its keys |
| `Ledger` | abstract: a command runs at most once and is reported only after it ran; implemented by `BoardClient` and `Daemon` |
| `SchemaObjects` | the thirteen migrations as statements over a schema |
| `Migrations`, `MigrationsProofs` | processes that open, upgrade, roll back and copy one database |
| `SchemaVersion` | abstract: the schema has one version at a time; implemented by `Migrations` |
| `Recovery`, `RecoveryProofs` | the import of the files of old worktrees |
| `Daemon`, `DaemonProofs` | clients, daemons, connections and the cache of handles |
| `Execution` | agents that work an epic off, over `Tracker` |
| `MC...` | values of the constants for TLC |

### Tracker

`status[n]` is the status column of row `n`, `Absent` where there is no row; `deps`
is the dependencies table. `logStatus` and `logDeps` are what the events table
amounts to: each transaction appends the events the code appends, and the two
variables hold the result of replaying them. They let `ReplayAgrees` say that no
row or edge changes without its event.

Ids are model values. A row never changes its parent through a mutation, so
`EpicOf` and `TaskOf` are constants. A deleted id may be drawn again: nothing in
the tables refers to a missing row (`ReferentialIntegrity`), so a recycled id
behaves like a fresh uuid. A batch is a function from fresh ids to statuses and a
set of edges. A batch that names one edge twice is refused by the code; a set
never does.

`UpdateItem` stands for `updateTask`, `updateTaskWithIfMatch`, `appendToTaskDescription` and
their subtask forms, which do the same to the status. `Claim` leaves out the owner,
which only disables it. The gate of the code runs only when the status
really changes into a gated one; dependencies on missing rows do not count.

`Cascade` plans and applies in one transaction. The planner refuses a cascade with
blockers, and for `done` it orders rows children first and dependencies first; if
there is no such order it throws. Any other target writes in tree order and
each row passes the gate again at its turn: `CascadeOrder` holds the pairs
that have to come in order for this to succeed, and `Acyclic` of it is the
guard. The board's route cascades an epic to any status, the command line only to
`done` and `todo`.

### SharedRow

`row` is a task row. Its description is the set of notes appended to it, since the
only question is which notes are still there. `known[c]` is what client `c` received
last, the version it will send in `If-Match` included; `draft[c]` is what a
`replace --apply` of `c` read and will write. `created` holds the fields of the
row's created event, which a pull from another branch may replay at any time.
`life`, `holders` and `kept` are history: how often the row was inserted, who was
told `claimed: true` and was not replaced since, which notes were appended since
the description was last written as a whole.

Whether a dependency gate is open is nondeterministic here, as is whether a pull
finds a conflict: a refusal is a step that does not happen.

### Sync

All worktrees write the same rows; what tells them apart is the branch that
`withTransactionEventContext` stamps on their events. So `row` is one table,
`deps` another and `log` one sequence, a worktree stands for the branch checked
out in it, and `cursor[w][src]` is the row of `sync_cursors` for worktree `w` and
source branch `src`. Event timestamps are made distinct inside the write lock (module
`EventLog`), so an index of `log` is an event's id and a cursor token. `conflicts`
is `sync_conflicts`; its key is the event, the field and the worktree, as in the
code's search for an existing conflict.

A row has its columns and not its parent, which never changes. The columns fall in
three classes, and that is all the code makes of them: `Required` (title, status: a
created event without them is refused), `Optional` (description: an event without
it sets the empty one), `Late` (owner: no created event has it). `Default` is what a
missing column becomes. A dependency is its two ends; its events carry nothing that
two branches could disagree about, so only its removal can be in conflict.

| Code | Action |
|---|---|
| create, update, delete commands of a worktree, `dep add`, `dep remove` | `Create`, `Update`, `Delete`, `AddDependency`, `RemoveDependency` |
| `syncPull`: load the cursor | `PullStart` |
| read the next 250 events; leave the loop if there are none | `PullRead` |
| the transaction of a batch: replay, save the cursor; a short batch ends the loop | `PullBatch`, `PullSameBranch` |
| the process is killed (a transaction rolls back) | `PullDies` |
| `sync resolve`, `sync resolve --all` with its filters on the entity, the field or both | `Resolve` of a set in `Filtered` |
| `sync resolve --all --use theirs` of a user: list, ask; yes; no, a death or `conflict_set_changed` | `Ask`, `Confirm`, `Decline` |

`PullBatch` folds `Replay` over the events of the batch, so that an event sees the
rows, the dependencies, the conflicts and the cached own values as the events
before it left them. The read of a batch and its transaction are two steps:
commands and other pulls come between. A batch lists a deleted task before its
subtasks and the dependencies last, and the order in which the code finds the
tasks of an epic is left open. The folds are recursive functions (`Replaying`,
`Resolving`), so that the proofs can count up through a batch. `replayed` and the `start` of a pull are history.
`Past` holds entities that are created before the first step, so that a run can
spend its events on what happens to them.

`asked[w]` is the list that a user in `w` was shown and has not answered; only the worktrees
in `Askers` have one. A conflict is known by its event, field and worktree, in the code by an id: one that was
dropped and raised again between the question and the answer is the same here, and
refused as `conflict_set_changed` there.

### EventLog

`log` is the set of rows of `events`, each its timestamp and its branch; `gone` is
what prunes deleted (history). `NextTimestamp` is `nextEventTimestamp`: the clock,
or one more than the newest event if the clock is not past it. `PruneLook` is the
computation of the cutoff and the look for older events before the transaction,
`PruneDelete` the transaction. The clock may go back, by at most `Skew` behind the
latest time it ever showed, and `Skew < Retention` is the assumption that makes
timestamps unique for ever: without it a prune could delete the newest event and
the next one take its timestamp again. `excused` records events that were deleted
by a prune that found no cursor of a worktree; nothing in the code protects those.

### BoardStream

A row is a counter of its versions, 0 if it does not exist; a frame is a
partial function from rows to versions. The steps of the
server run on one thread: `PublishOwn` (a route handler reads its rows again and
publishes), `ReadEvents` and `PublishEvents` (event deltas), `ReadBoard` and
`PublishDiff` (full snapshots); commits of other processes come between them.
`published` and `recent` are the in-process delta that a tick may suppress, and
its time limit of 500 ms is `SuppressionExpires`. A tab is `queue`, `pending` and
`view`; the stall watchdog is `Stall`. `due` is the debounce timer: set by a
commit, taken by a tick, `"failed"` after a tick that threw, which nothing repeats.

### BoardClient and Ledger

One tab with its serial queue, and the routes that answer it. `requests` are
requests on their way, late ones of earlier attempts included; `Serve` is the
whole route handler, whose transaction claims and completes a key
(`AtomicIdempotencyClaim`); `answer` is the one answer the tab still waits for.
`Headers` stops the timer, so that only `Timeout` before and `Body` or
`BodyBreaks` after it can end a request.

A mutation of the kind `cascade` gives a status to an epic and all its tasks and subtasks. `Painted`
is what its optimistic update changes, the whole `Selection`; the server (`ServeCascade`)
writes those rows whose status is another one and answers with them and the epic, or refuses
(`ServeError`, for dependencies that block it; `ServeStale`). One version is sent, the epic's.

`inverse` is the patch a rollback merges. It has the records that the optimistic update
made unequal (`Unequal`), which are more than the painted ones: normalizing the snapshot gives every
epic new `counts` and every task with subtasks new copies of them, and nested objects are compared by
identity. So each `Parent` of the board is in each inverse. `Stripped` takes out what has
a higher version than the one that was sent, whichever row it is of; of a cascade these may be tasks that have
simply been edited more often than the epic, and `skipped` (history) lists them.
`ghosts` are temporary rows of creations, `optimistic` the rows that show an edit
not confirmed. `stale` (history) lists the rows that an answer or a rollback took back
behind what a frame had shown: the merge compares no versions.

`Ledger` is what idempotency keys promise. `BoardClient` implements it with its
variables `runs` and `told`, `Daemon` with commands as the keys.

### Migrations, SchemaObjects and SchemaVersion

`SchemaObjects` states each migration as a sequence of statements (`CREATE TABLE IF
NOT EXISTS`, `ALTER TABLE`, `CREATE INDEX`, `DROP ...`), run on a schema that is a
set of tables, columns and indexes with their key columns; a statement that throws
stops its transaction. `ExecAll`, `ApplyAll` and `RevertAll` are recursive functions over
the statements of a migration and the migrations of a transaction. `Fits(v, schema)`
is what a schema of version `v` is sure to have: the objects of every version up to `v`,
less what an early release did not make or version 12 replaces. `LeftByRelease` says
of a database that some release has left it so, and the databases a run starts from are
assumed to be (`DatabasesAssumption`). `Migrations` has the processes: `ReadMarker`, `MatchHeader`
and `ProbeSchema` are the fast path, `ConfirmAndStamp` the recheck, `Upgrade` the
transaction of all pending migrations, `AlterTable` and `NumberRow` the two steps in
which a database of the first releases gets its version column outside any
transaction, `WriteTmp` and `RenameTmp` the marker. Processes may be of different
releases. `SchemaVersion` is what they promise together; an upgrade is one step
from the old version to the newest of the release, a rollback one step down.

### Recovery

A file is the set of rows in it, with a mark if its schema is the newest. `Begin`,
`Look`, `Compare`, `Choose`, `Backup`, `Import` and `Open` are the steps of a
command that opens the database; nothing is locked between them. `Look` finds the old files and asks
whether there is a shared one; `Compare` asks again, and lets the command pass if it is gone. A fingerprint is of
the dump, so that files are alike if their rows are, or, when the dump fails, of the bytes of the
main file, which say nothing of rows still in a `-wal` file: then any verdict is possible
(`JudgeAll`). `basis` (history) is what the verdict of a command rests on: the contents, the bytes or
the absence of the shared file. The environment is
wipes, an operator who removes, restores or untracks old files, and `sqlite3`
failing (`ImportFails`). `lost` (history) holds the rows that a wipe took, or
that came between the look and the import of an overlapping command.

### Daemon

A client looks for the socket, connects, and waits, or runs the command itself.
`path` is the process whose socket file is at the path: a second daemon unlinks it,
and each daemon unlinks it when it stops. `request` is where a request is in its
daemon; `cache` is the list of handles, least recently used first, with their
borrow counts. `IdleTimeout`, the cap (`Full`), the scope check, `Shutdown`, `Stop`
and `Crash` are actions; a client's 30 s limit is `GiveUp`.

### Execution

`Execution` extends `Tracker`: what the agents do to the database are `Tracker`'s own
actions, and the module adds what `task ready`, `suggest` and `task done` answer and
who knows what. `known` is the list of the orchestrator, `answer` what an agent was
told and has not passed on, `unheard` (history) the ready tasks named in no answer
that arrived. Agents follow the loop of the documents: they end the subtasks of
their task before the task. A task is ready by its own dependencies, whatever its subtasks
wait for, so an agent may hold a task whose subtasks cannot start: every attempt answers
`dependency_blocked`, and by the instructions for agents (`.agents/skills/trekoon/reference/execution.md:45`)
it works on a ready task instead and leaves its own in progress (`SetAside`), to be found by a later
`task ready`. Left out: the owner column (exclusion is `SharedRow`'s
`ClaimExclusive`), and tasks of other epics, which `task done` does not announce.
`Plans` are sets of `PlanEdges`, between tasks, subtasks and both. It excludes those in which a subtask waits,
over dependencies, subtasks and tasks (`Needs`), for what waits for its own task:
the cycle search of the code looks at dependencies only and lets such plans be
made, and they cannot be finished by this loop.

## Runs

| Run | Properties | Bounds |
|---|---|---|
| `tracker` | `TypeOK`, `ReferentialIntegrity`, `DependenciesAcyclic`, `ReplayAgrees`, `GateHolds` | one epic, tasks `t1`, `t2`, subtask `s1` of `t1`, one custom status, batches of at most 2 edges |
| `shared_row` | `VersionPinsContent`, `ClaimExclusive`, `AppendsAreKept` | two agents, one client, two notes, `MaxVersion` = 4, `MaxLives` = 2 |
| `sync_fields` | `NoEventSkipped`, `NothingLostUnnoticed`, `ResolutionSticks` | two branches, two pulls of one worktree, one task with a title, two values, `BatchSize` = 2, `MaxEvents` = 4 |
| `sync_deletes` | `TypeOK`, `DeletesSpareOwnEdits`, `CascadeWaits`, `ResolvesWhatWasShown` | two tasks and a subtask in the past, a dependency that may be, one pull, a user who is asked, one value, `BatchSize` = 2, `MaxEdits` = 7, `MaxEvents` = 8 |
| `sync_epic` | violation of `EpicCascadeWaits` | epic, task and subtask in the past, `BatchSize` = 3, `MaxEvents` = 7 |
| `event_log` | `TypeOK`, `NothingMissed` | two worktrees, one branch, two pulls, one prune, `BatchSize` = 2, `Retention` = 2, `Skew` = 1, `MaxClock` = 6, `MaxEvents` = 3 |
| `board_stream` | `TypeOK`, `Converges`, `NeverBack`, `Delivered` | one row, one tab, `MaxStamp` = 2, `MaxEvents` = 3 |
| `board_client` | `TypeOK`, `QuietAgrees`, `KeyedOnce`, `OwnRowKept`, `Settles` | an epic with a task, an edit of the task, a cascade of the epic, a creation and a deletion of a dependency of the task, `ErrorLimit` = 2, `MaxStamp` = 2, `MaxAttempts` = 2 |
| `migrations` | `TypeOK`, `HeaderTruthful`, `EdgesKept`, `ServedMigrated`, `OneVersionAtATime` | two processes of releases 13 and 12, three commands, a fresh, a first-release and a ninth-release database, one copy kept |
| `recovery` | `TypeOK`, `NothingLost` | two linked worktrees, old files of two contents, two commands |
| `daemon` | `TypeOK`, `CacheSound`, `CommandOnce`, `Settles` | two clients, two daemons, three databases of which two are served, `Capacity` = 1, `MaxConnections` = 1 |
| `execution` | `AgentsOK`, `ReadyIsKnown`, `Finishes` | two agents, three tasks of which two have a subtask, every plan over the nine edges between tasks and `s1 -> t3`, `s2 -> t3`, `s1 -> t2`, `s2 -> s1`, `t3 -> s1`, one loss |

What the runs show is stated before each property in its module. Three are
refinements: `KeyedOnce` and `CommandOnce` have `Ledger!Spec`, and
`OneVersionAtATime` has `SchemaVersion!Spec`, as a property of the detailed module.

Why the bounds are enough. Three items make every shape that matters in the graph:
a cycle of length three, an edge between a task and its own subtask, an edge that
crosses tasks, and a cascade whose order is cyclic; two edges in a batch are the
least that close a cycle which neither closes alone. In `SharedRow` a race needs two
writers and a reader: three updates are "read, be overtaken, write", and two lives
are a version number that repeats. In `Sync` two branches are the least that
disagree, and two pulls of one worktree overlap in every way a larger number does
in pairs; seven events are the past, an own edit, and the deletion of the task with
its subtask and its dependency, in one batch or over two or three. There the resolutions, of which a
question that is answered needs one per conflict, count apart (`MaxEdits`): a second conflict that comes after the question
still leaves room for the events of a resolution of both. The code's batch of 250 has no
part in the logic but to be positive. In `EventLog` three events and batches of two
are a full batch and a short one, and a skew of one below a retention of two is the
least that lets the clock go back. `BoardStream` needs one row because rows do not
meet there but in the baseline and the queues, and two commits of it for an old and
a new state; three events are more than the cursor and the prune tell apart. In
`BoardClient` two requests are enough for all that may meet: a first try and its retry, one of which is late, or two different
mutations; a child that is gone when its creation is repeated is deleted by others. Two versions of an epic and of a task
below it are enough for either to be ahead of the other. In `Migrations` release 13 beside
12 is a marker that overstates; three commands are an upgrade, a rollback past an
index that a later upgrade meets again, and one more upgrade. In `Daemon` capacity and cap are one, so
that two clients reach both. In `Execution` three tasks have a
chain, a fork and a join. Two of them have a subtask because an agent can be stuck only on a task with
subtasks: with as many such tasks as agents, both waiting for the third task, nobody is left to take
that one unless an agent lets go. The other edges are a task that waits for a subtask of another, a subtask that waits
for another task, and one that waits for a subtask that another agent may hold. More subtasks of a task, or more agents
than tasks that can hold one up, add no new way to wait: `SetAside` asks for all open subtasks at once.

Symmetry is used where no expression orders or chooses among the values and no
liveness is checked (`shared_row`, `sync_fields`, `event_log`). `CHECK_DEADLOCK
FALSE` is set where a bound stops the system, or where it may end: the clients of
`daemon` are done, the plan of `execution` is finished, the commands of `recovery`
and `migrations` have run.

### Fairness

* `board_stream`: weak fairness of `Server`. The event loop runs what is queued: a
  debounce timer fires and the steps of a handler follow. Commits and tabs are free.
* `board_client`: of the tab's own queue and its timer, and of "the body arrives or
  breaks". The last is an assumption about the network: the code stops its timer
  when the headers arrive, so a body that stalls for ever blocks the queue for ever.
* `daemon`: a client's timers fire, a handler ends, a stopping daemon goes on. The
  daemon has no limit for a handler: that handlers end is an assumption.
* `execution`: the orchestrator and the agents go on, as the loop in the documents
  says. No agent has to block or be lost. An agent whose subtasks all wait does go on to other
  work: that is an instruction of the documents, not something the code enforces, and without `SetAside` the run
  finds two agents that hold two tasks for ever.

The other runs are about safety only; in `Migrations`, termination of a command
would need the fairness of steps whose enabledness TLC cannot evaluate in
reasonable time, since they run the migrations over the schema.

## Proofs

Forty theorems are listed in `PROJECT.json`: five about `Tracker` and four about
`Execution` over it, four about `SharedRow`, seven about `Sync`, six about `Migrations`, four about
`BoardClient`, three each about `Daemon` and `BoardStream`, two each about `EventLog` and
`Recovery`. Every invariant, action property and refinement that a passing run checks is among
them, and the type invariant of `SharedRow` (`RowOK`), which no run checks. They hold for any sets of ids,
clients, agents, worktrees, processes, tabs and mutations, any batch size and any bounds,
from the named assumptions of the modules:

* ids of different kinds differ and parents are functions; custom statuses are none of
  the valid ones;
* an edit's columns hold values of their domain, and the names of columns differ from the
  marks the pull writes in their place (`ColumnsAssumption`);
* bounds are naturals, and the clock goes back by less than the retention;
* the commands of a `Daemon` run are finitely many, since borrow counts are cardinalities;
* rows and children of a `BoardClient` are disjoint and two creations do not make the same
  child: the tab draws a temporary id for each; a cascade is of rows; a mutation is none of the other notices;
* there are finitely many rows on a board, at least one, and the log has room for the event
  of each row that is there at the start (`ItemAssumption`);
* no file is the absence of a file;
* a release knows one of the thirteen versions; a command of `Migrations` finds a
  database that some release has left (`LeftByRelease`): a gapless run of versions is
  recorded, `user_version` claims none that is not, the objects of the version are there,
  a base row without a number is of a release before the scopes, and rows of the
  dependencies table have natural numbers as ids, which stand for their ages.

One theorem has a hypothesis besides: `ReadyWorkIsTold` is about agents that work off one
epic (`OneEpic`), for `task done` announces nothing of others.

* **Tracker.** The conjunction of `TypeOK`, `ReferentialIntegrity`, `DependenciesAcyclic` and
  `ReplayAgrees` is inductive. They need one another: a creation has no edge to
  its fresh rows because edges have live ends, so it cannot close a cycle.
  `Reaches(E, a, b)` is defined as "every set with `a` that is closed under `E` has
  `b`", which equals the reachability the recursive query computes and can be
  proved about without induction: `AddKeepsAcyclic` shows that a batch in which no
  edge's source is reachable from its target in the graph with the batch leaves
  the whole graph acyclic. `GateHolds` is an action property proved from the same
  invariant, one lemma per kind of operation; for cascades, a changed row's
  open dependency is either a blocker or is itself changed to `done`. The run has one
  epic; the proofs cover any number, and edges between them.
* **Execution** (in `TrackerProofs`). `AgentsSound` adds to `AgentsOK` that rows keep
  valid statuses, that only an agent that has ended its task holds an answer, and that
  who claims or works does so with a task. Every write is `Progress`: no task goes back to
  todo, and none that is done changes. So nothing but the end of a task makes
  another ready (`NoneBecomesReady`), and then its last open dependency is the
  one that ended, which is how `task done` finds it (`RunTells`). `RunIsNext` maps
  each step to a command of `Tracker` or to none; with it the invariant and the gate of
  `Tracker` hold for the agents too, who start with a plan and not with an empty database.
* **SharedRow.** `VersionPinsContent` and `ClaimExclusive` are not inductive. The
  strengthening `IInv` says that a client has seen no version of this life newer
  than the row (`SeenIsPast`), that a holder is the owner in the row
  (`HoldersOwn`), that a row was inserted before it can be replayed
  (`LifeAgrees`), and that nothing is kept of a missing row. Every UPDATE raises
  the version by one, so what was seen stays in the past.
* **Sync, the cursors.** `NoEventSkipped` (`NothingSkipped`) needs two more invariants, about
  the pulls: that the position of a running pull has passed no event either
  (`PullsSkipNothing`), since another pull may have moved the cursor meanwhile, and that a
  batch has every event of its branch up to its last one (`BatchesHaveNoGap`), since
  events are appended after it was read. `NextBatch` takes the beginning of the
  backlog, by cardinality, and the cursor its largest member, which a set of bounded
  naturals has (`MaxOfBounded`). The cursor may move backwards, when a pull that started
  earlier commits later: the theorem says that it never says too much.
* **Sync, the tables.** `TypeCorrect` is proved of `TablesFit`: rows have values of their columns'
  domains, dependencies have their ends unless an epic was deleted, conflicts are about
  events of the log, a pull's cache of own values holds what the branch said at some time
  since it began. A batch is counted through with `UpTo`, induction over the
  positions of the batch as the well-foundedness of the naturals gives it: `ReplayFits` is
  the step, one lemma per kind of event (`ReplayedDelete`, `ReplayedAdded`, `ReplayedRemoved`,
  `ReplayedWrite`). A question touches no table and a confirmed one resolves conflicts that are pending, as a
  command that lists and resolves at once does (`TablesStep`).
* **Sync, what a batch may do.** The four action properties are proved of `PullBatch` under
  `TablesFit`, by the same counting. `OwnEditsSpared`: while a row that the branch edited is
  there, so are the ground of its conflict and the edges it added, and each deletion
  of the batch meets them (`EditsStopDeletion`, `BatchSparesRows`). `CascadesWait`: a
  row that goes was taken by one event, which did not wait when it was replayed
  (`AppliedDidNotWait`), and no conflict of a deletion becomes pending later in the batch
  without being there before (`NoNewWait`). `ResolutionsStick`: a replay adds no
  pending conflict where the event, the field and the worktree have one already.
  `NothingIsLost`: a column that changes was written by one event, after the comparison
  with what the branch said (`BatchKeepsOwn`); an incoming value, once it is in the row or
  told of by a conflict, stays so until a later event about the row or above it
  (`FoundStays`, `BatchAccounts`). A run checks them for batches of two or three events.
* **Sync, the answer of a user.** `ShownIsResolved` counts through the conflicts that a confirmed resolution
  settles, in any order: each changes only its row and those below, and drops conflicts only of rows that it
  deletes (`OneSpares`, `ResolveSpares`).
* **EventLog.** `NothingMissed` (`NoneMissed`) and the uniqueness of timestamps in
  `TypeOK` (`LogTyped`) need each other. `IInv` adds what the clock may be (`ClockOK`),
  that what was pruned is older than what any clock will say (`Old`), so that a
  new event is later than every event there ever was (`NewIsLatest`), that cursors
  and positions of pulls stand at events (`AtEvents`), that what is behind a
  cursor or a pull's position was replayed or excused (`CursorsMissNothing`,
  `PullsMissNothing`), and that a prune will delete only what the worktrees whose
  cursors it found had replayed (`PrunesSpare`), although their cursors move between
  its look and its deletion. That cursors may go back does no harm: what a
  worktree has replayed it has replayed.
* **BoardStream.** Two invariants, one on top of the other. `Base` is what a tab may be shown:
  types and bounds (`DataFit`, `ThreadFit`, `StreamsFit`), that the watcher has read no further
  than the log goes (`Reached`), that a row that exists or was deleted has a version no older
  than the baseline's (`Born`), and `Ordered`: along the frames on their
  way to a tab, the pending one included, a row's versions climb from what the tab shows,
  and what is about to be published is not below them. `TypeCorrect` and `ViewsClimb` (`NeverBack`)
  follow. `Told` is why tabs converge. A tab that will show a row wrong is told of it by
  each source that may be asked next: by the log behind the cursor, whose last event about
  the row says what happened to it (`LogTells`, `NoRevival`); by the baseline, which differs
  from the board there (`BaselineTells`); by the events or the board the watcher has read
  (`EventsRead`, `BoardRead`), where commits since the read are in the log behind the
  position read with it; and if nothing is due, by the reconcile that runs (`DueTells`).
  What may be suppressed as published by this process is on its way to every tab
  or was overtaken (`RecentSound`). The subtle part is rows that were born
  after the baseline was taken and gone before the board was read: neither differs from the other,
  and no tab may show them.
* **BoardClient** implements `Ledger` (`ClientKeepsPromise`). Every step maps to a
  run, a report or a stutter under an invariant with four parts: the completed records are the
  keys that ran, once each (`RecordsAgree`); an answer of success belongs to
  the mutation in flight, which has its record (`AnswerTrue`); a request with the
  number of the one in flight is for the same mutation (`CurrentTyped`), which late
  requests of earlier attempts are not; the queue holds mutations (`QueueTyped`).
  `TypeCorrect` needs `Fits`: a version counts what was committed, so that it stays in its
  bound. `QuietTabAgrees` and `RollbackSparesOwnRow` rest on `ScreenInv`: what the tab shows is the row, or
  news of it is pending in a frame or with the watcher, or history says that an answer or a
  rollback took it back (`ViewBehind`); the last frame with a row has it as it is
  (`FramesFresh`); an answer and a rollback that may be merged late are no newer than the rows, and
  where they are older the tab shows no less or has news to come (`LateSound`); what is
  optimistic belongs to the mutation in flight or was passed over by the rollback of a cascade
  (`ScreenOwned`). That a rollback takes all of a painted row back but what it passes over needs that every painted row
  is in the inverse, and that of an edit the version sent was the row's own.
* **Daemon** implements `Ledger` (`DaemonKeepsPromise`). A client that has not sent
  its command has no connection and may run the command itself (`Unsent`); once the
  request is at a daemon it runs there and before its answer (`Sent`); who is or
  will be told of success had it run once (`Truthful`). Nothing in it is about who
  holds the path of the socket, which is why a stolen path does no harm. `CachesSound` adds
  `CachesFit`: the count of a handle is the number of requests that use its database, a
  number that every step of a request changes together with the handle. An eviction is counted
  through round by round (`ShrunkFits`): a round takes an idle handle, so no request loses
  its own, and the rounds end with room or with every handle in use.
* **Migrations.** `IInv` says that some release could have left the live database and every
  copy (`LeftByRelease`), that a command between its `ALTER TABLE` and its `UPDATE` is the only
  one there and the base row still has no number (`NumberOK`), and that a rollback knows
  its target (`TargetOK`). It is inductive because whole upgrades and whole rollbacks
  leave such databases (`UpgradeLeaves`, `RollbackLeaves`), and that is most of the work.
  A transaction is counted through migration by migration (`Climbs`, `Descends`), a migration
  statement by statement (`Course`). Each statement of the thirteen `up()` and ten
  `down()` is looked at once: which version its object is of (`Entry`, `TableSince`), whether
  the table and the columns it needs are of an earlier one. So an upgrade makes the objects
  of its version (`CourseMakes`), throws nowhere, and takes no object that an
  earlier version made but the indexes that version 12 replaces (`UpReady`); a rollback takes those of its own
  version and no older one (`DownFits`). Only the first migration can throw on what a
  release has left, and it does on a schema without scopes whose base row has no number
  (`UnscopedFails`), which is why a command that comes between the two statements
  of `ensureMigrationVersionColumn` fails and does no harm. `HeaderTruthful` (`HeadersAreTrue`) needs that
  a schema which fits version 13 is one schema (`OneNewestSchema`): an index name has one set of keys,
  but for the two of version 2, and those are gone. `EdgesKept` holds since cleaning keeps
  the oldest row of every pair (`Oldest`, by well-foundedness), and cleaning twice keeps it still.
  `VersionsKeepPromise` maps each step to one of `SchemaVersion`; a rollback to the
  version that is there, and an upgrade by an older release, are stutters.
* **Recovery.** `NothingLost` (`NothingIsLost`) holds because every step
  `Advances`: what the shared file had it has, or history says who took it. `IInv`
  adds that between its look and its verdict a command knows what its files hold
  (`LookHolds`), that it imports one content, if it compared contents, and had found no shared file
  (`ImportsOne`), that what it found is in the shared file from then on (`Served`), unless it went ahead
  on bytes or because the shared file was gone, and
  that an old file stays unless the operator removed it (`OldKept`). Old contents and reported writes are kept
  whatever a command went ahead on.

The strengthenings `AgentsSound`, `TablesFit`, `SInv` (of `Daemon`: `IInv`, `CachesFit` and
`ConnectionsFit`), `ScreenInv`, `Base`, `Told` and the `IInv` of `Migrations` hold in TLC
on the configurations of the runs as well. Four changes of the models came of
the proofs. `CascadeWaits` first asked that a removed dependency stay while a conflict about
its own removal is pending, which is not so: after the branch has taken the edge back, an overlapping pull that
reads the event again applies it. It now speaks of the removals that a waiting
deletion caused, and `DeletesSpareOwnEdits` of the direct ones. The folds over batches,
evictions, statements and migrations became recursive functions. What a database may be
that a command finds, which the run gave by three examples, became the assumption
`LeftByRelease`. And the other assumptions above were named.

Only model-checked: liveness (`Settles` of
`BoardClient` and `Daemon`, `Delivered` of `BoardStream`, `Finishes` of `Execution`), which with fairness and
ENABLED is out of the prover's reach.

Two abstractions limit what the proofs say: the log of `Tracker` is the result of
replaying events, not the sequence of them, and what a recursive SQL query returns is
taken to be reachability.

## Disagreements

One run shows a violation, `sync_epic`: while the deletion of an epic waits for the user, the
pull deletes the subtasks below it. A subtask's event names the
task's, which is itself withheld and so has no conflict to wait for (`service.ts:1574`). For a deleted
task the cascade does wait (`CascadeWaits`).

The following were met while translating. The models do what the code does, and the
properties except exactly these cases.

* A cascade writes a status without the transition checker
  (`mutation-service.ts:1726`), which `docs/machine-contracts.md:400-405` reserves
  to `markTaskDoneAtomically`.
* An owner cannot claim its own in-progress task again (`mutation-service.ts:908`);
  the comment at `:872` says it can.
* A replayed creation inserts a deleted row again at version 1 (`service.ts:1366`), so
  that a stale `If-Match` may be accepted, which `docs/commands.md:98-102` excludes.
  Within one life of a row it cannot (`VersionPinsContent`, proved).
* A replayed creation whose description or owner is contested records the conflict
  and empties the column (`service.ts:1368`; compare `tests/commands/sync.test.ts:1582`).
* A pull inserts a row again that the own branch deleted, without a conflict
  (`service.ts:666`); the comment at `:626-628` says it reports it.
* Accepting the removal of a dependency (`sync resolve --use theirs`) leaves it where it
  is: `deleteSingleEntity` (`service.ts:2062`) looks for the entity id of the event,
  `kind:id->kind:id`, and the table has a UUID. `docs/commands.md:373` says the entity
  is deleted.
* A replayed `dependency.added` is inserted without a search for a cycle and whatever
  the own branch removed (`service.ts:1410`), so a pull can close a cycle that no command could. A replayed `epic.deleted` leaves the
  dependencies of its tasks behind, with no ends, until their own events come
  (`service.ts:1511`); `Sync`'s `TypeOK` excepts this case.
* `sync pull` appends no event for what it applies, so the watcher's event path
  publishes nothing for it (`wal-watcher.ts:534`, `:662-719`; `docs/commands.md:94` says
  tabs follow). History `unsent` of `BoardStream` lists these rows.
* An edit that the branch makes while its pull runs, after the pull has looked the column up, is compared by its old
  value and may be overwritten without a conflict (`service.ts:554`). `NothingLostUnnoticed` allows any
  value that the branch said since the pull began.
* Of two first commands that overlap, the import of the later one takes what the first wrote
  (`worktree-recovery.ts:366`), and a write through a handle that a wipe left open is lost (`wipe.ts:34`).
  `NothingLost` excepts both.
* A prune does not protect the cursor of a first pull that is made after its look
  (`events-retention.ts:121`; the comment at `:117` says cursors always have replayable
  history).
* After a refused cascade of the board a task or subtask that has a higher version than its epic keeps the
  status that the user chose, since `stripUpToDateEntitiesFromInverse` compares its version with the epic's
  (`api.js:182`; the head of that file says that the queue reverts on error). Its next
  delta, or any snapshot, puts it right. Which rows these are (history `skipped`), and that no others are left, is `QuietAgrees`.
* A rollback takes back newer records of epics, and of tasks with subtasks, that the mutation did not
  touch (`api.js:60`; the comments at `:85` and `:359-361` say concurrent deltas of unrelated entities are
  preserved). `QuietAgrees` excepts them (history `stale`); the row whose version was sent is spared (`OwnRowKept`).
* A wipe between the two looks for the shared file lets a command past the comparison, and it
  opens an empty database beside the old files (`worktree-recovery.ts:252`; what it reports is `:325`, that the
  shared database matches the old ones). Without dumps, files that differ in what is still in their `-wal` are
  imported as one (`worktree-recovery.ts:139`; the test `tests/storage/database.test.ts:400` has divergent files refused). In both cases the old files stay,
  which is the first part of `NothingLost`; the last part excepts them (history `basis`).
* `suggest` counts a blocked task as not open and says that all tasks are complete
  (`commands/suggest.ts:155`; the comment at `:151` speaks of all tasks done).
* `create` stores a gated status as it is given (`tracker-domain.ts:287`), so `GateHolds` is
  about existing items.
* `docs/ai-agents.md:177` and `docs/commands.md:281` let `task done` append two events;
  the code and `docs/machine-contracts.md:265` one. `docs/machine-contracts.md:650` calls
  rollbacks unsupported, the code supports them above version 6, and the example
  `rollback --to-version 1` of `docs/quickstart.md:228` always fails.
* A daemon that stops unlinks the socket of one that started later; the clients of
  that one then run their commands themselves. `CommandOnce` holds all the same.

## Not modelled

* Rendering, export, output formats, search counts, previews: pure functions of the rows.
* Argument parsing and validation of options: they refuse before anything changes.
* Malformed payloads, `upsert` events of old releases and a detached HEAD in `Sync`: a
  malformed event becomes an invalid conflict and moves the cursor, as a rejected one does.
* The checkout of another branch in a worktree between two commands.
* Cookies, ports, assets and the wire format of the board server; byte limits of
  daemon requests, which are refusals like the scope check.
* SQLite itself: its lock is the atomicity of actions, its rollback the absence of a
  step; busy waits and checkpoints are left to it.
* Types, defaults and uniqueness of columns in `SchemaObjects`, and the archive table of
  pruned events.
* Expiry of idempotency keys after seven days.

## What may come next

An abstract work graph that `Tracker` implements; branch checkout and detached HEAD in `Sync`; several tabs together with several rows in the run of `BoardStream`.

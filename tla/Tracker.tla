------------------------------ MODULE Tracker ------------------------------
(***************************************************************************)
(* The work graph Trekoon keeps in its shared SQLite database: epics, the  *)
(* tasks of an epic, the subtasks of a task, and the dependency edges      *)
(* between tasks and subtasks, together with the rows the `events` table   *)
(* records about them.                                                     *)
(*                                                                         *)
(* Every mutation of MutationService runs inside one BEGIN IMMEDIATE       *)
(* transaction, so one operation is one action: it reads, checks, writes   *)
(* the tables and appends its events, or it throws and changes nothing     *)
(* (the action is then not enabled).                                       *)
(*                                                                         *)
(* Abstractions.  An id is a model value and a deleted id may be drawn     *)
(* again: no table refers to a row that is gone (ReferentialIntegrity), so *)
(* a fresh uuid and a recycled id behave alike.  A row never changes its   *)
(* parent, so the parent is a constant of the id.  Titles, descriptions,   *)
(* owners and versions are the subject of module SharedRow.                *)
(***************************************************************************)
EXTENDS StatusMachine, Naturals, FiniteSets

CONSTANTS
    Epics, Tasks, Subtasks,  \* the ids rows can have
    EpicOf,                  \* [Tasks -> Epics]: column tasks.epic_id
    TaskOf,                  \* [Subtasks -> Tasks]: column subtasks.task_id
    CustomStatuses,          \* statuses outside VALID_STATUSES that `create` stores as given
    MaxBatch                 \* bound: edges given to one batch command

Statuses == ValidStatuses \cup CustomStatuses
Absent == "absent"           \* there is no row with this id

Item == Tasks \cup Subtasks
Node == Epics \cup Item
Edge == Item \X Item         \* <<source_id, depends_on_id>>

ASSUME IdsAssumption ==
    /\ Epics \cap Tasks = {} /\ Epics \cap Subtasks = {} /\ Tasks \cap Subtasks = {}
    /\ EpicOf \in [Tasks -> Epics]
    /\ TaskOf \in [Subtasks -> Tasks]

ASSUME StatusAssumption == CustomStatuses \cap (ValidStatuses \cup {Absent}) = {}

VARIABLES
    status,      \* status column of each row, Absent where there is none
    deps,        \* the dependencies table: a set of edges
    logStatus,   \* what replaying the events table yields for the rows ...
    logDeps      \* ... and for the dependencies

vars == <<status, deps, logStatus, logDeps>>

----------------------------------------------------------------------------
(* Reading the tables *)

Live(n) == status[n] # Absent

TasksOf(e) == {t \in Tasks : Live(t) /\ EpicOf[t] = e}
SubtasksOf(T) == {s \in Subtasks : Live(s) /\ TaskOf[s] \in T}

ParentOf(n) == IF n \in Tasks THEN EpicOf[n] ELSE TaskOf[n]

\* The edges with an end in N.
Touching(N) == {d \in deps : d[1] \in N \/ d[2] \in N}

\* The least set that holds `from` and follows every edge of E, as the recursive
\* query computes it, holds `to`.
Closed(N, E) == \A d \in E : d[1] \in N => d[2] \in N
Reaches(E, from, to) == \A N \in SUBSET Node : from \in N /\ Closed(N, E) => to \in N

Acyclic(E) == \A d \in E : ~Reaches(E, d[2], d[1])

\* Every dependency of n that still has a row is done.
DepsDone(n) == \A d \in deps : d[1] = n /\ Live(d[2]) => status[d[2]] = "done"

----------------------------------------------------------------------------
(* Writing the tables and appending the events *)

Override(f, rows) == [n \in Node |-> IF n \in DOMAIN rows THEN rows[n] ELSE f[n]]
All(N, s) == [n \in N |-> s]

\* `rows` gives the written rows their status; each gets a created or updated event.
WriteRows(rows) ==
    /\ status' = Override(status, rows)
    /\ logStatus' = Override(logStatus, rows)

\* The rows of N and the edges of D are deleted; `announced` gets deleted events.
DeleteRows(N, D, announced) ==
    /\ status' = Override(status, All(N, Absent))
    /\ deps' = deps \ D
    /\ logStatus' = Override(logStatus, All(announced, Absent))
    /\ logDeps' = logDeps \ D

AddEdges(D) ==
    /\ deps' = deps \cup D
    /\ logDeps' = logDeps \cup D

----------------------------------------------------------------------------
(* Creation *)

\* `create` stores the status as given; it is neither validated nor gated.
CreateEpic(e, s) ==
    /\ ~Live(e)
    /\ WriteRows(All({e}, s))
    /\ UNCHANGED <<deps, logDeps>>

CreateTaskBatch(e, rows) ==
    /\ Live(e)
    /\ \A t \in DOMAIN rows : EpicOf[t] = e
    /\ WriteRows(rows)
    /\ UNCHANGED <<deps, logDeps>>

CreateSubtaskBatch(rows) ==
    /\ \A k \in DOMAIN rows : Live(TaskOf[k])
    /\ WriteRows(rows)
    /\ UNCHANGED <<deps, logDeps>>

\* Mutant: every edge is compared with the stored edges only, not with the batch.
BatchAllowedAgainstStored(D, N) ==
    /\ \A d \in D : d[1] \in N /\ d[2] \in N /\ d[1] # d[2]
    /\ D \cap deps = {}
    /\ \A d \in D : ~Reaches(deps, d[2], d[1])

\* A batch of edges between the rows of N is refused as a whole when it holds an edge
\* twice (a set never does) or one that exists, a self edge, an unknown end or a cycle.
BatchAllowed(D, N) ==
    /\ \A d \in D : d[1] \in N /\ d[2] \in N /\ d[1] # d[2]
    /\ D \cap deps = {}
    /\ \A d \in D : ~Reaches(deps \cup D, d[2], d[1])

LiveItems == {n \in Item : Live(n)}

\* Tasks, subtasks of new or of existing tasks, and edges, in one transaction.
ExpandGraph(e, rows, D) ==
    /\ \A t \in Tasks \cap DOMAIN rows : EpicOf[t] = e
    /\ \A k \in Subtasks \cap DOMAIN rows : TaskOf[k] \in DOMAIN rows \/ Live(TaskOf[k])
    /\ BatchAllowed(D, LiveItems \cup DOMAIN rows)
    /\ AddEdges(D)

ExpandEpic(e, rows, D) ==
    /\ Live(e)
    /\ ExpandGraph(e, rows, D)
    /\ WriteRows(rows)

CreateEpicGraph(e, s, rows, D) ==
    /\ ~Live(e)
    /\ ExpandGraph(e, rows, D)
    /\ WriteRows([n \in {e} \cup DOMAIN rows |-> IF n = e THEN s ELSE rows[n]])

----------------------------------------------------------------------------
(* Status changes of one row *)

\* updateEpic, updateEpicWithIfMatch and appendToEpicDescription.
UpdateEpic(e, s) ==
    /\ Live(e)
    /\ ValidTransition(status[e], s)
    /\ WriteRows(All({e}, s))
    /\ UNCHANGED <<deps, logDeps>>

\* The same three operations of tasks and of subtasks: checked against the status
\* machine, and gated when they really move the row into a gated status.
UpdateItem(n, s) ==
    /\ Live(n)
    /\ ValidTransition(status[n], s)
    /\ status[n] # s /\ s \in Gated => DepsDone(n)
    /\ WriteRows(All({n}, s))
    /\ UNCHANGED <<deps, logDeps>>

\* Mutant: the claim spells its status as older exports did.
ClaimHyphenated(n) ==
    /\ status[n] \in {"todo", "blocked"}
    /\ DepsDone(n)
    /\ WriteRows(All({n}, "in-progress"))
    /\ UNCHANGED <<deps, logDeps>>

\* claimTask and claimSubtask, for a caller the row's owner does not exclude.
Claim(n) ==
    /\ status[n] \in {"todo", "blocked"}
    /\ DepsDone(n)
    /\ WriteRows(All({n}, "in_progress"))
    /\ UNCHANGED <<deps, logDeps>>

\* Mutant: the direct write passes the gate as well as the status machine.
MarkTaskDoneUngated(t) ==
    /\ status[t] \in {"todo", "blocked", "in_progress"}
    /\ WriteRows(All({t}, "done"))
    /\ UNCHANGED <<deps, logDeps>>

\* markTaskDoneAtomically: any open status to done, past the status machine but
\* not past the gate.
MarkTaskDone(t) ==
    /\ status[t] \in {"todo", "blocked", "in_progress"}
    /\ DepsDone(t)
    /\ WriteRows(All({t}, "done"))
    /\ UNCHANGED <<deps, logDeps>>

----------------------------------------------------------------------------
(* Status cascades *)

Scope(root) ==
    {root} \cup IF root \in Epics
                THEN TasksOf(root) \cup SubtasksOf(TasksOf(root))
                ELSE SubtasksOf({root})

\* The edges of changed rows whose target is not done and will not be made done.
CascadeBlockers(changes, s) ==
    {d \in deps : /\ s \in Gated
                  /\ d[1] \in changes
                  /\ Live(d[2]) /\ status[d[2]] # "done"
                  /\ ~(s = "done" /\ d[2] \in changes)}

\* The task under which the tree order of a cascade lists n.
BlockOf(n) == IF n \in Tasks THEN n ELSE TaskOf[n]

ChangedEdges(changes) == {d \in deps : d[1] \in changes /\ d[2] \in changes}

\* <<x, y>>: x has to be written before y.  A done cascade orders children before
\* parents and dependencies before dependents.  Any other cascade writes in tree
\* order, and each row passes the gate again at its turn, when the rows before it
\* are no longer done.
CascadeOrder(changes, s) ==
    CASE s = "done" ->
            {<<n, ParentOf(n)>> : n \in {m \in changes \cap Item :
                                    ParentOf(m) \in changes /\ <<m, ParentOf(m)>> \notin deps}}
            \cup {<<d[2], d[1]>> : d \in ChangedEdges(changes)}
      [] s = "in_progress" ->
            {<<TaskOf[n], n>> : n \in changes \cap Subtasks}
            \cup {d \in ChangedEdges(changes) : BlockOf(d[1]) = BlockOf(d[2])}
            \cup {<<BlockOf(d[1]), BlockOf(d[2])>> :
                     d \in {c \in ChangedEdges(changes) : BlockOf(c[1]) # BlockOf(c[2])}}
      [] OTHER -> {}

Cascade(root, s) ==
    LET changes == {n \in Scope(root) : status[n] # s}
    IN  /\ Live(root)
        /\ CascadeBlockers(changes, s) = {}
        /\ Acyclic(CascadeOrder(changes, s))
        /\ WriteRows(All(changes, s))
        /\ UNCHANGED <<deps, logDeps>>

\* PATCH /api/epics/:id/cascade takes any status; the command line only done and todo.
UpdateEpicStatusCascade(e, s) == Cascade(e, s)
UpdateTaskStatusCascade(t, s) == s \in {"done", "todo"} /\ Cascade(t, s)

----------------------------------------------------------------------------
(* Deletion.  ON DELETE CASCADE reaches tasks and subtasks, never dependencies. *)

\* Mutant: the edges are left to the cascade, which has no foreign key for them.
DeleteEpicKeepingEdges(e) ==
    LET tasks == TasksOf(e)
        subtasks == SubtasksOf(tasks)
    IN  /\ Live(e)
        /\ DeleteRows({e} \cup tasks \cup subtasks, {}, {e} \cup tasks \cup subtasks)

DeleteEpic(e) ==
    LET tasks == TasksOf(e)
        subtasks == SubtasksOf(tasks)
    IN  /\ Live(e)
        /\ DeleteRows({e} \cup {t \in Tasks : EpicOf[t] = e}
                          \cup {s \in Subtasks : EpicOf[TaskOf[s]] = e},
                      Touching(tasks \cup subtasks),
                      {e} \cup tasks \cup subtasks)

\* Mutant: the subtasks that go with the task are not announced.
DeleteTaskSilently(t) ==
    LET subtasks == SubtasksOf({t})
    IN  /\ Live(t)
        /\ DeleteRows({t} \cup subtasks, Touching({t} \cup subtasks), {t})

DeleteTask(t) ==
    LET subtasks == SubtasksOf({t})
    IN  /\ Live(t)
        /\ DeleteRows({t} \cup subtasks, Touching({t} \cup subtasks), {t} \cup subtasks)

DeleteSubtask(s) ==
    /\ Live(s)
    /\ DeleteRows({s}, Touching({s}), {s})

----------------------------------------------------------------------------
(* Dependencies *)

\* An edge that exists is returned as it is, before the search for a cycle, and
\* announced again.
AddDependency(a, b) ==
    /\ Live(a) /\ Live(b) /\ a # b
    /\ <<a, b>> \in deps \/ ~Reaches(deps, b, a)
    /\ AddEdges({<<a, b>>})
    /\ UNCHANGED <<status, logStatus>>

AddDependencyBatch(D) ==
    /\ BatchAllowed(D, LiveItems)
    /\ AddEdges(D)
    /\ UNCHANGED <<status, logStatus>>

RemoveDependency(a, b) ==
    /\ Live(a)
    /\ <<a, b>> \in deps
    /\ deps' = deps \ {<<a, b>>}
    /\ logDeps' = logDeps \ {<<a, b>>}
    /\ UNCHANGED <<status, logStatus>>

----------------------------------------------------------------------------

Init ==
    /\ status = [n \in Node |-> Absent]
    /\ deps = {}
    /\ logStatus = [n \in Node |-> Absent]
    /\ logDeps = {}

\* New rows of N under fresh ids, each with a status of its own.
NewRows(N) == UNION {[M -> Statuses] : M \in SUBSET {n \in N : ~Live(n)}}

\* The edge sets a batch command is given.
EdgeBatches == {D \in SUBSET Edge : Cardinality(D) <= MaxBatch}

Next ==
    \/ \E e \in Epics, s \in Statuses : CreateEpic(e, s)
    \/ \E e \in Epics, rows \in NewRows(Tasks) : CreateTaskBatch(e, rows)
    \/ \E rows \in NewRows(Subtasks) : CreateSubtaskBatch(rows)
    \/ \E e \in Epics, rows \in NewRows(Item), D \in EdgeBatches : ExpandEpic(e, rows, D)
    \/ \E e \in Epics, s \in Statuses, rows \in NewRows(Item), D \in EdgeBatches :
          CreateEpicGraph(e, s, rows, D)
    \/ \E e \in Epics, s \in Statuses : UpdateEpic(e, s)
    \/ \E n \in Item, s \in Statuses : UpdateItem(n, s)
    \/ \E n \in Item : Claim(n)
    \/ \E t \in Tasks : MarkTaskDone(t)
    \/ \E e \in Epics, s \in Statuses : UpdateEpicStatusCascade(e, s)
    \/ \E t \in Tasks, s \in Statuses : UpdateTaskStatusCascade(t, s)
    \/ \E e \in Epics : DeleteEpic(e)
    \/ \E t \in Tasks : DeleteTask(t)
    \/ \E s \in Subtasks : DeleteSubtask(s)
    \/ \E d \in Edge : AddDependency(d[1], d[2])
    \/ \E D \in EdgeBatches : AddDependencyBatch(D)
    \/ \E d \in Edge : RemoveDependency(d[1], d[2])

Spec == Init /\ [][Next]_vars

----------------------------------------------------------------------------
(* Properties *)

\* The columns hold values of their domain and the edge table holds edges.
TypeOK ==
    /\ status \in [Node -> Statuses \cup {Absent}]
    /\ deps \subseteq Edge
    /\ logStatus \in [Node -> Statuses \cup {Absent}]
    /\ logDeps \subseteq Edge

\* No row outlives its parent and no edge outlives either of its ends, although the
\* dependencies table has no foreign key and is cleaned up by hand on every deletion.
ReferentialIntegrity ==
    /\ \A t \in Tasks : Live(t) => Live(EpicOf[t])
    /\ \A s \in Subtasks : Live(s) => Live(TaskOf[s])
    /\ \A d \in deps : Live(d[1]) /\ Live(d[2])

\* No item waits for itself through any chain of dependencies, whichever of the three
\* commands that write edges, and in whatever order, built the chain.
DependenciesAcyclic == Acyclic(deps)

\* Replaying the events table gives the tables: every row and edge a transaction writes
\* or deletes, those removed along with another row included, has its event.
ReplayAgrees == logStatus = status /\ logDeps = deps

\* No operation moves an existing item into in_progress or done past a dependency that
\* is neither done before the operation nor made done by it (a cascade does both).
\* Creation is not covered: `create` stores a gated status unchecked.
GateHolds ==
    [][\A n \in Item :
          Live(n) /\ status'[n] # status[n] /\ status'[n] \in Gated
             => \A d \in deps : d[1] = n => "done" \in {status[d[2]], status'[d[2]]}]_vars

=============================================================================

-------------------------------- MODULE Sync --------------------------------
(***************************************************************************)
(* `trekoon sync pull` and `sync resolve`.  The worktrees of a repository  *)
(* share one database and each has its own branch checked out, so a        *)
(* worktree stands for its branch too.  Commands run in a worktree and     *)
(* append events tagged with its branch; a pull replays the events of      *)
(* another branch, in batches, against the rows all of them share, and     *)
(* withholds what contradicts the events of its own branch as conflicts.   *)
(*                                                                         *)
(* Events are totally ordered (the timestamps are made distinct inside the *)
(* write lock), so the log is a sequence and an index is both id and       *)
(* cursor token.  Ids are fresh: an entity is created once; a dependency   *)
(* is known by its two ends and may come and go.  Malformed payloads and a *)
(* detached HEAD are left out.                                             *)
(*                                                                         *)
(* `replayed` and the field `start` of a pull are history: which events a  *)
(* worktree has ever replayed, and how long the log was when a pull began. *)
(***************************************************************************)
EXTENDS Naturals, FiniteSets, Sequences, Functions, SequencesExt, FiniteSetsExt

CONSTANTS
    Worktrees,
    Pullers, In,               \* processes that pull, and the worktree of each
    Sources,                   \* whose branches are pulled
    Askers,                    \* worktrees with a user who is asked before a resolution
    Epics, Tasks, Subtasks,
    Edges,                     \* dependencies that may be: <<source_id, depends_on_id>>
    Parent,                    \* of a subtask its task, of a task its epic if that is modelled
    Required, Optional, Late,  \* columns: must be in a created event, may, never is (owner)
    Values, Default,           \* Default is what an absent column is set to
    BatchSize,
    MaxEvents, MaxEdits,       \* bounds: events in the log; those that are no resolutions
    Past, Origin               \* entities that exist from the start, and who created them

Entities == Epics \cup Tasks \cup Subtasks
Items == Tasks \cup Subtasks
Fields == Required \cup Optional \cup Late

NotFound == "not found"
Idle == [idle |-> TRUE]
Absent == [absent |-> TRUE]        \* there is no row
NoFields == [f \in {} |-> Default]

ASSUME WorktreesAssumption == In \in [Pullers -> Worktrees] /\ Sources \subseteq Worktrees
                              /\ Askers \subseteq Worktrees
ASSUME ParentAssumption ==
    /\ DOMAIN Parent \subseteq Tasks \cup Subtasks
    /\ Subtasks \subseteq DOMAIN Parent
    /\ \A e \in DOMAIN Parent : Parent[e] \in IF e \in Tasks THEN Epics ELSE Tasks
    /\ Epics \cap Tasks = {} /\ Tasks \cap Subtasks = {} /\ Epics \cap Subtasks = {}
ASSUME EdgesAssumption ==
    /\ Edges \subseteq {d \in Items \X Items : d[1] # d[2]}
    /\ Edges \cap Entities = {}
ASSUME ColumnsAssumption ==
    /\ Default \notin Values /\ NotFound \notin Values \cup {Default}
    /\ Fields \cap {"__delete__", "__apply__", "absent"} = {}
    /\ Required \cap (Optional \cup Late) = {} /\ Optional \cap Late = {}
ASSUME BoundsAssumption == BatchSize \in Nat \ {0} /\ MaxEvents \in Nat /\ MaxEdits \in Nat
ASSUME PastAssumption ==
    /\ Past \in Seq(Entities) /\ Len(Past) <= MaxEvents
    /\ Origin \in Worktrees
    /\ \A i \in DOMAIN Past :
          /\ \A j \in DOMAIN Past : Past[i] = Past[j] => i = j
          /\ Past[i] \in DOMAIN Parent => \E j \in 1 .. i - 1 : Past[j] = Parent[Past[i]]

VARIABLES
    row,        \* the row of each entity, or Absent
    deps,       \* the dependencies table
    log,        \* the events, oldest first
    cursor,     \* of each worktree, for each source branch: the last event replayed
    conflicts,  \* sync_conflicts
    pull,       \* the loop of each running pull
    ours,       \* oursCache: the values of its own branch a pull has looked up
    replayed,
    asked       \* the conflicts that the user of each worktree was told of and is asked about

tables == <<row, deps, log, cursor, conflicts, pull, ours, replayed>>
vars == <<tables, asked>>

ColumnValues(f) == IF f \in Required THEN Values ELSE Values \cup {Default}
Contents(F) == {c \in [F -> Values \cup {Default}] : \A f \in F : c[f] \in ColumnValues(f)}

Events == [by : Worktrees, op : {"created", "updated", "deleted", "added", "removed", "resolve_conflict"},
           ent : Entities \cup Edges, fields : UNION {Contents(F) : F \in SUBSET Fields},
           cause : 0 .. MaxEvents]
Conflicts == [event : 1 .. MaxEvents, field : Fields \cup {"__delete__", "__apply__"},
              scope : Worktrees, resolution : {"pending", "invalid", "ours", "theirs"}]

----------------------------------------------------------------------------
(* Rows *)

Live(rows, e) == rows[e] # Absent
ParentLive(rows, e) == e \in DOMAIN Parent => Live(rows, Parent[e])

Children(e) == {c \in DOMAIN Parent : Parent[c] = e}
Below(e) == {e} \cup Children(e) \cup UNION {Children(c) : c \in Children(e)}
LiveChildren(rows, e) == {c \in Children(e) : Live(rows, c)}

\* Deleting a row takes what is below it: foreign keys cascade.
RemoveSubtree(rows, e) == [x \in Entities |-> IF x \in Below(e) THEN Absent ELSE rows[x]]

\* The dependencies with an end in N.
Touching(D, N) == {d \in D : d[1] \in N \/ d[2] \in N}

\* What depends on its members is in every set that is closed under D and has `from`.
Closed(N, D) == \A d \in D : d[1] \in N => d[2] \in N
Reaches(D, from, to) == \A N \in SUBSET Items : from \in N /\ Closed(N, D) => to \in N

\* A deleted task or subtask takes its dependencies, and its subtasks' with it.  The table
\* has no foreign key, so those below an epic stay when only its row is deleted.
\* Mutant: the subtasks' stay.
DetachAlone(D, rows, e) == D \ Touching(D, {e} \cap Items)
Detach(D, rows, e) ==
    D \ Touching(D, ({e} \cap Items) \cup (IF e \in Tasks THEN LiveChildren(rows, e) ELSE {}))

\* UPDATE of the columns that `fields` names.
Patch(rows, e, fields) ==
    [rows EXCEPT ![e] = [f \in Fields |-> IF f \in DOMAIN fields THEN fields[f] ELSE @[f]]]

\* The upsert of a replayed creation writes every column, the ones it does not know too.
Upsert(rows, e, fields) ==
    [rows EXCEPT ![e] =
        [f \in Fields |-> IF f \in DOMAIN fields THEN fields[f] ELSE Default]]

----------------------------------------------------------------------------
(* Commands *)

Event(w, op, e, fields, cause) ==
    [by |-> w, op |-> op, ent |-> e, fields |-> fields, cause |-> cause]

AppendEvents(events) ==
    /\ Len(log) + Len(events) <= MaxEvents
    /\ log' = log \o events

Create(w, e, fields) ==
    /\ \A i \in DOMAIN log : log[i].ent # e
    /\ ParentLive(row, e)
    /\ row' = Upsert(row, e, fields)
    /\ AppendEvents(<<Event(w, "created", e, fields, 0)>>)
    /\ UNCHANGED <<deps, cursor, conflicts, pull, ours, replayed>>

\* The event of an update carries the whole row, whatever was changed.
Update(w, e, f, v) ==
    /\ Live(row, e)
    /\ row' = Patch(row, e, [g \in {f} |-> v])
    /\ AppendEvents(<<Event(w, "updated", e, row'[e], 0)>>)
    /\ UNCHANGED <<deps, cursor, conflicts, pull, ours, replayed>>

\* One that exists is announced again.
AddDependency(w, d) ==
    /\ Live(row, d[1]) /\ Live(row, d[2])
    /\ d \in deps \/ ~Reaches(deps, d[2], d[1])
    /\ deps' = deps \cup {d}
    /\ AppendEvents(<<Event(w, "added", d, NoFields, 0)>>)
    /\ UNCHANGED <<row, cursor, conflicts, pull, ours, replayed>>

RemoveDependency(w, d) ==
    /\ d \in deps
    /\ deps' = deps \ {d}
    /\ AppendEvents(<<Event(w, "removed", d, NoFields, 0)>>)
    /\ UNCHANGED <<row, cursor, conflicts, pull, ours, replayed>>

\* The sequences that have each member of a set once; no more than the log has room for.
Listings(S) ==
    {s \in SeqOf(S, MaxEvents - Len(log)) : ToSet(s) = S /\ IsInjective(s)}

\* A deletion starts with the row itself; each task comes right before its subtasks; the
\* dependencies of all come last.
DeleteOrders(e) ==
    {s \in Listings({x \in Below(e) : Live(row, x)} \cup Touching(deps, Below(e))) :
        /\ s[1] = e
        /\ \A i \in 2 .. Len(s) :
              /\ s[i] \in Subtasks => s[i - 1] \in {Parent[s[i]]} \cup Children(Parent[s[i]])
              /\ s[i - 1] \in Edges => s[i] \in Edges}

\* The event of a cascaded deletion names the one that caused it: of a row that of its
\* parent, of a dependency the first.
CascadeEvent(w, order, i) ==
    LET x == order[i] IN
    IF x \in Edges THEN Event(w, "removed", x, NoFields, Len(log) + 1)
    ELSE Event(w, "deleted", x, NoFields,
               IF i = 1 THEN 0
               ELSE Len(log) + CHOOSE j \in DOMAIN order : order[j] = Parent[x])

Delete(w, e) ==
    /\ Live(row, e)
    /\ row' = RemoveSubtree(row, e)
    /\ deps' = deps \ Touching(deps, Below(e))
    /\ \E order \in DeleteOrders(e) :
          AppendEvents([i \in DOMAIN order |-> CascadeEvent(w, order, i)])
    /\ UNCHANGED <<cursor, conflicts, pull, ours, replayed>>

----------------------------------------------------------------------------
(* What a branch itself has said *)

\* The events among the first `n` by which branch `w` touched an entity.
OwnEvents(w, e, n) == {i \in 1 .. n : log[i].by = w /\ log[i].ent = e}
OwnWrites(w, e, f, n) == {i \in OwnEvents(w, e, n) : f \in DOMAIN log[i].fields}

\* The newest value among them of one field.
OwnSay(w, e, f, n) ==
    IF OwnWrites(w, e, f, n) = {} THEN NotFound
    ELSE log[Max(OwnWrites(w, e, f, n))].fields[f]

Edited(w, e) == OwnEvents(w, e, Len(log)) # {}

\* The events by which it added or removed dependencies of D.
EdgeEvents(w, D) ==
    {i \in DOMAIN log : log[i].by = w /\ log[i].op \in {"added", "removed"} /\ log[i].ent \in D}

\* It has something to do with a dependency, and did not say last that it is gone.
Holds(w, d) ==
    EdgeEvents(w, {d}) # {} /\ log[Max(EdgeEvents(w, {d}))].op = "added"

----------------------------------------------------------------------------
(* Replaying one event.  `s` has the rows, the conflicts and the cache of own *)
(* values as the earlier events of the transaction left them.                 *)

Pending(C, w, i) ==
    \E c \in C : c.event = i /\ c.field = "__delete__" /\ c.scope = w /\ c.resolution = "pending"

\* Mutant: one conflict per field is enough, whichever event it is about.
CreateConflictsPerField(C, w, i, F, resolution) ==
    C \cup {[event |-> i, field |-> f, scope |-> w, resolution |-> resolution] :
               f \in {g \in F : \A c \in C : ~(c.field = g /\ c.scope = w)}}
\* Mutant: only pending conflicts are looked for.
CreateConflictsAnew(C, w, i, F, resolution) ==
    C \cup {[event |-> i, field |-> f, scope |-> w, resolution |-> resolution] :
               f \in {g \in F : \A c \in C : ~(c.event = i /\ c.field = g /\ c.scope = w
                                              /\ c.resolution = "pending")}}
\* A conflict that is there already keeps its resolution.
CreateConflicts(C, w, i, F, resolution) ==
    C \cup {[event |-> i, field |-> f, scope |-> w, resolution |-> resolution] :
               f \in {g \in F : \A c \in C : ~(c.event = i /\ c.field = g /\ c.scope = w)}}

\* Conflicts of worktree `w` that are about one of `ents`.
ConflictsAbout(C, w, ents) == {c \in C : c.scope = w /\ log[c.event].ent \in ents}

\* Mutant: only the row itself is looked at.
EditedRow(rows, w, e) == Edited(w, e)
\* hasLocalDeleteCascadeEdits: of an epic only its own events count, of a task those of its
\* subtasks and of all their dependencies too.
EditedSubtree(rows, w, e) ==
    LET N == {e} \cup (IF e \in Tasks THEN LiveChildren(rows, e) ELSE {}) IN
    \/ \E x \in N : Edited(w, x)
    \/ EdgeEvents(w, Touching(Edges, N \cap Items)) # {}

\* Deleting a row drops its conflicts, and of a task's the subtasks' with it.
Forgotten(rows, e) == {e} \cup (IF e \in Tasks THEN LiveChildren(rows, e) ELSE {})

\* Mutant: the cascaded event's own conflict is looked for.
ShouldWithholdItself(s, w, i) == Pending(s.conflicts, w, i)
ShouldWithhold(s, w, i) == log[i].cause # 0 /\ Pending(s.conflicts, w, log[i].cause)

ReplayDelete(s, w, i) ==
    LET e == log[i].ent IN
    IF ShouldWithhold(s, w, i) THEN s
    ELSE IF EditedSubtree(s.row, w, e)
    THEN [s EXCEPT !.conflicts = CreateConflicts(@, w, i, {"__delete__"}, "pending")]
    ELSE [s EXCEPT !.row = RemoveSubtree(@, e),
                   !.deps = Detach(@, s.row, e),
                   !.conflicts = @ \ ConflictsAbout(@, w, Forgotten(s.row, e))]

\* No search for a cycle, and none for a removal by the own branch.
ReplayAdded(s, w, i) ==
    LET d == log[i].ent IN
    IF Live(s.row, d[1]) /\ Live(s.row, d[2])
    THEN [s EXCEPT !.deps = @ \cup {d}]
    ELSE [s EXCEPT !.conflicts = CreateConflicts(@, w, i, {"__apply__"}, "invalid")]

ReplayRemoved(s, w, i) ==
    LET d == log[i].ent IN
    IF ShouldWithhold(s, w, i) THEN s
    ELSE IF d \in s.deps /\ Holds(w, d)
    THEN [s EXCEPT !.conflicts = CreateConflicts(@, w, i, {"__delete__"}, "pending")]
    ELSE [s EXCEPT !.deps = @ \ {d}]

\* Fields whose value in the row is not the incoming one: for them own events are searched.
Differing(s, i) ==
    {f \in DOMAIN log[i].fields :
        Live(s.row, log[i].ent) => s.row[log[i].ent][f] # log[i].fields[f]}

\* The cache lives as long as the pull, over all its batches.
LookUp(s, w, i) ==
    LET e == log[i].ent
        keys == {<<e, f>> : f \in Differing(s, i)}
    IN [s EXCEPT !.ours = [k \in DOMAIN @ \cup keys |->
            IF k \in DOMAIN @ THEN @[k] ELSE OwnSay(w, k[1], k[2], Len(log))]]

Contested(s, i) ==
    {f \in Differing(s, i) : s.ours[<<log[i].ent, f>>] \notin {NotFound, log[i].fields[f]}}

\* A creation inserts or overwrites the row if no required field is contested, and else
\* patches a row that is there; an update patches.  What does neither is put aside as
\* invalid.  An epic's event has no parent column that is always left to apply.
ReplayWrite(s0, w, i) ==
    LET s == LookUp(s0, w, i)
        ev == log[i]
        e == ev.ent
        contested == Contested(s, i)
        applied == Restrict(ev.fields, DOMAIN ev.fields \ contested)
        noted == CreateConflicts(s.conflicts, w, i, contested, "pending")
        Outcome(rows) == [s EXCEPT !.row = rows, !.conflicts = noted]
    IN  IF ev.op = "created" /\ Required \subseteq DOMAIN applied /\ ParentLive(s.row, e)
        THEN Outcome(Upsert(s.row, e, applied))
        ELSE IF /\ Live(s.row, e)
                /\ \/ ev.op = "created" /\ contested # {}
                   \/ ev.op = "updated" /\ (e \in Epics => DOMAIN applied # {})
        THEN Outcome(Patch(s.row, e, applied))
        ELSE [s EXCEPT !.conflicts = CreateConflicts(noted, w, i, {"__apply__"}, "invalid")]

\* A resolution of another branch is about conflicts of another worktree: it changes nothing.
Replay(s, w, i) ==
    CASE log[i].op = "resolve_conflict" -> s
      [] log[i].op = "deleted" -> ReplayDelete(s, w, i)
      [] log[i].op = "added" -> ReplayAdded(s, w, i)
      [] log[i].op = "removed" -> ReplayRemoved(s, w, i)
      [] OTHER -> ReplayWrite(s, w, i)

----------------------------------------------------------------------------
(* Pulls *)

PullStart(p, src) ==
    /\ pull[p] = Idle
    /\ pull' = [pull EXCEPT ![p] = [src |-> src, at |-> cursor[In[p]][src],
                                    batch |-> {}, start |-> Len(log)]]
    /\ UNCHANGED <<row, deps, log, cursor, conflicts, ours, replayed>>

\* What the process held in memory is gone.
PullEnds(p) ==
    /\ pull' = [pull EXCEPT ![p] = Idle]
    /\ ours' = [ours EXCEPT ![p] = <<>>]

Backlog(p) == {i \in DOMAIN log : i > pull[p].at /\ log[i].by = pull[p].src}
NextBatch(p) ==
    {i \in Backlog(p) : Cardinality({j \in Backlog(p) : j <= i}) <= BatchSize}

\* Mutant: the cursor is saved when the batch is read.
PullReadSavingCursor(p) ==
    /\ pull[p] # Idle /\ pull[p].batch = {}
    /\ IF NextBatch(p) = {} THEN PullEnds(p) /\ UNCHANGED cursor
       ELSE /\ pull' = [pull EXCEPT ![p].batch = NextBatch(p)]
            /\ cursor' = [cursor EXCEPT ![In[p]][pull[p].src] = Max(NextBatch(p))]
            /\ UNCHANGED ours
    /\ UNCHANGED <<row, deps, log, conflicts, replayed>>
\* The batch is read before the transaction that replays it.
PullRead(p) ==
    /\ pull[p] # Idle /\ pull[p].batch = {}
    /\ IF NextBatch(p) = {} THEN PullEnds(p)
       ELSE pull' = [pull EXCEPT ![p].batch = NextBatch(p)] /\ UNCHANGED ours
    /\ UNCHANGED <<row, deps, log, cursor, conflicts, replayed>>

\* The events are replayed in the order of the log: what those up to an index come to.
Replaying(p) ==
    LET upTo[i \in 0 .. Len(log)] ==
            IF i = 0
            THEN [row |-> row, deps |-> deps, conflicts |-> conflicts, ours |-> ours[p]]
            ELSE IF i \in pull[p].batch THEN Replay(upTo[i - 1], In[p], i)
            ELSE upTo[i - 1]
    IN upTo

\* In the transaction of the batch also the cursor is saved.  A short batch was the last.
Commit(p, found) ==
    LET m == pull[p] IN
    /\ cursor' = [cursor EXCEPT ![In[p]][m.src] = Max(m.batch)]
    /\ replayed' = [replayed EXCEPT ![In[p]] = @ \cup m.batch]
    /\ IF Cardinality(m.batch) < BatchSize THEN PullEnds(p)
       ELSE /\ pull' = [pull EXCEPT ![p] = [m EXCEPT !.at = Max(m.batch), !.batch = {}]]
            /\ ours' = [ours EXCEPT ![p] = found]
    /\ UNCHANGED log

PullBatch(p) ==
    /\ pull[p] # Idle /\ pull[p].batch # {}
    /\ pull[p].src # In[p]
    /\ LET s == Replaying(p)[Len(log)] IN
       /\ row' = s.row
       /\ deps' = s.deps
       /\ conflicts' = s.conflicts
       /\ Commit(p, s.ours)

\* A pull from the own branch only moves the cursor.
PullSameBranch(p) ==
    /\ pull[p] # Idle /\ pull[p].batch # {}
    /\ pull[p].src = In[p]
    /\ Commit(p, ours[p])
    /\ UNCHANGED <<row, deps, conflicts>>

\* The process is killed; a transaction it was in is rolled back.
PullDies(p) ==
    /\ pull[p] # Idle
    /\ PullEnds(p)
    /\ UNCHANGED <<row, deps, log, cursor, conflicts, replayed>>

----------------------------------------------------------------------------
(* Resolution *)

ApplyTheirs(rows, c) ==
    LET e == log[c.event].ent IN
    IF c.field = "__delete__" THEN RemoveSubtree(rows, e)
    ELSE IF Live(rows, e)
    THEN Patch(rows, e, [f \in {c.field} |-> log[c.event].fields[f]])
    ELSE rows

\* Accepting a deletion drops the other conflicts of the rows that go with it.
ForgottenWith(rows, c) ==
    LET e == log[c.event].ent IN
    IF c.field = "__delete__" /\ e \in Items THEN Forgotten(rows, e) ELSE {}

\* ... and takes the dependencies of the row, and those whose removal it caused.  That of a
\* dependency itself takes nothing: the row is looked for by the id of the event.
DepsWithout(D, rows, c) ==
    IF c.field # "__delete__" THEN D
    ELSE Detach(D, rows, log[c.event].ent)
             \ {log[i].ent : i \in {j \in DOMAIN log : log[j].op = "removed" /\ log[j].cause = c.event}}

ResolveConflictRow(s, c, choice) ==
    LET theirs == choice = "theirs"
        gone == IF theirs
                THEN ConflictsAbout(s.conflicts, c.scope, ForgottenWith(s.row, c)) \ {c}
                ELSE {}
    IN  [row |-> IF theirs THEN ApplyTheirs(s.row, c) ELSE s.row,
         deps |-> IF theirs THEN DepsWithout(s.deps, s.row, c) ELSE s.deps,
         conflicts |-> {IF d = c THEN [d EXCEPT !.resolution = choice] ELSE d :
                            d \in s.conflicts \ gone}]

PendingOf(w) == {c \in conflicts : c.scope = w /\ c.resolution = "pending"}

\* queryPendingConflictIds: those of an entity or of all, in one field or in any.
Some(S) == {{x} : x \in S} \cup {S}
Matching(w) == {{c \in PendingOf(w) : log[c.event].ent \in E /\ c.field \in F} :
                   E \in Some(Entities \cup Edges), F \in Some(Fields \cup {"__delete__"})}

\* One conflict, or those of the filters.
Filtered(w) == {{c} : c \in PendingOf(w)} \cup Matching(w)

\* What the conflicts of `order` come to, up to an index.
Resolving(order, choice) ==
    LET upTo[k \in 0 .. Len(order)] ==
            IF k = 0 THEN [row |-> row, deps |-> deps, conflicts |-> conflicts]
            ELSE ResolveConflictRow(upTo[k - 1], order[k], choice)
    IN upTo

\* All in one transaction, in the order of their events; each appends an event, also when
\* an earlier one has removed its row or the conflict itself.
Resolve(w, C, choice) ==
    /\ C # {}
    /\ \E order \in Listings(C) :
          /\ \A i, j \in DOMAIN order : i < j => order[i].event <= order[j].event
          /\ LET s == Resolving(order, choice)[Len(order)]
             IN  row' = s.row /\ deps' = s.deps /\ conflicts' = s.conflicts
          /\ AppendEvents([k \in DOMAIN order |->
                 Event(w, "resolve_conflict", log[order[k].event].ent, NoFields, 0)])
    /\ UNCHANGED <<cursor, pull, ours, replayed>>

\* `sync resolve --all --use theirs` of a user: the pending conflicts are listed and counted
\* (syncResolveAllPreview), and the transaction waits for the answer.
Ask(w) ==
    /\ asked[w] = {}
    /\ \E C \in Matching(w) \ {{}} : asked' = [asked EXCEPT ![w] = C]
    /\ UNCHANGED tables

Answered(w) == asked' = [asked EXCEPT ![w] = {}]

\* All of them must still be pending; those that came since are left.  (One that was dropped
\* and raised again meanwhile has a new id in the code and would be refused.)
\* Mutant: the transaction looks for all that is pending then.
ConfirmAnew(w) ==
    /\ asked[w] # {} /\ Answered(w)
    /\ Resolve(w, PendingOf(w), "theirs")
Confirm(w) ==
    /\ asked[w] # {} /\ Answered(w)
    /\ asked[w] \subseteq PendingOf(w)
    /\ Resolve(w, asked[w], "theirs")

\* The user says no, the command dies, or the answer is conflict_set_changed.
Decline(w) == asked[w] # {} /\ Answered(w) /\ UNCHANGED tables

----------------------------------------------------------------------------
Init ==
    /\ \E c \in [Entities -> Contents(Required \cup Optional)] :
          /\ row = [e \in Entities |->
                IF \E i \in DOMAIN Past : Past[i] = e
                THEN [f \in Fields |-> IF f \in DOMAIN c[e] THEN c[e][f] ELSE Default]
                ELSE Absent]
          /\ log = [i \in DOMAIN Past |-> Event(Origin, "created", Past[i], c[Past[i]], 0)]
    /\ deps = {}
    /\ cursor = [w \in Worktrees |-> [src \in Worktrees |-> 0]]
    /\ conflicts = {}
    /\ pull = [p \in Pullers |-> Idle]
    /\ ours = [p \in Pullers |-> <<>>]
    /\ replayed = [w \in Worktrees |-> {}]
    /\ asked = [w \in Worktrees |-> {}]

Edits == {i \in DOMAIN log : log[i].op # "resolve_conflict"}

Work ==
    \/ /\ Cardinality(Edits) < MaxEdits
       /\ \/ \E w \in Worktrees, e \in Entities :
                \/ \E c \in Contents(Required \cup Optional) : Create(w, e, c)
                \/ \E f \in Fields : \E v \in ColumnValues(f) : Update(w, e, f, v)
                \/ Delete(w, e)
          \/ \E w \in Worktrees, d \in Edges : AddDependency(w, d) \/ RemoveDependency(w, d)
    \/ \E p \in Pullers :
          \/ \E src \in Sources : PullStart(p, src)
          \/ PullRead(p)
          \/ PullBatch(p)
          \/ PullSameBranch(p)
          \/ PullDies(p)
    \/ \E w \in Worktrees, choice \in {"ours", "theirs"} :
          \E C \in Filtered(w) : Resolve(w, C, choice)

Next ==
    \/ Work /\ UNCHANGED asked
    \/ \E w \in Askers : Ask(w) \/ Confirm(w) \/ Decline(w)

Spec == Init /\ [][Next]_vars

----------------------------------------------------------------------------
(* Properties.  Those about a batch look at one transaction of a pull from  *)
(* another branch: before it and after it.                                  *)

Pulls == [src : Worktrees, at : 0 .. Len(log), batch : SUBSET DOMAIN log, start : 0 .. Len(log)]

\* Every column has a value of its domain, events and conflicts are about entities and
\* events that exist, cursors and batches point into the log, and no batch is too large.
\* A dependency, which no foreign key guards, has both its ends, through commands, replays
\* and resolutions, as long as no epic is deleted.
TypeOK ==
    /\ row \in [Entities -> Contents(Fields) \cup {Absent}]
    /\ deps \subseteq Edges
    /\ \/ \A d \in deps : Live(row, d[1]) /\ Live(row, d[2])
       \/ \E i \in DOMAIN log : log[i].op = "deleted" /\ log[i].ent \in Epics
    /\ log \in Seq(Events) /\ Len(log) <= MaxEvents
    /\ cursor \in [Worktrees -> [Worktrees -> 0 .. Len(log)]]
    /\ conflicts \subseteq Conflicts
    /\ \A c \in conflicts : c.event \in DOMAIN log
    /\ pull \in [Pullers -> Pulls \cup {Idle}]
    /\ \A p \in Pullers :
          /\ DOMAIN ours[p] \subseteq Entities \X Fields
          /\ pull[p] # Idle => Cardinality(pull[p].batch) <= BatchSize

\* A cursor passes no event of its branch that the worktree has not replayed, though pulls
\* die between batches, two pulls of a worktree overtake each other, and events are
\* appended while a pull runs.
NoEventSkipped ==
    \A w, src \in Worktrees :
        \A i \in 1 .. cursor[w][src] : log[i].by = src => i \in replayed[w]

Says(w, e, f, from) == {OwnSay(w, e, f, n) : n \in from .. Len(log)}

\* What a pull may do to a column that its branch had written before it began: leave it,
\* or give it a value the branch itself last said at some time since (the cache of own
\* values is that old).
KeepsOwn(p, F) ==
    \A e \in Entities, f \in F :
        /\ Live(row, e) /\ Live(row', e) /\ row'[e][f] # row[e][f]
        /\ OwnWrites(In[p], e, f, pull[p].start) # {}
        => row'[e][f] \in Says(In[p], e, f, pull[p].start)

\* A pull deletes no task or subtask that its branch has touched, unless the whole epic
\* goes, and no dependency that its branch has added and not removed since, whichever way
\* its deletion comes: it records a conflict for the user to decide.
DeletesSpareOwnEdits ==
    [][\A p \in Pullers : PullBatch(p) =>
          /\ \A d \in deps : Holds(In[p], d) => d \in deps'
          /\ \A e \in Items :
                Live(row, e) /\ Edited(In[p], e) =>
                    \/ Live(row', e)
                    \/ \E i \in pull[p].batch :
                          /\ log[i].op = "deleted" /\ log[i].ent \in Epics
                          /\ e \in Below(log[i].ent)]_vars

DeletesOf(p, e) ==
    {i \in pull[p].batch : log[i].op = "deleted" /\ e \in Below(log[i].ent)}
RemovalsOf(p, d) ==
    {i \in pull[p].batch : log[i].op = "removed" /\ log[i].ent = d}
        \cup DeletesOf(p, d[1]) \cup DeletesOf(p, d[2])

\* A deletion, the one that caused it, and the one that caused that.
Causes(i) == {i, log[i].cause} \cup (IF log[i].cause = 0 THEN {} ELSE {log[log[i].cause].cause})
Waits(w, I) == \E i \in I : Pending(conflicts, w, i)

\* Of a removal only its cause counts: a branch may take back what a pending conflict about
\* the removal is about, and a pull that reads the event again then applies it.
RemovalWaits(w, i) == Waits(w, IF log[i].op = "removed" THEN {log[i].cause} ELSE {i, log[i].cause})

\* While the deletion of a task or subtask waits for the user, the deletions and removals
\* it caused wait too, in whichever batch they come.
CascadeWaits ==
    [][\A p \in Pullers : PullBatch(p) =>
          /\ \A e \in Items :
                /\ Live(row, e)
                /\ \A i \in DeletesOf(p, e) : Waits(In[p], {i, log[i].cause})'
                => Live(row', e)
          /\ \A d \in deps :
                (\A i \in RemovalsOf(p, d) : RemovalWaits(In[p], i)') => d \in deps']_vars

\* What an incoming value may come to: it is in the row, or a conflict about its event
\* tells, or a later event of the batch is about the same row or one above it.
AccountedFor(p, i, f) ==
    LET e == log[i].ent IN
    \/ Live(row', e) /\ row'[e][f] = log[i].fields[f]
    \/ \E c \in conflicts' : c.event = i /\ c.scope = In[p] /\ c.field \in {f, "__apply__"}
    \/ \E j \in pull[p].batch : j > i /\ e \in Below(log[j].ent)

\* No side of a contradiction is lost unnoticed: a pull overwrites no required column
\* against what its own branch last said of it, and drops no incoming value silently.
NothingLostUnnoticed ==
    [][\A p \in Pullers : PullBatch(p) =>
          /\ KeepsOwn(p, Required)
          /\ \A i \in pull[p].batch : \A f \in DOMAIN log[i].fields : AccountedFor(p, i, f)]_vars

\* A conflict that the user has resolved does not come back as pending when its event is
\* replayed once more.
ResolutionSticks ==
    [][\A c \in conflicts : c.resolution \in {"ours", "theirs"} =>
          ~\E d \in conflicts' :
              d.event = c.event /\ d.field = c.field /\ d.scope = c.scope
              /\ d.resolution = "pending"]_vars

\* A user who says yes to the conflicts that were listed settles those and no others, however
\* pulls and other resolutions change the set while the question waits: rows change only
\* where one of them is about the row or one above it, and what became pending since stays
\* pending unless its row is deleted.
ResolvesWhatWasShown ==
    [][\A w \in Askers : asked[w] # {} /\ asked'[w] = {} =>
          /\ \A e \in Entities : row'[e] # row[e] =>
                \E c \in asked[w] : e \in Below(log[c.event].ent)
          /\ \A c \in PendingOf(w) \ asked[w] :
                \/ c \in conflicts'
                \/ \E d \in asked[w] : d.field = "__delete__" /\ log[c.event].ent \in Below(log[d.event].ent)]_vars

\* The comment of deleteEpic has the cascade of an epic's deletion suppressed while a
\* conflict about the epic is pending: nothing below the epic is deleted either.
EpicCascadeWaits ==
    [][\A p \in Pullers : PullBatch(p) =>
          \A e \in Tasks \cup Subtasks :
              /\ Live(row, e)
              /\ \A i \in DeletesOf(p, e) : Waits(In[p], Causes(i))'
              => Live(row', e)]_vars

=============================================================================

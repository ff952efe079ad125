--------------------------- MODULE RowsAndLogProofs ---------------------------
(***************************************************************************)
(* What holds of the writers of one row and of the readers of the events   *)
(* that such writes leave: two components without shared state, proved     *)
(* about one after the other.                                              *)
(***************************************************************************)
EXTENDS SharedRow, EventLog, FiniteSetTheorems, TLAPS

(***************************************************************************)
(* What holds of a row for any number of clients and agents, any version   *)
(* bound and any number of lives.  Versions only grow while a row lives,   *)
(* and a claim needs the owner it sets to be there already or nobody.      *)
(***************************************************************************)

\* What a client saw in this life is at most as new as the row, and the row itself when
\* it is as new.
SeenIsPast ==
    \A c \in Clients :
        /\ known[c].life <= life
        /\ known[c].life = life /\ Exists /\ known[c].row # Gone
              => /\ known[c].row.version <= row.version
                 /\ known[c].row.version = row.version => known[c].row = row

\* Whoever holds a claim is the owner in the row.
HoldersOwn == \A o \in holders : Exists /\ row.owner = o

\* A row that was never inserted is not there, one that was has a created event.
LifeAgrees ==
    /\ life = 0 => ~Exists
    /\ life # 0 => created \in Created

\* What was appended does not outlive the row.
NothingKeptOfNoRow == ~Exists => kept = {}

\* The inductive invariant.
RowIInv ==
    /\ RowOK
    /\ LifeAgrees
    /\ SeenIsPast
    /\ HoldersOwn
    /\ AppendsAreKept
    /\ NothingKeptOfNoRow

Columns == {"title", "notes", "status", "owner"}

\* Fields an update may carry.
Typed(f) ==
    /\ DOMAIN f \subseteq Columns
    /\ "title" \in DOMAIN f => f.title \in Titles
    /\ "notes" \in DOMAIN f => f.notes \in SUBSET Notes
    /\ "status" \in DOMAIN f => f.status \in ValidStatuses
    /\ "owner" \in DOMAIN f => f.owner \in Owners \cup {None}

\* Every row has a version of at least one, so it is never taken for a missing row.
LEMMA RowsHaveVersions ==
    /\ \A r \in Rows : r.version \in Nat \ {0} /\ r # Gone
    /\ Gone.version = 0
<1>1. \A r \in Rows : r.version \in Nat \ {0}
  BY BoundsAssumption DEF Rows
<1>2. Gone.version = 0
  BY DEF Gone
<1> QED BY <1>1, <1>2

\* An update raises the version by one and replaces the columns it names.
LEMMA WriteEffect ==
    ASSUME RowOK, NEW f, Typed(f), Write(f)
    PROVE  /\ Exists /\ row \in Rows
           /\ row' \in Rows
           /\ row'.version = row.version + 1
           /\ row'.owner = IF "owner" \in DOMAIN f THEN f.owner ELSE row.owner
           /\ row'.notes = IF "notes" \in DOMAIN f THEN f.notes ELSE row.notes
<1>1. Exists /\ row \in Rows /\ row.version < MaxVersion
  BY DEF RowOK, Write, Exists
<1>2. DOMAIN row = Columns \cup {"version"}
  BY <1>1 DEF Rows, Columns
<1>3. row' = [c \in Columns \cup {"version"} |->
                IF c = "version" THEN row.version + 1
                ELSE IF c \in DOMAIN f THEN f[c] ELSE row[c]]
  BY <1>2 DEF Write
<1>4. row'["version"] = row.version + 1
  BY <1>3
<1>5. \A c \in Columns : row'[c] = IF c \in DOMAIN f THEN f[c] ELSE row[c]
  <2>1. "version" \notin Columns
    BY DEF Columns
  <2> QED BY <1>3, <2>1
<1>6. row'.title \in Titles
  BY <1>1, <1>5 DEF Rows, Typed, Columns
<1>7. row'.notes \in SUBSET Notes
  BY <1>1, <1>5 DEF Rows, Typed, Columns
<1>8. row'.status \in ValidStatuses
  BY <1>1, <1>5 DEF Rows, Typed, Columns
<1>9. row'.owner \in Owners \cup {None}
  BY <1>1, <1>5 DEF Rows, Typed, Columns
<1>10. row'.version \in 1 .. MaxVersion
  BY <1>1, <1>4, BoundsAssumption DEF Rows
<1>11. row' \in Rows
  BY <1>3, <1>6, <1>7, <1>8, <1>9, <1>10 DEF Rows, Columns
<1> QED BY <1>1, <1>4, <1>5, <1>11 DEF Columns

\* Every input of an update is a record of values its columns admit.
LEMMA EditsAreTyped == \A f \in Edits : Typed(f)
BY EditsAssumption DEF Typed, Columns

\* A step that raises the version by one, and leaves the clients and the life alone,
\* keeps what was known in the past.
LEMMA WriteKeepsSeen ==
    ASSUME RowOK, SeenIsPast, row \in Rows, row' \in Rows, row'.version = row.version + 1,
           UNCHANGED <<known, life>>
    PROVE  SeenIsPast'
<1>1. SUFFICES ASSUME NEW c \in Clients, known[c].life = life, known[c].row # Gone
               PROVE  known[c].row.version < row'.version
  <2>1. \A c \in Clients : known[c].life <= life
    BY DEF SeenIsPast
  <2>2. row'.version \in Nat /\ \A c \in Clients : known[c].row # Gone => known[c].row.version \in Nat
    BY RowsHaveVersions DEF RowOK
  <2> QED BY <1>1, <2>1, <2>2 DEF SeenIsPast, Exists
<1>2. row # Gone
  BY RowsHaveVersions
<1>3. known[c].row.version <= row.version
  BY <1>1, <1>2 DEF SeenIsPast, Exists
<1>4. known[c].row.version \in Nat /\ row.version \in Nat
  BY <1>1, RowsHaveVersions DEF RowOK
<1> QED BY <1>3, <1>4

\* Every update: what it leaves in the row of the owner and the notes decides.
LEMMA UpdateKeepsIInv ==
    ASSUME RowIInv, NEW f, Typed(f), Write(f),
           UNCHANGED <<created, known, life>>,
           draft' \in [Clients -> Drafts \cup {Nothing}],
           holders' \in SUBSET Owners, kept' \in SUBSET Notes,
           \A o \in holders' : IF "owner" \in DOMAIN f THEN f.owner = o ELSE o \in holders,
           IF "notes" \in DOMAIN f THEN kept' \subseteq f.notes ELSE kept' \subseteq kept
    PROVE  RowIInv'
<1>1. /\ Exists /\ row \in Rows
      /\ row' \in Rows
      /\ row'.version = row.version + 1
      /\ row'.owner = IF "owner" \in DOMAIN f THEN f.owner ELSE row.owner
      /\ row'.notes = IF "notes" \in DOMAIN f THEN f.notes ELSE row.notes
  BY WriteEffect DEF RowIInv
<1>2. RowOK'
  BY <1>1 DEF RowIInv, RowOK
<1>3. LifeAgrees' /\ NothingKeptOfNoRow'
  BY <1>1, RowsHaveVersions DEF RowIInv, LifeAgrees, NothingKeptOfNoRow, Exists
<1>4. SeenIsPast'
  BY <1>1, WriteKeepsSeen DEF RowIInv
<1>5. HoldersOwn'
  BY <1>1, RowsHaveVersions DEF RowIInv, HoldersOwn, Exists
<1>6. AppendsAreKept'
  BY <1>1 DEF RowIInv, AppendsAreKept, Exists
<1> QED BY <1>2, <1>3, <1>4, <1>5, <1>6 DEF RowIInv


----------------------------------------------------------------------------

\* Before the creation there is no row.
LEMMA RowInitIInv == RowInit => RowIInv
<1> SUFFICES ASSUME RowInit PROVE RowIInv
  OBVIOUS
<1>1. RowOK
  BY BoundsAssumption DEF RowInit, RowOK
<1> QED BY <1>1 DEF RowInit, RowIInv, LifeAgrees, SeenIsPast, HoldersOwn, AppendsAreKept,
           NothingKeptOfNoRow, Exists

\* Inserting a row at version 1: no client has known a row of the new life.
LEMMA InsertKeepsIInv ==
    ASSUME RowIInv, NEW f \in Created, Insert(f), ~Exists,
           life' = life + 1, life' \in 0 .. MaxLives,
           created' \in Created,
           holders' = {}, kept' = {}, UNCHANGED <<known, draft>>
    PROVE  RowIInv'
<1>1. row' \in Rows
  <2>1. DOMAIN f = {"title", "notes", "status", "owner"}
    BY DEF Created
  <2>2. row' = [c \in {"title", "notes", "status", "owner", "version"} |->
                  IF c = "version" THEN 1 ELSE f[c]]
    BY <2>1 DEF Insert
  <2> QED BY <2>2, BoundsAssumption DEF Created, Rows
<1>2. RowOK'
  BY <1>1 DEF RowIInv, RowOK
<1>3. \A c \in Clients : known[c].life <= life /\ known[c].life \in Nat /\ life \in Nat
  BY BoundsAssumption DEF RowIInv, SeenIsPast, RowOK
<1>4. SeenIsPast'
  BY <1>3 DEF SeenIsPast
<1>5. HoldersOwn' /\ AppendsAreKept' /\ NothingKeptOfNoRow'
  BY DEF HoldersOwn, AppendsAreKept, NothingKeptOfNoRow
<1>6. LifeAgrees'
  BY BoundsAssumption DEF LifeAgrees, RowIInv, RowOK
<1> QED BY <1>2, <1>4, <1>5, <1>6 DEF RowIInv

\* Every transaction keeps the invariant.
LEMMA StepIInv == RowIInv /\ [RowNext]_rowVars => RowIInv'
<1> SUFFICES ASSUME RowIInv, [RowNext]_rowVars PROVE RowIInv'
  OBVIOUS
<1> USE DEF RowIInv
<1>1. CASE UNCHANGED rowVars
  BY <1>1 DEF rowVars, RowOK, LifeAgrees, SeenIsPast, HoldersOwn, AppendsAreKept,
              NothingKeptOfNoRow, Exists
<1>2. ASSUME NEW f \in Created, CreateTask(f) PROVE RowIInv'
  <2>1. ~Exists /\ life = 0
    BY <1>2 DEF CreateTask, LifeAgrees
  <2>2. holders = {} /\ kept = {}
    BY <2>1 DEF NothingKeptOfNoRow, HoldersOwn
  <2> QED BY <1>2, <2>1, <2>2, InsertKeepsIInv, BoundsAssumption DEF CreateTask
<1>3. ASSUME NEW c \in Clients, Read(c) PROVE RowIInv'
  <2>1. /\ row \in Rows /\ life \in 0 .. MaxLives /\ known' = [known EXCEPT ![c] = [life |-> life, row |-> row]]
        /\ UNCHANGED <<row, created, draft, life, holders, kept>>
    BY <1>3 DEF Read, Exists, RowOK
  <2>2. RowOK'
    BY <2>1 DEF RowOK
  <2>3. SeenIsPast'
    <3>1. \A d \in Clients : known'[d] = IF d = c THEN [life |-> life, row |-> row] ELSE known[d]
      BY <2>1 DEF RowOK
    <3>2. row.version <= row.version /\ life <= life
      BY <2>1, RowsHaveVersions, BoundsAssumption
    <3> QED BY <2>1, <3>1, <3>2 DEF SeenIsPast, Exists
  <2> QED BY <2>1, <2>2, <2>3
          DEF LifeAgrees, HoldersOwn, AppendsAreKept, NothingKeptOfNoRow, Exists
<1>4. ASSUME NEW f \in Edits, Write(f), Overwritten(f), UNCHANGED <<created, known, draft, life>>
      PROVE  RowIInv'
  <2>1. /\ holders' \in SUBSET Owners /\ kept' \in SUBSET Notes
        /\ draft' \in [Clients -> Drafts \cup {Nothing}]
    BY <1>4 DEF Overwritten, RowOK
  <2>2. \A o \in holders' : IF "owner" \in DOMAIN f THEN f.owner = o ELSE o \in holders
    BY <1>4 DEF Overwritten
  <2>3. IF "notes" \in DOMAIN f THEN kept' \subseteq f.notes ELSE kept' \subseteq kept
    BY <1>4 DEF Overwritten
  <2> QED BY <1>4, <2>1, <2>2, <2>3, UpdateKeepsIInv, EditsAreTyped
<1>5. \A f \in Edits : UpdateTask(f) \/ SyncUpdate(f) => RowIInv'
  BY <1>4 DEF UpdateTask, SyncUpdate
<1>6. \A c \in Clients, f \in Edits : UpdateTaskWithIfMatch(c, f) => RowIInv'
  BY <1>4 DEF UpdateTaskWithIfMatch
<1>7. ASSUME NEW c \in Clients, NEW n \in Notes, NEW f \in Edits,
             DOMAIN f \subseteq {"status", "owner"}, AppendToTaskDescription(c, n, f)
      PROVE  RowIInv'
  <2> DEFINE g == WithNotes(f, row.notes \cup {n})
  <2>1. Write(g) /\ row \in Rows
    BY <1>7 DEF AppendToTaskDescription, Write, Exists, RowOK
  <2>2. DOMAIN g = DOMAIN f \cup {"notes"} /\ g.notes = row.notes \cup {n}
    BY DEF WithNotes
  <2>3. \A x \in DOMAIN f : g[x] = f[x]
    BY <1>7 DEF WithNotes
  <2>4. Typed(g)
    BY <1>7, <2>1, <2>2, <2>3, EditsAreTyped DEF Typed, Columns, Rows
  <2>5. /\ holders' \in SUBSET Owners /\ kept' \in SUBSET Notes
        /\ draft' \in [Clients -> Drafts \cup {Nothing}]
    BY <1>7 DEF AppendToTaskDescription, RowOK
  <2>6. \A o \in holders' : IF "owner" \in DOMAIN g THEN g.owner = o ELSE o \in holders
    BY <1>7, <2>2 DEF AppendToTaskDescription
  <2>7. kept' \subseteq g.notes
    BY <1>7, <2>1, <2>2 DEF AppendToTaskDescription, AppendsAreKept, Write
  <2>8. UNCHANGED <<created, known, life>>
    BY <1>7 DEF AppendToTaskDescription
  <2> HIDE DEF g
  <2> QED BY <2>1, <2>2, <2>4, <2>5, <2>6, <2>7, <2>8, UpdateKeepsIInv
<1>8. ASSUME NEW s \in ValidStatuses, Write([status |-> s]),
             UNCHANGED <<created, known, draft, life, holders, kept>>
      PROVE  RowIInv'
  <2> DEFINE g == [status |-> s]
  <2>1. Typed(g) /\ DOMAIN g = {"status"}
    BY DEF Typed, Columns
  <2>2. /\ holders' \in SUBSET Owners /\ kept' \in SUBSET Notes
        /\ draft' \in [Clients -> Drafts \cup {Nothing}]
    BY <1>8 DEF RowOK
  <2> HIDE DEF g
  <2> QED BY <1>8, <2>1, <2>2, UpdateKeepsIInv DEF g
<1>9. (MarkTaskDone => RowIInv') /\ \A s \in ValidStatuses : CascadeStatus(s) => RowIInv'
  BY <1>8 DEF MarkTaskDone, CascadeStatus, ValidStatuses
<1>10. ASSUME NEW o \in Owners, ClaimTask(o) PROVE RowIInv'
  <2> DEFINE g == [status |-> "in_progress", owner |-> o]
  <2>1. Typed(g) /\ DOMAIN g = {"status", "owner"} /\ g.owner = o
    BY DEF Typed, Columns, ValidStatuses
  <2>2. \A p \in holders' : p = o
    BY <1>10, OwnersAssumption DEF ClaimTask, ClaimMatches, HoldersOwn, RowOK
  <2>3. /\ holders' \in SUBSET Owners /\ kept' \in SUBSET Notes /\ kept' = kept
        /\ draft' \in [Clients -> Drafts \cup {Nothing}]
        /\ Write(g) /\ UNCHANGED <<created, known, life>>
    BY <1>10 DEF ClaimTask, RowOK
  <2> HIDE DEF g
  <2> QED BY <2>1, <2>2, <2>3, UpdateKeepsIInv
<1>11. ASSUME NEW c \in Clients, CollectSearchScope(c) \/ AbandonReplacement(c) PROVE RowIInv'
  <2>1. UNCHANGED <<row, created, known, life, holders, kept>>
    BY <1>11 DEF CollectSearchScope, AbandonReplacement
  <2>2. draft' \in [Clients -> Drafts \cup {Nothing}]
    BY <1>11 DEF CollectSearchScope, AbandonReplacement, RowOK, Exists, Rows, Drafts
  <2> QED BY <2>1, <2>2 DEF RowOK, LifeAgrees, SeenIsPast, HoldersOwn, AppendsAreKept,
                            NothingKeptOfNoRow, Exists
<1>12. ASSUME NEW c \in Clients, NEW x \in Titles, ApplyScopeReplacement(c, x) PROVE RowIInv'
  <2> DEFINE g == [title |-> x, notes |-> draft[c].notes]
  <2>1. draft[c] \in Drafts
    BY <1>12 DEF ApplyScopeReplacement, RowOK
  <2>2. Typed(g) /\ DOMAIN g = {"title", "notes"}
    BY <2>1 DEF Typed, Columns, Drafts
  <2>3. /\ holders' \in SUBSET Owners /\ kept' = {} /\ holders' = holders
        /\ draft' \in [Clients -> Drafts \cup {Nothing}]
        /\ Write(g) /\ UNCHANGED <<created, known, life>>
    BY <1>12 DEF ApplyScopeReplacement, RowOK
  <2> HIDE DEF g
  <2> QED BY <2>2, <2>3, UpdateKeepsIInv
<1>13. CASE DeleteTask
  <2>1. row' = Gone /\ holders' = {} /\ kept' = {} /\ UNCHANGED <<created, known, draft, life>>
    BY <1>13 DEF DeleteTask
  <2> QED BY <2>1, <1>13 DEF DeleteTask, RowOK, LifeAgrees, SeenIsPast, HoldersOwn,
                             AppendsAreKept, NothingKeptOfNoRow, Exists
<1>14. CASE SyncCreate
  <2>1. /\ life # 0 /\ created \in Created
        /\ holders' = {} /\ kept' = {} /\ UNCHANGED <<created, known, draft>>
    BY <1>14, BoundsAssumption DEF SyncCreate, LifeAgrees, RowOK
  <2>2. CASE Write(created) /\ UNCHANGED life
    <3>1. Typed(created) /\ "notes" \in DOMAIN created /\ created.notes = {}
      BY <2>1 DEF Typed, Columns, Created
    <3>2. draft' \in [Clients -> Drafts \cup {Nothing}]
      BY <2>1 DEF RowOK
    <3>3. /\ holders' \in SUBSET Owners /\ kept' \in SUBSET Notes
          /\ \A o \in holders' : IF "owner" \in DOMAIN created THEN created.owner = o
                                                           ELSE o \in holders
          /\ IF "notes" \in DOMAIN created THEN kept' \subseteq created.notes ELSE kept' \subseteq kept
      BY <2>1, <3>1
    <3> HIDE DEF RowIInv
    <3> QED BY <2>1, <2>2, <3>1, <3>2, <3>3, UpdateKeepsIInv
  <2>3. CASE ~Exists /\ life < MaxLives /\ life' = life + 1 /\ Insert(created)
    <3>1. life' \in 0 .. MaxLives
      BY <2>3, BoundsAssumption DEF RowOK
    <3> HIDE DEF RowIInv
    <3> QED BY <2>1, <2>3, <3>1, InsertKeepsIInv
  <2> QED BY <1>14, <2>2, <2>3 DEF SyncCreate
<1>15. CASE RowNext
  BY <1>2, <1>3, <1>5, <1>6, <1>7, <1>9, <1>10, <1>11, <1>12, <1>13, <1>14, <1>15 DEF RowNext
<1> QED BY <1>1, <1>15

----------------------------------------------------------------------------

\* The inductive invariant holds of every state of every behaviour.
THEOREM Invariance == RowSpec => []RowIInv
<1> QED BY RowInitIInv, StepIInv, PTL DEF RowSpec

\* The columns keep their domains and the version stays within its bound.
THEOREM RowTyped == RowSpec => []RowOK
<1>1. RowIInv => RowOK
  BY DEF RowIInv
<1> QED BY <1>1, Invariance, PTL

\* If-Match within a life of the row: the version a client names is the current one only
\* if the client has the current row, for any number of clients and of writes between.
THEOREM VersionsPinContent == RowSpec => []VersionPinsContent
<1>1. RowIInv => VersionPinsContent
  <2> SUFFICES ASSUME RowIInv, NEW c \in Clients, known[c].life = life, Exists, IfMatchHolds(c)
               PROVE  known[c].row = row
    BY DEF VersionPinsContent
  <2>1. row \in Rows /\ known[c].row \in Rows \cup {Gone}
    BY DEF RowIInv, RowOK, Exists
  <2>2. known[c].row # Gone
    BY <2>1, RowsHaveVersions DEF IfMatchHolds
  <2> QED BY <2>2 DEF RowIInv, SeenIsPast, IfMatchHolds
<1> QED BY <1>1, Invariance, PTL

\* Of any number of agents that claim, at most one keeps the row.
THEOREM ClaimsExclude == RowSpec => []ClaimExclusive
<1>1. RowIInv => ClaimExclusive
  <2> SUFFICES ASSUME RowIInv PROVE Cardinality(holders) <= 1
    BY DEF ClaimExclusive
  <2>1. CASE holders = {}
    BY <2>1, FS_EmptySet
  <2>2. CASE holders # {}
    <3>1. PICK o \in holders : TRUE
      BY <2>2
    <3>2. holders = {o}
      BY <3>1 DEF RowIInv, HoldersOwn
    <3>3. Cardinality({o}) = 1
      BY FS_Singleton
    <3> QED BY <3>2, <3>3
  <2> QED BY <2>1, <2>2
<1> QED BY <1>1, Invariance, PTL

\* No interleaving of appends, updates and claims loses an appended note.
THEOREM AppendsSurvive == RowSpec => []AppendsAreKept
<1>1. RowIInv => AppendsAreKept
  BY DEF RowIInv
<1> QED BY <1>1, Invariance, PTL

-----------------------------------------------------------------------------
(***************************************************************************)
(* No worktree with a cursor misses an event, for any number of worktrees, *)
(* branches and processes, any size of a batch, any retention and any      *)
(* clock that goes back by less than the retention.                        *)
(***************************************************************************)

----------------------------------------------------------------------------
(* The inductive invariant *)

\* What w has replayed, or lost to a prune that did not find its cursor.
Had(w) == seen[w] \cup excused[w]

\* The clock is right up to Skew.
ClockOK == clock >= 1 /\ clock <= peak /\ clock >= peak - Skew

\* Timestamps begin at 1, and what is gone, or is going, is older than the clock is wrong.
Old == /\ \A e \in All : e.at >= 1
       /\ \A e \in gone : e.at < peak - Retention
       /\ \A r \in Pruner : prune[r] # Idle => prune[r].cutoff <= peak - Retention

\* Cursors, and the places of pulls, are at events.
AtEvents ==
    /\ \A w \in Worktree, b \in Branch : cursor[w][b] # 0 => \E e \in All : e.at = cursor[w][b]
    /\ \A p \in Puller : pull[p] # Idle =>
          /\ pull[p].at # 0 => \E e \in All : e.at = pull[p].at
          /\ \A e \in pull[p].batch : e \in All /\ e.by = pull[p].src

\* What is behind w at t of branch b was had by w.
Behind(w, b, t) == \A e \in All : e.by = b /\ e.at <= t => e \in Had(w)

CursorsMissNothing ==
    \A w \in Worktree : /\ gone \subseteq Had(w)
                        /\ \A b \in Branch : Behind(w, b, cursor[w][b])

\* A pull has passed nothing, and its batch has no gap.
PullsMissNothing ==
    \A p \in Puller : pull[p] # Idle =>
        /\ Behind(pull[p].home, pull[p].src, pull[p].at)
        /\ \A x \in pull[p].batch, e \in All :
              e.by = pull[p].src /\ e.at <= x.at => e \in pull[p].batch \cup Had(pull[p].home)

\* What a prune is about to delete was had by the worktrees whose cursors it found.
PrunesSpare ==
    \A r \in Pruner : prune[r] # Idle =>
        \A x \in prune[r].guarded, e \in All :
            e.by = x[2] /\ e.at < prune[r].cutoff => e \in Had(x[1])

IInv == /\ TypeOK /\ ClockOK /\ Old /\ AtEvents
        /\ CursorsMissNothing /\ PullsMissNothing /\ PrunesSpare

----------------------------------------------------------------------------

\* A new event is later than every event there is or was.
LEMMA NewIsLatest ==
    ASSUME IInv, NEW top \in Greatest({0} \cup Times(log))
    PROVE  /\ NextTimestamp(top) \in Nat
           /\ NextTimestamp(top) >= 1
           /\ \A e \in All : e.at < NextTimestamp(top)
<1>1. /\ top \in Nat
      /\ \A f \in log : f.at <= top
  BY DEF Greatest, Times, IInv, TypeOK, Event
<1>2. clock \in Nat /\ peak \in Nat /\ clock >= 1 /\ clock >= peak - Skew
  BY DEF IInv, TypeOK, ClockOK
<1>3. ASSUME NEW e \in All PROVE e.at < NextTimestamp(top)
  <2>1. e.at \in Nat
    BY DEF IInv, TypeOK, All, Event
  <2>2. CASE e \in log
    BY <1>1, <1>2, <2>1, <2>2 DEF NextTimestamp
  <2>3. CASE e \in gone
    <3>1. e.at < peak - Retention
      BY <2>3 DEF IInv, Old
    <3> QED BY <1>1, <1>2, <2>1, <3>1, LogAssumption DEF NextTimestamp
  <2> QED BY <2>2, <2>3 DEF All
<1> QED BY <1>1, <1>2, <1>3 DEF NextTimestamp

LEMMA InitHolds == Init => IInv
BY LogAssumption DEF Init, IInv, TypeOK, ClockOK, Old, AtEvents, CursorsMissNothing, PullsMissNothing,
   PrunesSpare, Behind, Had, All, Event, Pulling, Pruning

----------------------------------------------------------------------------
(* The steps *)

LEMMA TickKeeps == IInv /\ Tick => IInv'
<1> SUFFICES ASSUME IInv, Tick PROVE IInv'
  OBVIOUS
<1> USE DEF IInv
<1>1. UNCHANGED <<log, cursor, pull, prune, gone, seen, excused>> /\ All' = All
  BY DEF Tick, All
<1>2. clock' \in Nat /\ peak' \in Nat /\ clock \in Nat /\ peak \in Nat /\ peak' >= peak /\ ClockOK'
  <2>1. clock \in Nat /\ peak \in Nat
    BY DEF TypeOK
  <2>2. /\ clock' \in 1 .. MaxClock
        /\ peak' = IF clock' > peak THEN clock' ELSE peak
        /\ clock' >= peak' - Skew
    BY DEF Tick
  <2>3. clock' \in Nat /\ clock' >= 1
    BY <2>2, LogAssumption
  <2>4. CASE clock' > peak
    BY <2>1, <2>2, <2>3, <2>4 DEF ClockOK
  <2>5. CASE ~(clock' > peak)
    BY <2>1, <2>2, <2>3, <2>5 DEF ClockOK
  <2> QED BY <2>4, <2>5
<1>3. TypeOK'
  BY <1>1, <1>2 DEF TypeOK, All
<1>4. Old'
  <2>1. ASSUME NEW e \in gone PROVE e.at < peak' - Retention
    <3>1. e.at \in Nat /\ e.at < peak - Retention
      BY DEF TypeOK, Event, Old
    <3> QED BY <1>2, <3>1, LogAssumption
  <2>2. ASSUME NEW r \in Pruner, prune[r] # Idle PROVE prune[r].cutoff <= peak' - Retention
    <3>1. prune[r].cutoff \in Int /\ prune[r].cutoff <= peak - Retention
      BY <2>2 DEF TypeOK, Old, Pruning
    <3> QED BY <1>2, <3>1, LogAssumption
  <2> QED BY <1>1, <2>1, <2>2 DEF Old
<1>5. AtEvents' /\ CursorsMissNothing' /\ PullsMissNothing' /\ PrunesSpare'
  BY <1>1 DEF AtEvents, CursorsMissNothing, PullsMissNothing, PrunesSpare, Behind, Had
<1> QED BY <1>2, <1>3, <1>4, <1>5

LEMMA AppendKeeps ==
    ASSUME IInv, NEW b \in Branch, AppendEvent(b)
    PROVE  IInv'
<1> USE DEF IInv
<1>1. PICK top \in Greatest({0} \cup Times(log)) :
         log' = log \cup {[at |-> NextTimestamp(top), by |-> b]}
  BY DEF AppendEvent
<1> DEFINE new == [at |-> NextTimestamp(top), by |-> b]
<1>2. new \in Event /\ new.at >= 1 /\ new.by = b /\ \A e \in All : e.at < new.at
  BY NewIsLatest DEF Event
<1> HIDE DEF new
<1>3. All' = All \cup {new} /\ log' = log \cup {new}
      /\ UNCHANGED <<clock, peak, cursor, pull, prune, gone, seen, excused>>
  BY <1>1 DEF AppendEvent, All, new
<1>4. \A e \in All : e \in Event /\ e.at \in Nat
  BY DEF TypeOK, All, Event
<1>5. TypeOK'
  BY <1>2, <1>3, <1>4 DEF TypeOK, Event
<1>6. ClockOK' /\ Old'
  BY <1>2, <1>3 DEF ClockOK, Old
<1>7. AtEvents'
  BY <1>3 DEF AtEvents
<1>8. CursorsMissNothing'
  <2>1. ASSUME NEW w \in Worktree, NEW c \in Branch PROVE ~(new.at <= cursor[w][c])
    <3>1. cursor[w][c] \in Nat /\ (cursor[w][c] # 0 => \E e \in All : e.at = cursor[w][c])
      BY DEF AtEvents, TypeOK
    <3> QED BY <1>2, <1>4, <3>1 DEF Event
  <2> QED BY <1>3, <2>1 DEF CursorsMissNothing, Behind, Had
<1>9. PullsMissNothing'
  <2> SUFFICES ASSUME NEW p \in Puller, pull[p] # Idle
               PROVE  /\ ~(new.at <= pull[p].at)
                      /\ \A x \in pull[p].batch : ~(new.at <= x.at)
    BY <1>3 DEF PullsMissNothing, Behind, Had
  <2>1. pull[p].at \in Nat /\ (pull[p].at # 0 => \E e \in All : e.at = pull[p].at)
    BY DEF AtEvents, TypeOK, Pulling
  <2>2. ~(new.at <= pull[p].at)
    BY <1>2, <1>4, <2>1 DEF Event
  <2>3. ASSUME NEW x \in pull[p].batch PROVE ~(new.at <= x.at)
    <3>1. x \in All
      BY DEF AtEvents
    <3> QED BY <1>2, <1>4, <3>1 DEF Event
  <2> QED BY <2>2, <2>3
<1>10. PrunesSpare'
  <2> SUFFICES ASSUME NEW r \in Pruner, prune[r] # Idle
               PROVE  ~(new.at < prune[r].cutoff)
    BY <1>3 DEF PrunesSpare, Had
  <2>1. prune[r].cutoff \in Int /\ prune[r].cutoff <= peak - Retention
    BY DEF TypeOK, Old, Pruning
  <2>2. new.at \in Nat /\ new.at >= clock
    <3>1. top \in Nat
      BY DEF Greatest, Times, TypeOK, Event
    <3> QED BY <1>2, <3>1 DEF new, NextTimestamp, TypeOK, Event
  <2>3. clock \in Nat /\ peak \in Nat /\ clock >= peak - Skew
    BY DEF TypeOK, ClockOK
  <2> QED BY <2>1, <2>2, <2>3, LogAssumption
<1> QED BY <1>5, <1>6, <1>7, <1>8, <1>9, <1>10

LEMMA StartKeeps ==
    ASSUME IInv, NEW p \in Puller, NEW w \in Worktree, NEW src \in Branch, PullStart(p, w, src)
    PROVE  IInv'
<1> USE DEF IInv
<1>1. /\ UNCHANGED <<clock, peak, log, cursor, prune, gone, seen, excused>> /\ All' = All
      /\ pull' = [pull EXCEPT ![p] = [home |-> w, src |-> src, at |-> cursor[w][src], batch |-> {}]]
  BY DEF PullStart, All, Drained
<1>2. /\ cursor[w][src] \in Nat
      /\ cursor[w][src] # 0 => \E e \in All : e.at = cursor[w][src]
      /\ Behind(w, src, cursor[w][src])
  BY DEF TypeOK, AtEvents, CursorsMissNothing
<1>3. /\ pull'[p] = [home |-> w, src |-> src, at |-> cursor[w][src], batch |-> {}]
      /\ pull'[p] \in Pulling
      /\ \A q \in Puller \ {p} : pull'[q] = pull[q]
      /\ pull' \in [Puller -> Pulling \cup {Idle}]
  BY <1>1, <1>2 DEF TypeOK, Pulling
<1>4. TypeOK'
  <2>1. \A q \in Puller : pull'[q] # Idle => Cardinality(pull'[q].batch) <= BatchSize
    <3>1. Cardinality({}) <= BatchSize
      BY LogAssumption, FS_EmptySet
    <3>2. pull'[p].batch = {}
      BY <1>3
    <3> QED BY <1>3, <3>1, <3>2 DEF TypeOK
  <2> QED BY <1>1, <1>3, <2>1 DEF TypeOK
<1>5. AtEvents'
  BY <1>1, <1>2, <1>3 DEF AtEvents
<1>6. PullsMissNothing'
  BY <1>1, <1>2, <1>3 DEF PullsMissNothing, Behind, Had
<1>7. ClockOK' /\ Old' /\ CursorsMissNothing' /\ PrunesSpare'
  BY <1>1 DEF ClockOK, Old, CursorsMissNothing, PrunesSpare, Behind, Had
<1> QED BY <1>4, <1>5, <1>6, <1>7

LEMMA ReadKeeps ==
    ASSUME IInv, NEW p \in Puller, PullRead(p)
    PROVE  IInv'
<1> USE DEF IInv
<1>1. UNCHANGED <<clock, peak, log, cursor, prune, gone, seen, excused>> /\ All' = All
  BY DEF PullRead, All
<1>2. ClockOK' /\ Old' /\ CursorsMissNothing' /\ PrunesSpare'
  BY <1>1 DEF ClockOK, Old, CursorsMissNothing, PrunesSpare, Behind, Had
<1>3. pull[p] # Idle /\ pull[p] \in Pulling
  BY DEF PullRead, TypeOK
<1>4. CASE pull' = [pull EXCEPT ![p] = Idle]
  <2>1. pull'[p] = Idle /\ \A q \in Puller \ {p} : pull'[q] = pull[q]
    BY <1>4 DEF TypeOK
  <2>2. TypeOK'
    BY <1>1, <1>4, <2>1 DEF TypeOK
  <2>3. AtEvents' /\ PullsMissNothing'
    BY <1>1, <2>1 DEF AtEvents, PullsMissNothing, Behind, Had
  <2> QED BY <1>2, <2>2, <2>3
<1>5. ASSUME NEW B \in Batches(p), pull' = [pull EXCEPT ![p] = [@ EXCEPT !.batch = B]]
      PROVE  IInv'
  <2>1. /\ B \subseteq log /\ Cardinality(B) <= BatchSize
        /\ \A e \in B : e.by = pull[p].src
        /\ \A e \in B, f \in log : f.by = pull[p].src /\ f.at > pull[p].at /\ f \notin B => e.at < f.at
    BY DEF Batches, Backlog
  <2>2. /\ pull'[p] = [pull[p] EXCEPT !.batch = B]
        /\ pull'[p].batch = B /\ pull'[p].at = pull[p].at
        /\ pull'[p].src = pull[p].src /\ pull'[p].home = pull[p].home
        /\ pull'[p] \in Pulling
        /\ \A q \in Puller \ {p} : pull'[q] = pull[q]
    BY <1>3, <1>5, <2>1 DEF TypeOK, Pulling
  <2>3. TypeOK'
    <3>1. pull' \in [Puller -> Pulling \cup {Idle}]
      BY <1>5, <2>2 DEF TypeOK
    <3> QED BY <1>1, <2>1, <2>2, <3>1 DEF TypeOK
  <2>4. AtEvents'
    <3>1. \A q \in Puller \ {p} : pull'[q] # Idle =>
             /\ pull'[q].at # 0 => \E e \in All' : e.at = pull'[q].at
             /\ \A e \in pull'[q].batch : e \in All' /\ e.by = pull'[q].src
      BY <1>1, <2>2 DEF AtEvents
    <3>2. pull'[p].at # 0 => \E e \in All' : e.at = pull'[p].at
      BY <1>1, <1>3, <2>2 DEF AtEvents
    <3>3. \A e \in pull'[p].batch : e \in All' /\ e.by = pull'[p].src
      BY <1>1, <2>1, <2>2 DEF All
    <3> QED BY <1>1, <3>1, <3>2, <3>3 DEF AtEvents
  <2>5. PullsMissNothing'
    <3>1. ASSUME NEW x \in B, NEW e \in All, e.by = pull[p].src, e.at <= x.at
          PROVE  e \in B \cup Had(pull[p].home)
      <4>1. e.at \in Nat /\ x.at \in Nat /\ pull[p].at \in Nat /\ pull[p].home \in Worktree
        BY <1>3, <2>1 DEF TypeOK, All, Event, Pulling
      <4>2. CASE e \in gone
        BY <4>1, <4>2 DEF CursorsMissNothing
      <4>3. CASE e.at <= pull[p].at
        BY <1>3, <3>1, <4>3 DEF PullsMissNothing, Behind
      <4>4. CASE e \in log /\ e.at > pull[p].at
        BY <2>1, <3>1, <4>1, <4>4
      <4> QED BY <4>1, <4>2, <4>3, <4>4 DEF All
    <3> SUFFICES ASSUME NEW q \in Puller, pull'[q] # Idle
                 PROVE  /\ Behind(pull'[q].home, pull'[q].src, pull'[q].at)
                        /\ \A x \in pull'[q].batch, e \in All :
                              e.by = pull'[q].src /\ e.at <= x.at => e \in pull'[q].batch \cup Had(pull'[q].home)
      BY <1>1 DEF PullsMissNothing, Behind, Had
    <3>2. CASE q = p
      BY <1>3, <2>2, <3>1, <3>2 DEF PullsMissNothing
    <3>3. CASE q # p
      BY <2>2, <3>3 DEF PullsMissNothing
    <3> QED BY <3>2, <3>3
  <2> QED BY <1>2, <2>3, <2>4, <2>5
<1> QED BY <1>4, <1>5 DEF PullRead

LEMMA BatchKeeps ==
    ASSUME IInv, NEW p \in Puller, PullBatch(p)
    PROVE  IInv'
<1> USE DEF IInv
<1>0. PICK B, w, src : B = pull[p].batch /\ w = pull[p].home /\ src = pull[p].src
  OBVIOUS
<1>1. /\ w \in Worktree /\ src \in Branch /\ B \subseteq Event
      /\ B \subseteq All /\ \A e \in B : e.by = src
      /\ pull[p] # Idle /\ pull[p] \in Pulling
  BY <1>0 DEF PullBatch, TypeOK, Pulling, AtEvents
<1>2. PICK last \in Greatest(Times(B)) :
        /\ log' = log \cup B
        /\ seen' = [seen EXCEPT ![w] = @ \cup B]
        /\ cursor' = [cursor EXCEPT ![w] = [@ EXCEPT ![src] = last]]
        /\ pull' = [pull EXCEPT ![p] =
                      IF Cardinality(B) < BatchSize THEN Idle
                      ELSE [@ EXCEPT !.at = last, !.batch = Drained]]
  BY <1>0 DEF PullBatch
<1>3. PICK x \in B : x.at = last
  BY DEF Greatest, Times
<1>4. last \in Nat /\ x \in All
  BY <1>1, <1>3 DEF Event
<1>5. All' = All /\ UNCHANGED <<clock, peak, prune, gone, excused>>
  BY <1>0, <1>1, <1>2 DEF PullBatch, All
<1>6. \A v \in Worktree : Had(v) \subseteq Had(v)'
  BY <1>1, <1>2, <1>5 DEF Had, TypeOK
<1>7. B \subseteq Had(w)'
  BY <1>1, <1>2 DEF Had, TypeOK
<1>8. \A e \in All : e.by = src /\ e.at <= last => e \in Had(w)'
  <2> SUFFICES ASSUME NEW e \in All, e.by = src, e.at <= last PROVE e \in Had(w)'
    OBVIOUS
  <2>1. e \in B \cup Had(w)
    BY <1>0, <1>1, <1>3 DEF PullsMissNothing
  <2> QED BY <1>1, <1>6, <1>7, <2>1
<1>9. /\ \A q \in Puller \ {p} : pull'[q] = pull[q]
      /\ \/ pull'[p] = Idle
         \/ /\ pull'[p] = [home |-> w, src |-> src, at |-> last, batch |-> {}]
            /\ pull'[p] \in Pulling
  BY <1>0, <1>1, <1>2, <1>4 DEF TypeOK, Pulling, Drained
<1>10. /\ \A v \in Worktree, b \in Branch :
             cursor'[v][b] = IF v = w /\ b = src THEN last ELSE cursor[v][b]
       /\ cursor' \in [Worktree -> [Branch -> Nat]]
  BY <1>1, <1>2, <1>4 DEF TypeOK
<1>11. TypeOK'
  <2>1. pull' \in [Puller -> Pulling \cup {Idle}]
    BY <1>2, <1>9 DEF TypeOK
  <2>2. \A q \in Puller : pull'[q] # Idle => Cardinality(pull'[q].batch) <= BatchSize
    <3>1. Cardinality({}) <= BatchSize
      BY LogAssumption, FS_EmptySet
    <3>2. pull'[p] # Idle => pull'[p].batch = {}
      BY <1>9
    <3> QED BY <1>9, <3>1, <3>2 DEF TypeOK
  <2>3. log' \subseteq Event /\ seen' \in [Worktree -> SUBSET Event]
    BY <1>1, <1>2 DEF TypeOK
  <2> QED BY <1>5, <1>10, <2>1, <2>2, <2>3 DEF TypeOK
<1>12. ClockOK' /\ Old'
  BY <1>5 DEF ClockOK, Old
<1>13. AtEvents'
  <2>1. \A v \in Worktree, b \in Branch : cursor'[v][b] # 0 => \E e \in All : e.at = cursor'[v][b]
    BY <1>3, <1>4, <1>10 DEF AtEvents
  <2>2. ASSUME NEW q \in Puller, pull'[q] # Idle
        PROVE  /\ pull'[q].at # 0 => \E e \in All : e.at = pull'[q].at
               /\ \A e \in pull'[q].batch : e \in All /\ e.by = pull'[q].src
    <3>1. CASE q = p
      BY <1>3, <1>4, <1>9, <2>2, <3>1
    <3>2. CASE q # p
      BY <1>9, <2>2, <3>2 DEF AtEvents
    <3> QED BY <3>1, <3>2
  <2> QED BY <1>5, <2>1, <2>2 DEF AtEvents
<1>14. CursorsMissNothing'
  <2> SUFFICES ASSUME NEW v \in Worktree, NEW b \in Branch, NEW e \in All, e.by = b, e.at <= cursor'[v][b]
               PROVE  e \in Had(v)'
    <3>1. \A v \in Worktree : gone' \subseteq Had(v)'
      BY <1>5, <1>6 DEF CursorsMissNothing
    <3> QED BY <1>5, <3>1 DEF CursorsMissNothing, Behind
  <2>1. CASE v = w /\ b = src
    BY <1>8, <1>10, <2>1
  <2>2. CASE ~(v = w /\ b = src)
    <3>1. cursor'[v][b] = cursor[v][b]
      BY <1>10, <2>2
    <3>2. e \in Had(v)
      BY <3>1 DEF CursorsMissNothing, Behind
    <3> QED BY <1>6, <3>2
  <2> QED BY <2>1, <2>2
<1>15. PullsMissNothing'
  <2> SUFFICES ASSUME NEW q \in Puller, pull'[q] # Idle
               PROVE  /\ Behind(pull[q].home, pull[q].src, pull[q].at)'
                      /\ \A y \in pull'[q].batch, e \in All :
                            e.by = pull'[q].src /\ e.at <= y.at
                               => e \in pull'[q].batch \cup Had(pull[q].home)'
    BY <1>5 DEF PullsMissNothing
  <2>0. PICK v : v = pull'[q].home
    OBVIOUS
  <2>1. CASE q = p
    <3>1. v = w /\ pull'[q].src = src /\ pull'[q].at = last /\ pull'[q].batch = {}
      BY <1>9, <2>0, <2>1
    <3>2. Behind(v, src, last)'
      BY <1>5, <1>8, <3>1 DEF Behind
    <3> QED BY <2>0, <3>1, <3>2 DEF Behind
  <2>2. CASE q # p
    <3>1. pull'[q] = pull[q] /\ v = pull[q].home /\ v \in Worktree /\ pull[q] # Idle
      BY <1>9, <2>0, <2>2 DEF TypeOK, Pulling
    <3>2. /\ Behind(v, pull[q].src, pull[q].at)
          /\ \A y \in pull[q].batch, e \in All :
                e.by = pull[q].src /\ e.at <= y.at => e \in pull[q].batch \cup Had(v)
      BY <3>1 DEF PullsMissNothing
    <3>3. Had(v) \subseteq Had(v)'
      BY <1>6, <3>1
    <3>4. /\ \A e \in All : e.by = pull'[q].src /\ e.at <= pull'[q].at => e \in Had(v)'
          /\ \A y \in pull'[q].batch, e \in All :
                e.by = pull'[q].src /\ e.at <= y.at => e \in pull'[q].batch \cup Had(v)'
      BY <3>1, <3>2, <3>3 DEF Behind
    <3> QED BY <1>5, <2>0, <3>4 DEF Behind, Had
  <2> QED BY <2>1, <2>2
<1>16. PrunesSpare'
  BY <1>5, <1>6 DEF PrunesSpare, TypeOK, Pruning
<1> QED BY <1>11, <1>12, <1>13, <1>14, <1>15, <1>16

LEMMA PullDiesKeeps ==
    ASSUME IInv, NEW p \in Puller, PullDies(p)
    PROVE  IInv'
<1> USE DEF IInv
<1>1. /\ UNCHANGED <<clock, peak, log, cursor, prune, gone, seen, excused>> /\ All' = All
      /\ pull' \in [Puller -> Pulling \cup {Idle}]
      /\ \A q \in Puller : pull'[q] # Idle => pull'[q] = pull[q]
  BY DEF PullDies, All, TypeOK
<1>2. TypeOK' /\ ClockOK' /\ Old'
  BY <1>1 DEF TypeOK, ClockOK, Old
<1>3. AtEvents' /\ CursorsMissNothing' /\ PullsMissNothing' /\ PrunesSpare'
  BY <1>1 DEF AtEvents, CursorsMissNothing, PullsMissNothing, PrunesSpare, Behind, Had
<1> QED BY <1>2, <1>3

LEMMA LookKeeps ==
    ASSUME IInv, NEW r \in Pruner, PruneLook(r)
    PROVE  IInv'
<1> USE DEF IInv
<1>1. PICK c \in Cutoffs : prune' = [prune EXCEPT ![r] = [cutoff |-> c, guarded |-> HasCursor]]
  BY DEF PruneLook
<1>2. UNCHANGED <<clock, peak, log, cursor, pull, gone, seen, excused>> /\ All' = All
  BY DEF PruneLook, All
<1>3. /\ c \in Int /\ c <= clock - Retention
      /\ \A x \in HasCursor : c <= cursor[x[1]][x[2]]
      /\ HasCursor \subseteq Worktree \X Branch
  <2>1. clock \in Nat /\ clock - Retention \in Int
    BY LogAssumption DEF TypeOK
  <2>2. HasCursor \subseteq Worktree \X Branch
    BY DEF HasCursor
  <2>3. \A x \in HasCursor : cursor[x[1]][x[2]] \in Nat
    <3> SUFFICES ASSUME NEW x \in HasCursor PROVE cursor[x[1]][x[2]] \in Nat
      OBVIOUS
    <3>1. x[1] \in Worktree /\ x[2] \in Branch
      BY <2>2
    <3> QED BY <3>1 DEF TypeOK
  <2>4. /\ c \in {clock - Retention} \cup {cursor[x[1]][x[2]] : x \in HasCursor}
        /\ \A y \in {clock - Retention} \cup {cursor[x[1]][x[2]] : x \in HasCursor} : c <= y
    BY <1>1 DEF Cutoffs, Least
  <2>5. c \in Int
    BY <2>1, <2>3, <2>4
  <2> QED BY <2>2, <2>4, <2>5
<1>4. /\ prune'[r] = [cutoff |-> c, guarded |-> HasCursor]
      /\ prune'[r] \in Pruning
      /\ prune' \in [Pruner -> Pruning \cup {Idle}]
      /\ \A q \in Pruner \ {r} : prune'[q] = prune[q]
  BY <1>1, <1>3 DEF TypeOK, Pruning
<1>5. TypeOK' /\ ClockOK' /\ AtEvents' /\ CursorsMissNothing' /\ PullsMissNothing'
  BY <1>2, <1>4 DEF TypeOK, ClockOK, AtEvents, CursorsMissNothing, PullsMissNothing, Behind, Had
<1>6. Old'
  <2>1. c <= peak - Retention
    BY <1>3, LogAssumption DEF TypeOK, ClockOK
  <2> QED BY <1>2, <1>4, <2>1 DEF Old
<1>7. PrunesSpare'
  <2>1. ASSUME NEW x \in HasCursor, NEW e \in All, e.by = x[2], e.at < c
        PROVE  e \in Had(x[1])
    <3>1. x[1] \in Worktree /\ x[2] \in Branch /\ cursor[x[1]][x[2]] \in Nat /\ e.at \in Nat
      BY <1>3, <2>1 DEF TypeOK, All, Event
    <3>2. e.at <= cursor[x[1]][x[2]]
      BY <1>3, <2>1, <3>1
    <3> QED BY <2>1, <3>1, <3>2 DEF CursorsMissNothing, Behind
  <2>2. ASSUME NEW q \in Pruner, prune'[q] # Idle, NEW x \in prune'[q].guarded,
               NEW e \in All, e.by = x[2], e.at < prune'[q].cutoff
        PROVE  e \in Had(x[1])
    BY <1>4, <2>1, <2>2 DEF PrunesSpare
  <2> QED BY <1>2, <2>2 DEF PrunesSpare, Had
<1> QED BY <1>5, <1>6, <1>7

LEMMA DeleteKeeps ==
    ASSUME IInv, NEW r \in Pruner, PruneDelete(r)
    PROVE  IInv'
<1> DEFINE D == {e \in log : e.at < prune[r].cutoff}
<1> USE DEF IInv
<1>1. /\ prune[r] # Idle /\ prune[r] \in Pruning
      /\ log' = log \ D /\ gone' = gone \cup D /\ All' = All
      /\ excused' = [w \in Worktree |->
                        excused[w] \cup {e \in D : <<w, e.by>> \notin prune[r].guarded}]
      /\ UNCHANGED <<clock, peak, cursor, pull, seen>>
  BY DEF PruneDelete, All, TypeOK
<1>2. /\ prune' \in [Pruner -> Pruning \cup {Idle}]
      /\ \A q \in Pruner : prune'[q] # Idle => prune'[q] = prune[q]
  BY DEF PruneDelete, TypeOK
<1>3. \A w \in Worktree : Had(w) \subseteq Had(w)'
  BY <1>1 DEF Had
<1>4. \A e \in D : e \in log /\ e \in All /\ e \in Event /\ e.at < prune[r].cutoff
  BY DEF TypeOK, All
<1> HIDE DEF D
<1>5. TypeOK'
  <2>1. excused' \in [Worktree -> SUBSET Event]
    BY <1>1, <1>4 DEF TypeOK
  <2> QED BY <1>1, <1>2, <1>4, <2>1 DEF TypeOK
<1>6. ClockOK' /\ AtEvents'
  BY <1>1 DEF ClockOK, AtEvents
<1>7. Old'
  <2>1. ASSUME NEW e \in D PROVE e.at < peak - Retention
    <3>1. e.at \in Nat /\ prune[r].cutoff \in Int /\ prune[r].cutoff <= peak - Retention
      BY <1>1, <1>4 DEF Event, Pruning, Old
    <3> QED BY <1>4, <3>1, LogAssumption DEF TypeOK
  <2> QED BY <1>1, <1>2, <2>1 DEF Old
<1>8. CursorsMissNothing'
  <2>1. ASSUME NEW w \in Worktree, NEW e \in D PROVE e \in Had(w)'
    <3>1. CASE <<w, e.by>> \in prune[r].guarded
      <4>1. e \in Had(w)
        BY <1>1, <1>4, <3>1 DEF PrunesSpare
      <4> QED BY <1>3, <4>1
    <3>2. CASE <<w, e.by>> \notin prune[r].guarded
      BY <1>1, <3>2 DEF Had
    <3> QED BY <3>1, <3>2
  <2> QED BY <1>1, <1>3, <2>1 DEF CursorsMissNothing, Behind
<1>9. PullsMissNothing'
  <2> SUFFICES ASSUME NEW q \in Puller, pull[q] # Idle
               PROVE  /\ Behind(pull[q].home, pull[q].src, pull[q].at)'
                      /\ \A y \in pull[q].batch, e \in All :
                            e.by = pull[q].src /\ e.at <= y.at
                               => e \in pull[q].batch \cup Had(pull[q].home)'
    BY <1>1 DEF PullsMissNothing
  <2>0. PICK v \in Worktree : v = pull[q].home /\ v = pull'[q].home
    BY <1>1 DEF TypeOK, Pulling
  <2>1. Had(v) \subseteq Had(v)'
    BY <1>3
  <2>2. /\ Behind(v, pull[q].src, pull[q].at)
        /\ \A y \in pull[q].batch, e \in All :
              e.by = pull[q].src /\ e.at <= y.at => e \in pull[q].batch \cup Had(v)
    BY <2>0 DEF PullsMissNothing
  <2>3. /\ \A e \in All : e.by = pull[q].src /\ e.at <= pull[q].at => e \in Had(v)'
        /\ \A y \in pull[q].batch, e \in All :
              e.by = pull[q].src /\ e.at <= y.at => e \in pull[q].batch \cup Had(v)'
    BY <2>1, <2>2 DEF Behind
  <2> QED BY <1>1, <2>0, <2>3 DEF Behind, Had
<1>10. PrunesSpare'
  <2> SUFFICES ASSUME NEW q \in Pruner, prune[q] # Idle, NEW x \in prune[q].guarded,
                      NEW e \in All, e.by = x[2], e.at < prune[q].cutoff
               PROVE  e \in Had(x[1])'
    BY <1>1, <1>2 DEF PrunesSpare
  <2>1. x[1] \in Worktree
    BY DEF TypeOK, Pruning
  <2> QED BY <1>3, <2>1 DEF PrunesSpare
<1> QED BY <1>5, <1>6, <1>7, <1>8, <1>9, <1>10

LEMMA PruneDiesKeeps ==
    ASSUME IInv, NEW r \in Pruner, PruneDies(r)
    PROVE  IInv'
<1> USE DEF IInv
<1>1. /\ UNCHANGED <<clock, peak, log, cursor, pull, gone, seen, excused>> /\ All' = All
      /\ prune' \in [Pruner -> Pruning \cup {Idle}]
      /\ \A q \in Pruner : prune'[q] # Idle => prune'[q] = prune[q]
  BY DEF PruneDies, All, TypeOK
<1>2. TypeOK' /\ ClockOK' /\ Old' /\ AtEvents'
  BY <1>1 DEF TypeOK, ClockOK, Old, AtEvents
<1>3. CursorsMissNothing' /\ PullsMissNothing' /\ PrunesSpare'
  BY <1>1 DEF CursorsMissNothing, PullsMissNothing, PrunesSpare, Behind, Had
<1> QED BY <1>2, <1>3

----------------------------------------------------------------------------

LEMMA StepHolds == IInv /\ [Next]_vars => IInv'
<1> SUFFICES ASSUME IInv, [Next]_vars PROVE IInv'
  OBVIOUS
<1>1. CASE Tick
  BY <1>1, TickKeeps
<1>2. CASE \E b \in Branch : AppendEvent(b)
  BY <1>2, AppendKeeps
<1>3. CASE \E p \in Puller, w \in Worktree, b \in Branch : PullStart(p, w, b)
  BY <1>3, StartKeeps
<1>4. CASE \E p \in Puller : PullRead(p) \/ PullBatch(p) \/ PullDies(p)
  BY <1>4, ReadKeeps, BatchKeeps, PullDiesKeeps
<1>5. CASE \E r \in Pruner : PruneLook(r) \/ PruneDelete(r) \/ PruneDies(r)
  BY <1>5, LookKeeps, DeleteKeeps, PruneDiesKeeps
<1>6. CASE UNCHANGED vars
  BY <1>6 DEF vars, IInv, TypeOK, ClockOK, Old, AtEvents, CursorsMissNothing, PullsMissNothing,
     PrunesSpare, Behind, Had, All
<1> QED BY <1>1, <1>2, <1>3, <1>4, <1>5, <1>6 DEF Next

\* The types, and that no two events share a timestamp and no batch is too large.
THEOREM LogTyped == Spec => []TypeOK
<1>1. IInv => TypeOK
  BY DEF IInv
<1> QED BY InitHolds, StepHolds, <1>1, PTL DEF Spec

\* What a worktree with a cursor has not replayed is ahead of it and in the log, or was
\* pruned by a prune that found no cursor: "cursors always have replayable history".
THEOREM NoneMissed == Spec => []NothingMissed
<1>1. IInv => NothingMissed
  <2> SUFFICES ASSUME IInv, NEW w \in Worktree, NEW e \in All, e \notin seen[w] \cup excused[w]
               PROVE  e \in log /\ e.at > cursor[w][e.by]
    BY DEF NothingMissed
  <2>1. e.by \in Branch /\ e.at \in Nat /\ cursor[w][e.by] \in Nat
    BY DEF IInv, TypeOK, All, Event
  <2>2. e \notin gone /\ ~(e.at <= cursor[w][e.by])
    BY <2>1 DEF IInv, CursorsMissNothing, Behind, Had
  <2> QED BY <2>1, <2>2 DEF All
<1> QED BY InitHolds, StepHolds, <1>1, PTL DEF Spec
=============================================================================

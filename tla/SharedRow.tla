----------------------------- MODULE SharedRow -----------------------------
(***************************************************************************)
(* One task row of the shared database and the processes that edit it:     *)
(* command lines that read and write in separate transactions, agents that *)
(* claim it, and board clients that send `If-Match` with the version of    *)
(* the snapshot they last received.  Each action is one transaction.       *)
(*                                                                         *)
(* The description is the set of notes appended to it: writing it as a     *)
(* whole starts from none, and which other words it has does not matter.   *)
(* Whether the dependencies of the row are done is up to module Tracker:   *)
(* here the gate may be open at any time.                                  *)
(*                                                                         *)
(* `life`, `holders` and `kept` are not columns: they count how often the  *)
(* row was inserted, who was told `claimed: true` and has not been         *)
(* replaced as owner since, and which notes were appended since somebody   *)
(* last wrote the description as a whole.                                  *)
(***************************************************************************)
EXTENDS StatusMachine, Naturals, FiniteSets

CONSTANTS
    Clients,      \* board sessions and command lines
    Owners,       \* agents that claim
    Titles, Notes,
    Edits,        \* inputs of an update: records of the columns they name
    MaxVersion,   \* bound on the version column
    MaxLives      \* bound on how often the row is inserted

None == "none"
Gone == [version |-> 0]              \* there is no row

ASSUME OwnersAssumption == None \notin Owners
ASSUME EditsAssumption ==
    \A f \in Edits :
        /\ DOMAIN f \subseteq {"title", "notes", "status", "owner"}
        /\ "title" \in DOMAIN f => f.title \in Titles
        /\ "notes" \in DOMAIN f => f.notes = {}
        /\ "status" \in DOMAIN f => f.status \in ValidStatuses
        /\ "owner" \in DOMAIN f => f.owner \in Owners \cup {None}
ASSUME BoundsAssumption == MaxVersion \in Nat \ {0} /\ MaxLives \in Nat \ {0}

VARIABLES
    row,       \* the row, or Gone
    created,   \* fields of its created event, which a pull from another branch applies
    known,      \* the row as each client last received it, and in which life
    draft,     \* title and description a replacement of the client is going to write
    life, holders, kept

rowVars == <<row, created, known, draft, life, holders, kept>>

Rows == [title : Titles, notes : SUBSET Notes, status : ValidStatuses,
         owner : Owners \cup {None}, version : 1 .. MaxVersion]
Created == [title : Titles, notes : {{}}, status : ValidStatuses, owner : {None}]
Drafts == [title : Titles, notes : SUBSET Notes]
Nothing == [nothing |-> TRUE]

Exists == row # Gone

----------------------------------------------------------------------------
(* Writing the row *)

\* `fields` replaces the columns it names; every UPDATE raises the version.
Write(fields) ==
    /\ Exists
    /\ row.version < MaxVersion
    /\ row' = [c \in DOMAIN row |->
                  IF c = "version" THEN row.version + 1
                  ELSE IF c \in DOMAIN fields THEN fields[c] ELSE row[c]]

\* What an update leaves of the claims and of the appended notes.
Overwritten(fields) ==
    /\ holders' = IF "owner" \in DOMAIN fields THEN {} ELSE holders
    /\ kept' = IF "notes" \in DOMAIN fields THEN {} ELSE kept

Checked(fields) ==
    "status" \in DOMAIN fields => ValidTransition(row.status, fields.status)

----------------------------------------------------------------------------
(* Transactions *)

\* The INSERT: version 1.
Insert(fields) ==
    row' = [c \in DOMAIN fields \cup {"version"} |-> IF c = "version" THEN 1 ELSE fields[c]]

CreateTask(fields) ==
    /\ life = 0
    /\ life' = 1
    /\ Insert(fields)
    /\ created' = fields
    /\ UNCHANGED <<known, draft, holders, kept>>

\* A client fetches the row: GET /api/snapshot, or the delta of its own mutation.
Read(c) ==
    /\ Exists
    /\ known' = [known EXCEPT ![c] = [life |-> life, row |-> row]]
    /\ UNCHANGED <<row, created, draft, life, holders, kept>>

UpdateTask(fields) ==
    /\ Write(fields)
    /\ Checked(fields)
    /\ Overwritten(fields)
    /\ UNCHANGED <<created, known, draft, life>>

IfMatchHolds(c) == known[c].row.version = row.version

\* The compare-and-swap: it also needs the version the client saw last.
UpdateTaskWithIfMatch(c, fields) ==
    /\ Write(fields)
    /\ Checked(fields)
    /\ IfMatchHolds(c)
    /\ Overwritten(fields)
    /\ UNCHANGED <<created, known, draft, life>>

WithNotes(fields, new) ==
    [x \in DOMAIN fields \cup {"notes"} |-> IF x = "notes" THEN new ELSE fields[x]]

\* Mutant: the description is computed from what the client read before.
AppendToDescriptionRead(c, n, fields) ==
    /\ known[c].row # Gone
    /\ Write(WithNotes(fields, known[c].row.notes \cup {n}))
    /\ Checked(fields)
    /\ holders' = IF "owner" \in DOMAIN fields THEN {} ELSE holders
    /\ kept' = kept \cup {n}
    /\ UNCHANGED <<created, known, draft, life>>

\* `--append`, with a status and an owner or without: description || text in the UPDATE.
AppendToTaskDescription(c, n, fields) ==
    /\ Write(WithNotes(fields, row.notes \cup {n}))
    /\ Checked(fields)
    /\ holders' = IF "owner" \in DOMAIN fields THEN {} ELSE holders
    /\ kept' = kept \cup {n}
    /\ UNCHANGED <<created, known, draft, life>>

\* Mutant: the direct write leaves the version alone.
MarkTaskDoneSameVersion ==
    /\ Exists
    /\ row.status \in {"todo", "blocked", "in_progress"}
    /\ row' = [row EXCEPT !.status = "done"]
    /\ UNCHANGED <<created, known, draft, life, holders, kept>>

MarkTaskDone ==
    /\ Write([status |-> "done"])
    /\ row.status \in {"todo", "blocked", "in_progress"}
    /\ UNCHANGED <<created, known, draft, life, holders, kept>>

\* Mutant: whoever asks for an open row gets it.
ClaimMatchesAnyOwner(o) == row.status \in {"todo", "blocked"}

\* The WHERE clause of the claim.
ClaimMatches(o) == row.status \in {"todo", "blocked"} /\ row.owner \in {None, o}

ClaimTask(o) ==
    /\ Write([status |-> "in_progress", owner |-> o])
    /\ ClaimMatches(o)
    /\ holders' = holders \cup {o}
    /\ UNCHANGED <<created, known, draft, life, kept>>

\* A row of a status cascade: no transition check.
CascadeStatus(s) ==
    /\ Write([status |-> s])
    /\ row.status # s
    /\ UNCHANGED <<created, known, draft, life, holders, kept>>

\* `replace --apply` reads the scope before its transaction ...
CollectSearchScope(c) ==
    /\ Exists
    /\ draft' = [draft EXCEPT ![c] = [title |-> row.title, notes |-> row.notes]]
    /\ UNCHANGED <<row, created, known, life, holders, kept>>

\* ... and writes title and description as it computed them then, whichever of the
\* two it changed.
ApplyScopeReplacement(c, title) ==
    /\ draft[c] # Nothing
    /\ Write([title |-> title, notes |-> draft[c].notes])
    /\ draft' = [draft EXCEPT ![c] = Nothing]
    /\ kept' = {}
    /\ UNCHANGED <<created, known, life, holders>>

\* The scope has no row left that the replacement would change, or the row is gone.
AbandonReplacement(c) ==
    /\ draft[c] # Nothing
    /\ draft' = [draft EXCEPT ![c] = Nothing]
    /\ UNCHANGED <<row, created, known, life, holders, kept>>

\* A delete, local or pulled; the id is not drawn again by a creation.
DeleteTask ==
    /\ Exists
    /\ row' = Gone
    /\ holders' = {}
    /\ kept' = {}
    /\ UNCHANGED <<created, known, draft, life>>

\* A pull applies the created event of another branch: an upsert whose INSERT starts
\* at version 1 again.
SyncCreate ==
    /\ life > 0
    /\ \/ Write(created) /\ UNCHANGED life
       \/ ~Exists /\ life < MaxLives /\ life' = life + 1 /\ Insert(created)
    /\ holders' = {}
    /\ kept' = {}
    /\ UNCHANGED <<created, known, draft>>

\* A pull applies the updated event of another branch: no transition check.
SyncUpdate(fields) ==
    /\ Write(fields)
    /\ Overwritten(fields)
    /\ UNCHANGED <<created, known, draft, life>>

----------------------------------------------------------------------------

RowInit ==
    /\ row = Gone
    /\ life = 0
    /\ known = [c \in Clients |-> [life |-> 0, row |-> Gone]]
    /\ draft = [c \in Clients |-> Nothing]
    /\ created = Nothing
    /\ holders = {}
    /\ kept = {}

RowNext ==
    \/ \E f \in Created : CreateTask(f)
    \/ \E c \in Clients : Read(c)
    \/ \E f \in Edits : UpdateTask(f)
    \/ \E c \in Clients, f \in Edits : UpdateTaskWithIfMatch(c, f)
    \/ \E c \in Clients, n \in Notes, f \in Edits :
          DOMAIN f \subseteq {"status", "owner"} /\ AppendToTaskDescription(c, n, f)
    \/ MarkTaskDone
    \/ \E o \in Owners : ClaimTask(o)
    \/ \E s \in ValidStatuses : CascadeStatus(s)
    \/ \E c \in Clients : CollectSearchScope(c)
    \/ \E c \in Clients, x \in Titles : ApplyScopeReplacement(c, x)
    \/ \E c \in Clients : AbandonReplacement(c)
    \/ DeleteTask
    \/ SyncCreate
    \/ \E f \in Edits : SyncUpdate(f)

RowSpec == RowInit /\ [][RowNext]_rowVars

----------------------------------------------------------------------------
(* Properties *)

\* The columns hold values of their domain, a stored version is at least 1, and what
\* clients saw and drafted are rows and texts.
RowOK ==
    /\ row \in Rows \cup {Gone}
    /\ life \in 0 .. MaxLives
    /\ known \in [Clients -> [life : 0 .. MaxLives, row : Rows \cup {Gone}]]
    /\ draft \in [Clients -> Drafts \cup {Nothing}]
    /\ created \in Created \cup {Nothing}
    /\ holders \subseteq Owners
    /\ kept \subseteq Notes

\* While a row lives, its version number stands for its content: a client whose
\* `If-Match` names the current version has the current row in front of it, whoever
\* else wrote in between, so an accepted PATCH overwrites nothing unseen.
VersionPinsContent ==
    \A c \in Clients :
        known[c].life = life /\ Exists /\ IfMatchHolds(c) => known[c].row = row

\* Of all the agents told `claimed: true`, at most one still owns the row: two claims
\* never both succeed, however status changes, cascades and appends come in between,
\* unless the owner was reassigned or the row deleted.
ClaimExclusive == Cardinality(holders) <= 1

\* A note that was appended stays in the description until somebody writes the
\* description as a whole: concurrent appends do not undo one another.
AppendsAreKept == Exists => kept \subseteq row.notes

=============================================================================

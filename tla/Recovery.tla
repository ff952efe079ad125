------------------------------ MODULE Recovery ------------------------------
(***************************************************************************)
(* The import of the databases that older versions kept in each worktree   *)
(* into the one that all worktrees of a repository share, as any command   *)
(* does it when it opens the database (storage/worktree-recovery.ts,       *)
(* storage/database.ts).  Nothing locks the files between the look at them *)
(* and the import, and a command that dies leaves what it did.  A file is  *)
(* the set of rows in it and, when migrated, the mark of the schema.       *)
(***************************************************************************)
EXTENDS Integers, FiniteSets

CONSTANTS
    Main,           \* the main worktree, whose file is the shared one
    Worktree,       \* the linked worktrees
    Legacy,         \* the contents that an old file may have
    Schema,         \* the mark of the latest schema
    Process,        \* commands, each of which writes a row of its own
    Absent          \* no file

ASSUME RecoveryAssumption ==
    /\ Main \notin Worktree /\ IsFiniteSet(Worktree)
    /\ \A c \in Legacy : IsFiniteSet(c) /\ c \cap Process = {}
    /\ \A file \in SUBSET ((UNION Legacy) \cup Process \cup {Schema}) : file # Absent

VARIABLES
    legacy,         \* the file of each linked worktree
    shared,         \* the shared database file
    backups,        \* the contents of the .bak files
    tracked,        \* whether git tracks files of .trekoon in any worktree
    home,           \* the worktree that a command runs in
    phase,          \* where a command is
    listed,         \* the legacy files that it found
    todo,           \* those it has not copied yet
    saw,            \* history: their contents when it found them, if it did
    free,           \* history: whether there was no shared file then
    basis,          \* history: what its verdict on them rests on
    old,            \* history: what legacy files held at any time
    acked,          \* history: commands whose write was reported
    removed,        \* history: what the operator removed with a legacy file
    lost            \* history: what wipes and overlapping imports took

files == <<legacy, shared, backups, tracked>>
look == <<listed, todo, saw, free, basis>>
vars == <<files, home, phase, look, old, acked, removed, lost>>

Goes(p, step) == phase' = [phase EXCEPT ![p] = step]
Moves(p, step) == Goes(p, step) /\ UNCHANGED home

Forgets(p) == /\ listed' = [listed EXCEPT ![p] = {}]
              /\ todo' = [todo EXCEPT ![p] = {}]
              /\ saw' = [saw EXCEPT ![p] = {}]
              /\ free' = [free EXCEPT ![p] = FALSE]
              /\ basis' = [basis EXCEPT ![p] = "nothing"]

\* Whether the dumps of these files are one and the same.
\* Mutant: any of them will do.
AlikeTrivially(contents) == contents # {}
Alike(contents) == Cardinality(contents) = 1

\* A command goes ahead with its files if they pass, and says on what grounds.
Judge(p, pass, next, grounds) == /\ Moves(p, IF pass THEN next ELSE "refused")
                                 /\ basis' = [basis EXCEPT ![p] = grounds]

\* fingerprintDatabaseFile: without a dump (no sqlite3, a dump that fails or is
\* longer than its buffer) it takes the bytes of the main files, and these may be
\* the same or not, whatever the rows are: rows of the -wal files do not count.
JudgeAll(p, contents, next) == \/ Judge(p, Alike(contents), next, "contents")
                               \/ \E same \in BOOLEAN : Judge(p, same, next, "bytes")

(***************************************************************************)
(* Opening: openTrekoonDatabase, recoverWorktreeDatabaseState.             *)
(***************************************************************************)
Begin(p) == /\ phase[p] = "new"
            /\ IF home[p] # Main /\ legacy[home[p]] = Absent
               THEN Moves(p, "opening")
               ELSE Moves(p, "looking")
            /\ UNCHANGED <<files, look, old, acked, removed, lost>>

\* listTrackedStorageFiles, listLegacyDatabaseFiles, existsSync
\* Mutant: an import does not ask for the shared file.
VerdictUnasked(found) == IF tracked THEN "refused"
                         ELSE IF found = {} THEN "opening" ELSE "choosing"
Verdict(found) == IF tracked THEN "refused"
                  ELSE IF found = {} THEN "opening"
                  ELSE IF shared # Absent THEN "comparing" ELSE "choosing"

Look(p) == LET found == {w \in Worktree : legacy[w] # Absent}
           IN  /\ phase[p] = "looking"
               /\ Moves(p, Verdict(found))
               /\ listed' = [listed EXCEPT ![p] = found]
               /\ saw' = [saw EXCEPT ![p] = {legacy[w] : w \in found}]
               /\ free' = [free EXCEPT ![p] = shared = Absent]
               /\ UNCHANGED <<files, todo, basis, old, acked, removed, lost>>

\* assertNoSplitState asks for the shared file again, and lets the command pass
\* when it is gone by now.
Compare(p) == /\ phase[p] = "comparing"
              /\ IF shared = Absent THEN Judge(p, TRUE, "opening", "absence")
                 ELSE JudgeAll(p, {legacy[w] : w \in listed[p]} \cup {shared}, "opening")
              /\ UNCHANGED <<files, listed, todo, saw, free, old, acked, removed, lost>>

\* One file is like itself by any fingerprint.
Choose(p) == /\ phase[p] = "choosing"
             /\ IF Cardinality(listed[p]) = 1 THEN Judge(p, TRUE, "importing", "contents")
                ELSE JudgeAll(p, {legacy[w] : w \in listed[p]}, "importing")
             /\ todo' = [todo EXCEPT ![p] = listed[p]]
             /\ UNCHANGED <<files, listed, saw, free, old, acked, removed, lost>>

\* backupLegacyDatabaseFile; sqlite3 may be missing or fail.
Backup(p) == /\ phase[p] = "importing"
             /\ \/ \E w \in todo[p] :
                       /\ backups' = backups \cup {legacy[w]}
                       /\ todo' = [todo EXCEPT ![p] = @ \ {w}]
                       /\ UNCHANGED phase
                \/ /\ todo[p] # {}
                   /\ Goes(p, "refused")
                   /\ UNCHANGED <<backups, todo>>
             /\ UNCHANGED <<legacy, shared, tracked, home, listed, saw, free, basis, old, acked, removed, lost>>

\* What an import may take with it: rows that came since the command looked.
Overlaps(p) == IF free[p] /\ shared # Absent THEN shared ELSE {}
Imported(p) == {legacy[w] : w \in listed[p]}

\* createDatabaseSnapshot over whatever is there by now
Import(p) == /\ phase[p] = "importing" /\ todo[p] = {}
             /\ shared' \in Imported(p)
             /\ lost' = lost \cup (Overlaps(p) \ shared')
             /\ Moves(p, "opening")
             /\ UNCHANGED <<legacy, backups, tracked, look, old, acked, removed>>

\* A snapshot that fails or is cut off may leave a database with nothing in it.
Cut == shared' \in {shared, IF shared = Absent THEN {} ELSE shared}
ImportFails(p) == /\ phase[p] = "importing" /\ todo[p] = {}
                  /\ Cut
                  /\ Moves(p, "refused")
                  /\ UNCHANGED <<legacy, backups, tracked, look, old, acked, removed, lost>>

\* new Database(create) and migrateDatabase
Open(p) == /\ phase[p] = "opening"
           /\ shared' = (IF shared = Absent THEN {} ELSE shared) \cup {Schema}
           /\ Moves(p, "open")
           /\ UNCHANGED <<legacy, backups, tracked, look, old, acked, removed, lost>>

Write(p) == /\ phase[p] = "open"
            /\ shared' = shared \cup {p}
            /\ acked' = acked \cup {p}
            /\ Moves(p, "done")
            /\ Forgets(p)
            /\ UNCHANGED <<legacy, backups, tracked, old, removed, lost>>

\* The file of the handle was removed: the write succeeds and nobody sees it.
WriteStray(p) == /\ phase[p] = "stray"
                 /\ acked' = acked \cup {p}
                 /\ lost' = lost \cup {p}
                 /\ Moves(p, "done")
                 /\ Forgets(p)
                 /\ UNCHANGED <<files, old, removed>>

\* The user follows the operator action, or does not, and runs it again.
Rerun(p) == /\ phase[p] = "refused"
            /\ Moves(p, "new")
            /\ Forgets(p)
            /\ UNCHANGED <<files, old, acked, removed, lost>>

\* runWipe: handles that are open stay open on a file that is gone.
Wipe == /\ shared # Absent
        /\ shared' = Absent
        /\ lost' = lost \cup shared
        /\ phase' = [p \in Process |-> IF phase[p] = "open" THEN "stray" ELSE phase[p]]
        /\ UNCHANGED <<legacy, backups, tracked, home, look, old, acked, removed>>

Running == {p \in Process : phase[p] \notin {"new", "done", "refused"}}

\* A snapshot that runs in a child process goes on, stops or never started.
Crash(p) == /\ p \in Running
            /\ Goes(p, "done")
            /\ IF phase[p] = "importing" /\ todo[p] = {} THEN Cut ELSE UNCHANGED shared
            /\ Forgets(p)
            /\ UNCHANGED <<legacy, backups, tracked, home, old, acked, removed, lost>>

(***************************************************************************)
(* The operator, between commands.                                         *)
(***************************************************************************)
\* "remove the remaining divergent legacy database"
Discard(w) == /\ Running = {} /\ legacy[w] # Absent
              /\ legacy' = [legacy EXCEPT ![w] = Absent]
              /\ removed' = removed \cup legacy[w]
              /\ UNCHANGED <<shared, backups, tracked, home, phase, look, old, acked, lost>>

\* An old file is put back, while commands or a daemon may run.
Restore(w) == /\ legacy[w] = Absent
              /\ \E c \in Legacy : /\ legacy' = [legacy EXCEPT ![w] = c]
                                   /\ old' = old \cup {c}
              /\ UNCHANGED <<shared, backups, tracked, home, phase, look, acked, removed, lost>>

\* git rm --cached
Untrack == /\ tracked /\ tracked' = FALSE
           /\ UNCHANGED <<legacy, shared, backups, home, phase, look, old, acked, removed, lost>>

Init == /\ legacy \in [Worktree -> Legacy \cup {Absent}]
        /\ shared = Absent
        /\ backups = {}
        /\ tracked \in BOOLEAN
        /\ home \in [Process -> Worktree \cup {Main}]
        /\ phase = [p \in Process |-> "new"]
        /\ listed = [p \in Process |-> {}]
        /\ todo = [p \in Process |-> {}]
        /\ saw = [p \in Process |-> {}]
        /\ free = [p \in Process |-> FALSE]
        /\ basis = [p \in Process |-> "nothing"]
        /\ old = {legacy[w] : w \in Worktree} \ {Absent}
        /\ acked = {} /\ removed = {} /\ lost = {}

Opens(p) == Begin(p) \/ Look(p) \/ Compare(p) \/ Choose(p) \/ Backup(p) \/ Import(p) \/ ImportFails(p)
Uses(p) == Open(p) \/ Write(p) \/ WriteStray(p) \/ Rerun(p) \/ Crash(p)

Next == \/ \E p \in Process : Opens(p) \/ Uses(p)
        \/ \E w \in Worktree : Discard(w) \/ Restore(w)
        \/ Wipe \/ Untrack

Spec == Init /\ [][Next]_vars

(***************************************************************************)
(* Properties.                                                             *)
(***************************************************************************)
Rows == (UNION Legacy) \cup Process \cup {Schema}
File == (SUBSET Rows) \cup {Absent}

\* Every variable has its type, and of files that were compared by what they hold
\* only those that are alike are imported.
TypeOK == /\ legacy \in [Worktree -> Legacy \cup {Absent}]
          /\ shared \in File /\ backups \subseteq File /\ tracked \in BOOLEAN
          /\ home \in [Process -> Worktree \cup {Main}]
          /\ phase \in [Process -> {"new", "looking", "comparing", "choosing", "importing",
                                    "opening", "open", "stray", "refused", "done"}]
          /\ listed \in [Process -> SUBSET Worktree] /\ todo \in [Process -> SUBSET Worktree]
          /\ saw \in [Process -> SUBSET Legacy] /\ free \in [Process -> BOOLEAN]
          /\ basis \in [Process -> {"nothing", "contents", "bytes", "absence"}]
          /\ old \subseteq Legacy /\ acked \subseteq Process /\ removed \subseteq Rows /\ lost \subseteq Rows
          /\ \A p \in Process : phase[p] = "importing" =>
                todo[p] \subseteq listed[p] /\ (basis[p] # "bytes" => Cardinality(saw[p]) = 1)

Kept == {c \in {legacy[w] : w \in Worktree} \cup backups \cup {shared} : c # Absent}
Holds(c) == c \ lost \subseteq shared

\* What an old file held is kept as one in some file, what a command reported
\* as written is in the shared one, and a command that goes ahead in spite of
\* legacy files works on a database with all they held: but for what a wipe or
\* the operator removed, what came between the look and the import of an
\* overlapping command, which is taken from whoever was first, and commands that
\* compared main files alone, or went ahead because the shared file was gone.
NothingLost ==
    /\ \A c \in old : \E f \in Kept \cup {{}} : c \ removed \subseteq f
    /\ shared # Absent => Holds(acked)
    /\ \A p \in Process : phase[p] = "open" /\ basis[p] \notin {"bytes", "absence"} =>
                            \A c \in saw[p] : Holds(c)
=============================================================================

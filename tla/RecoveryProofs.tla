--------------------------- MODULE RecoveryProofs ---------------------------
(***************************************************************************)
(* No content and no reported write is lost by module Recovery but as its  *)
(* history says, for any number of worktrees and of commands that overlap. *)
(***************************************************************************)
EXTENDS Recovery, FiniteSetTheorems, FunctionTheorems, TLAPS

\* A row is in the shared file unless something took it, and all are taken when that goes.
Has(X) == IF shared = Absent THEN X \subseteq lost ELSE X \ lost \subseteq shared

Typed ==
    /\ legacy \in [Worktree -> Legacy \cup {Absent}]
    /\ shared \in File /\ backups \subseteq File /\ tracked \in BOOLEAN
    /\ home \in [Process -> Worktree \cup {Main}]
    /\ phase \in [Process -> {"new", "looking", "comparing", "choosing", "importing",
                              "opening", "open", "stray", "refused", "done"}]
    /\ listed \in [Process -> SUBSET Worktree] /\ todo \in [Process -> SUBSET Worktree]
    /\ saw \in [Process -> SUBSET Legacy] /\ free \in [Process -> BOOLEAN]
    /\ basis \in [Process -> {"nothing", "contents", "bytes", "absence"}]
    /\ old \subseteq Legacy /\ acked \subseteq Process /\ removed \subseteq Rows /\ lost \subseteq Rows

\* Between its look and its verdict a command knows what its files hold, for nobody
\* changes them while it runs.
LookHolds(p) ==
    /\ phase[p] \in {"new", "looking"} => saw[p] = {}
    /\ phase[p] \in {"comparing", "choosing", "importing"} =>
          /\ saw[p] # {}
          /\ \A w \in listed[p] : legacy[w] # Absent
          /\ saw[p] = {legacy[w] : w \in listed[p]}

\* It imports files that are alike if it knew what they hold, and only if it found
\* no shared one.
ImportsOne(p) ==
    /\ phase[p] \in {"choosing", "importing"} => free[p]
    /\ phase[p] = "importing" =>
          todo[p] \subseteq listed[p] /\ (basis[p] # "bytes" => Cardinality(saw[p]) = 1)

\* What a command that goes ahead has found is in the shared file, if it compared it.
Served(p) ==
    /\ phase[p] \in {"opening", "open"} /\ basis[p] \notin {"bytes", "absence"} =>
          \A c \in saw[p] : Has(c)
    /\ phase[p] = "open" => shared # Absent

\* An old file stays in its worktree unless the operator removes it.
OldKept == \A c \in old : (\E w \in Worktree : legacy[w] = c) \/ c \subseteq removed

IInv ==
    /\ Typed
    /\ OldKept
    /\ Has(acked)
    /\ \A p \in Process : LookHolds(p) /\ ImportsOne(p) /\ Served(p)

----------------------------------------------------------------------------

LEMMA RowsOfFiles == /\ \A c \in Legacy : c \subseteq Rows /\ c # Absent
                     /\ \A s : s \subseteq Rows => s # Absent
                     /\ {} \subseteq Rows /\ Schema \in Rows /\ Process \subseteq Rows
BY RecoveryAssumption DEF Rows

\* What any number of old files hold is finite, and one content if they are alike.
LEMMA AlikeIsOne ==
    ASSUME NEW F \in SUBSET Worktree, NEW X, NEW C,
           C = {legacy[w] : w \in F}, X = {} \/ (\E s : X = {s}), Alike(C \cup X)
    PROVE  \E c : C \cup X = {c}
<1> DEFINE f == [w \in F |-> legacy[w]]
<1>1. IsFiniteSet(F)
  BY FS_Subset, RecoveryAssumption
<1>2. f \in Surjection(F, C)
  <2>1. f \in [F -> C]
    OBVIOUS
  <2>2. \A c \in C : \E w \in F : f[w] = c
    OBVIOUS
  <2> QED BY <2>1, <2>2, Fun_IsSurj
<1>3. IsFiniteSet(C)
  <2> HIDE DEF f
  <2> QED BY <1>1, <1>2, FS_Surjection
<1>4. IsFiniteSet(C \cup X)
  <2>1. CASE X = {}
    <3>1. C \cup X = C
      BY <2>1
    <3> QED BY <1>3, <3>1
  <2>2. CASE \E s : X = {s}
    BY <2>2, <1>3, FS_AddElement
  <2> QED BY <2>1, <2>2
<1> QED BY <1>4, FS_Singleton DEF Alike

\* One file has one content.
LEMMA OneFile ==
    ASSUME NEW F \in SUBSET Worktree, Cardinality(F) = 1
    PROVE  Cardinality({legacy[w] : w \in F}) = 1
<1>1. IsFiniteSet(F)
  BY FS_Subset, RecoveryAssumption
<1>2. PICK w : F = {w}
  BY <1>1, FS_Singleton
<1>3. {legacy[v] : v \in F} = {legacy[w]}
  BY <1>2
<1> QED BY <1>3, FS_Singleton

\* What the shared file had it has, or it was taken.
Advances ==
    /\ lost \subseteq lost'
    /\ shared # Absent => IF shared' = Absent THEN shared \subseteq lost'
                                              ELSE shared \ lost' \subseteq shared'

LEMMA KeepsRows == ASSUME NEW X, Has(X), Advances
                   PROVE  IF shared' = Absent THEN X \subseteq lost' ELSE X \ lost' \subseteq shared'
BY DEF Has, Advances

\* An import takes one of the files it found, and there was no shared file when it looked.
LEMMA Imports == ASSUME IInv, NEW p \in Process, Import(p)
                 PROVE  /\ phase[p] = "importing" /\ free[p] /\ shared' \in Legacy
                        /\ basis[p] # "bytes" => saw[p] = {shared'}
<1>1. phase[p] = "importing" /\ shared' \in Imported(p)
  BY DEF Import
<1>2. /\ Imported(p) = saw[p] /\ free[p] /\ (basis[p] # "bytes" => Cardinality(saw[p]) = 1)
      /\ listed[p] \in SUBSET Worktree /\ saw[p] \in SUBSET Legacy
  BY <1>1 DEF IInv, Typed, LookHolds, ImportsOne, Imported
<1>3. ASSUME basis[p] # "bytes" PROVE \E c : Imported(p) \cup {} = {c}
  <2>1. Imported(p) \cup {} = Imported(p)
    OBVIOUS
  <2>2. Alike(Imported(p) \cup {})
    BY <1>2, <1>3, <2>1 DEF Alike
  <2> QED BY <1>2, <2>2, AlikeIsOne DEF Imported
<1> QED BY <1>1, <1>2, <1>3

\* What is opened and written is a file.
LEMMA Writes == ASSUME IInv, NEW p \in Process
                PROVE  /\ Open(p) => shared' \subseteq Rows
                       /\ Write(p) => shared # Absent /\ shared' \subseteq Rows
<1>1. shared = Absent \/ shared \subseteq Rows
  BY DEF IInv, Typed, File
<1>2. CASE Open(p)
  BY <1>1, <1>2, RowsOfFiles DEF Open, Write
<1>3. CASE Write(p)
  <2>1. phase[p] = "open" /\ shared' = shared \cup {p}
    BY <1>3 DEF Write
  <2>2. shared # Absent
    BY <2>1 DEF IInv, Served
  <2>3. phase[p] # "opening"
    BY <2>1
  <2> QED BY <1>1, <2>1, <2>2, <2>3, RowsOfFiles DEF Open
<1> QED BY <1>2, <1>3

LEMMA StepAdvances == ASSUME IInv, Next PROVE Advances
<1> USE RowsOfFiles DEF Advances, IInv, Typed, File, ImportsOne, files, look
<1>1. ASSUME NEW p \in Process, Opens(p) PROVE Advances
  <2>1. CASE Import(p)
    <3>1. free[p] /\ shared' # Absent
      BY <2>1, Imports
    <3> QED BY <2>1, <3>1 DEF Import, Overlaps
  <2>2. CASE ImportFails(p)
    BY <2>2 DEF ImportFails, Cut
  <2>3. CASE Begin(p) \/ Look(p) \/ Compare(p) \/ Choose(p) \/ Backup(p)
    BY <2>3 DEF Begin, Look, Compare, Choose, Backup
  <2> QED BY <1>1, <2>1, <2>2, <2>3 DEF Opens
<1>2. ASSUME NEW p \in Process, Uses(p) PROVE Advances
  <2>1. CASE Crash(p)
    BY <2>1 DEF Crash, Cut
  <2>2. CASE Open(p)
    BY <2>2, Writes DEF Open
  <2>3. CASE Write(p)
    BY <2>3, Writes DEF Write
  <2>4. CASE WriteStray(p) \/ Rerun(p)
    BY <2>4 DEF WriteStray, Rerun
  <2> QED BY <1>2, <2>1, <2>2, <2>3, <2>4 DEF Uses
<1>3. ASSUME NEW w \in Worktree, Discard(w) \/ Restore(w) PROVE Advances
  BY <1>3 DEF Discard, Restore
<1>4. CASE Wipe \/ Untrack
  BY <1>4 DEF Wipe, Untrack
<1> QED BY <1>1, <1>2, <1>3, <1>4 DEF Next

LEMMA StepTyped == ASSUME IInv, Next PROVE Typed'
<1> USE RowsOfFiles DEF IInv, Typed, File, files, look, Goes, Moves, Forgets, Judge, JudgeAll
<1>1. ASSUME NEW p \in Process, Opens(p) PROVE Typed'
  <2>1. CASE Begin(p)
    BY <2>1 DEF Begin
  <2>2. CASE Look(p)
    <3>1. {legacy[w] : w \in {w \in Worktree : legacy[w] # Absent}} \in SUBSET Legacy
      OBVIOUS
    <3>2. Verdict({w \in Worktree : legacy[w] # Absent})
              \in {"refused", "opening", "comparing", "choosing"}
      BY DEF Verdict
    <3> QED BY <2>2, <3>1, <3>2 DEF Look
  <2>3. CASE Compare(p)
    BY <2>3 DEF Compare
  <2>4. CASE Choose(p)
    BY <2>4 DEF Choose
  <2>5. CASE Backup(p)
    <3>1. backups' \subseteq File
      BY <2>5 DEF Backup
    <3>2. todo' \in [Process -> SUBSET Worktree]
      BY <2>5 DEF Backup
    <3> QED BY <2>5, <3>1, <3>2 DEF Backup
  <2>6. CASE Import(p)
    <3>1. phase[p] = "importing" /\ shared' \in Legacy
      BY <2>6, Imports
    <3>2. Overlaps(p) \subseteq Rows
      BY DEF Overlaps
    <3>3. shared' \in File /\ lost' \subseteq Rows
      BY <2>6, <3>1, <3>2 DEF Import
    <3> QED BY <2>6, <3>1, <3>3 DEF Import
  <2>7. CASE ImportFails(p)
    BY <2>7 DEF ImportFails, Cut
  <2> QED BY <1>1, <2>1, <2>2, <2>3, <2>4, <2>5, <2>6, <2>7 DEF Opens
<1>2. ASSUME NEW p \in Process, Uses(p) PROVE Typed'
  <2>1. CASE Open(p)
    BY <2>1, Writes DEF Open
  <2>2. CASE Write(p)
    BY <2>2, Writes DEF Write
  <2>3. CASE WriteStray(p)
    BY <2>3 DEF WriteStray
  <2>4. CASE Rerun(p)
    BY <2>4 DEF Rerun
  <2>5. CASE Crash(p)
    BY <2>5 DEF Crash, Cut
  <2> QED BY <1>2, <2>1, <2>2, <2>3, <2>4, <2>5 DEF Uses
<1>3. ASSUME NEW w \in Worktree, Discard(w) \/ Restore(w) PROVE Typed'
  BY <1>3 DEF Discard, Restore
<1>4. CASE Wipe
  <2>1. phase' \in [Process -> {"new", "looking", "comparing", "choosing", "importing",
                               "opening", "open", "stray", "refused", "done"}]
    BY <1>4 DEF Wipe
  <2>2. shared' \in File /\ lost' \subseteq Rows
    BY <1>4 DEF Wipe
  <2> QED BY <1>4, <2>1, <2>2 DEF Wipe
<1>5. CASE Untrack
  BY <1>5 DEF Untrack
<1> QED BY <1>1, <1>2, <1>3, <1>4, <1>5 DEF Next

LEMMA StepKeepsOld == ASSUME IInv, Next PROVE OldKept'
<1> USE RowsOfFiles DEF IInv, Typed, OldKept, files, look
<1>1. ASSUME NEW p \in Process, Opens(p) \/ Uses(p) PROVE UNCHANGED <<legacy, old, removed>>
  BY <1>1 DEF Opens, Uses, Begin, Look, Compare, Choose, Backup, Import, ImportFails,
              Open, Write, WriteStray, Rerun, Crash
<1>2. ASSUME NEW w \in Worktree, Discard(w) PROVE OldKept'
  BY <1>2 DEF Discard
<1>3. ASSUME NEW w \in Worktree, Restore(w) PROVE OldKept'
  BY <1>3 DEF Restore
<1>4. CASE Wipe \/ Untrack
  BY <1>4 DEF Wipe, Untrack
<1> QED BY <1>1, <1>2, <1>3, <1>4 DEF Next

LEMMA StepKeepsAcked == ASSUME IInv, Next PROVE Has(acked)'
<1>1. Advances /\ Has(acked) /\ Typed /\ Typed'
  BY StepAdvances, StepTyped DEF IInv
<1>2. CASE acked' = acked
  BY <1>1, <1>2 DEF Has, Advances
<1>3. CASE \E p \in Process : Write(p)
  <2>1. PICK p \in Process : Write(p)
    BY <1>3
  <2>2. shared # Absent /\ shared' # Absent
    BY <2>1, Writes, RowsOfFiles
  <2> QED BY <1>1, <2>1, <2>2 DEF Write, Has
<1>4. CASE \E p \in Process : WriteStray(p)
  BY <1>1, <1>4 DEF WriteStray, files, Has
<1>5. acked' = acked \/ (\E p \in Process : Write(p) \/ WriteStray(p))
  BY DEF Next, Opens, Uses, Begin, Look, Compare, Choose, Backup, Import, ImportFails, files, look,
         Open, Rerun, Crash, Discard, Restore, Wipe, Untrack
<1> QED BY <1>2, <1>3, <1>4, <1>5

\* While a command runs, nobody removes a file; one put back it has not listed.
LEMMA StepKeepsLook == ASSUME IInv, Next, NEW q \in Process PROVE LookHolds(q)' /\ ImportsOne(q)'
<1> USE DEF LookHolds, ImportsOne, files, look, Goes, Moves, Forgets, Judge, JudgeAll
<1>0. Typed /\ LookHolds(q) /\ ImportsOne(q) /\ Typed'
  BY StepTyped DEF IInv
<1>1. ASSUME NEW p \in Process, Opens(p) PROVE LookHolds(q)' /\ ImportsOne(q)'
  <2>1. CASE Begin(p)
    BY <1>0, <2>1 DEF Begin, Typed
  <2>2. CASE Look(p)
    <3> DEFINE found == {w \in Worktree : legacy[w] # Absent}
    <3>1. CASE p # q
      BY <1>0, <2>2, <3>1 DEF Look, Typed
    <3>2. CASE p = q
      <4>1. /\ phase'[q] = Verdict(found) /\ listed'[q] = found /\ free'[q] = (shared = Absent)
            /\ saw'[q] = {legacy[w] : w \in found} /\ legacy' = legacy
        BY <1>0, <2>2, <3>2 DEF Look, Typed
      <4>2. /\ Verdict(found) = "choosing" => shared = Absent
            /\ Verdict(found) \in {"comparing", "choosing"} => found # {}
            /\ Verdict(found) \in {"refused", "opening", "comparing", "choosing"}
        BY DEF Verdict
      <4> HIDE DEF found
      <4>3. /\ phase'[q] \in {"comparing", "choosing"} => saw'[q] # {}
            /\ \A w \in listed'[q] : legacy'[w] # Absent
            /\ saw'[q] = {legacy'[w] : w \in listed'[q]}
        BY <4>1, <4>2 DEF found
      <4> QED BY <4>1, <4>2, <4>3
    <3> QED BY <3>1, <3>2
  <2>3. CASE Compare(p)
    BY <1>0, <2>3 DEF Compare, Typed
  <2>4. CASE Choose(p)
    <3>1. CASE p # q
      BY <1>0, <2>4, <3>1 DEF Choose, Typed
    <3>2. CASE p = q
      <4>1. /\ phase[q] = "choosing" /\ UNCHANGED <<listed, saw, free, legacy>>
            /\ phase'[q] \in {"importing", "refused"} /\ todo'[q] = listed[q]
            /\ basis'[q] # "bytes" => \/ phase'[q] # "importing"
                                      \/ Alike({legacy[w] : w \in listed[q]})
                                      \/ Cardinality(listed[q]) = 1
        BY <1>0, <2>4, <3>2 DEF Choose, Typed
      <4>2. saw[q] = {legacy[w] : w \in listed[q]}
        BY <1>0, <4>1
      <4>3. phase'[q] = "importing" /\ basis'[q] # "bytes" => Cardinality(saw[q]) = 1
        BY <1>0, <4>1, <4>2, OneFile DEF Alike, Typed
      <4> QED BY <1>0, <4>1, <4>3
    <3> QED BY <3>1, <3>2
  <2>5. CASE Backup(p)
    BY <1>0, <2>5 DEF Backup, Typed
  <2>6. CASE Import(p)
    BY <1>0, <2>6 DEF Import, Typed
  <2>7. CASE ImportFails(p)
    BY <1>0, <2>7 DEF ImportFails, Typed
  <2> QED BY <1>1, <2>1, <2>2, <2>3, <2>4, <2>5, <2>6, <2>7 DEF Opens
<1>2. ASSUME NEW p \in Process, Uses(p) PROVE LookHolds(q)' /\ ImportsOne(q)'
  BY <1>0, <1>2 DEF Uses, Open, Write, WriteStray, Rerun, Crash, Typed
<1>3. ASSUME NEW w \in Worktree, Discard(w) PROVE LookHolds(q)' /\ ImportsOne(q)'
  BY <1>0, <1>3 DEF Discard, Running, Typed
<1>4. ASSUME NEW w \in Worktree, Restore(w) PROVE LookHolds(q)' /\ ImportsOne(q)'
  BY <1>0, <1>4, RowsOfFiles DEF Restore, Typed
<1>5. CASE Wipe \/ Untrack
  BY <1>0, <1>5 DEF Wipe, Untrack, Typed
<1> QED BY <1>1, <1>2, <1>3, <1>4, <1>5 DEF Next

\* A command goes ahead when it found nothing, when the shared file is what it
\* found, or with the one content that it imported.
LEMMA StepKeepsServed == ASSUME IInv, Next, NEW q \in Process PROVE Served(q)'
<1> USE DEF files, look, Goes, Moves, Forgets, Judge, JudgeAll
<1>0. Typed /\ LookHolds(q) /\ Served(q) /\ Typed' /\ Advances
  BY StepTyped, StepAdvances DEF IInv
<1>1. ASSUME phase'[q] \in {"opening", "open"} => /\ phase[q] \in {"opening", "open"}
                                                 /\ UNCHANGED <<saw[q], basis[q]>>,
             phase'[q] = "open" => shared' # Absent
      PROVE  Served(q)'
  BY <1>0, <1>1 DEF Served, Has, Advances
<1>2. ASSUME NEW p \in Process, Opens(p) PROVE Served(q)'
  <2>1. CASE Begin(p)
    BY <1>0, <2>1 DEF Begin, Typed, LookHolds, Served, Has
  <2>2. CASE Look(p)
    BY <1>0, <2>2 DEF Look, Verdict, Typed, Served, Has
  <2>3. CASE Compare(p)
    <3>1. CASE p = q /\ phase'[q] = "opening" /\ basis'[q] \notin {"bytes", "absence"}
      <4>1. Alike({legacy[w] : w \in listed[q]} \cup {shared})
        BY <1>0, <2>3, <3>1 DEF Compare, Typed
      <4>2. PICK c : {legacy[w] : w \in listed[q]} \cup {shared} = {c}
        BY <1>0, <4>1, AlikeIsOne DEF Typed
      <4>3. /\ saw[q] = {legacy[w] : w \in listed[q]} /\ saw[q] \in SUBSET Legacy
            /\ UNCHANGED <<saw, shared, lost>>
        BY <1>0, <2>3, <3>1 DEF Compare, Typed, LookHolds
      <4>4. \A s \in saw[q] : s = shared /\ shared # Absent
        BY <4>2, <4>3, RowsOfFiles
      <4> QED BY <3>1, <4>3, <4>4 DEF Served, Has
    <3>2. CASE ~(p = q /\ phase'[q] = "opening" /\ basis'[q] \notin {"bytes", "absence"})
      BY <1>0, <2>3, <3>2 DEF Compare, Typed, Served, Has
    <3> QED BY <3>1, <3>2
  <2>4. CASE Choose(p)
    BY <1>0, <2>4 DEF Choose, Typed, Served, Has
  <2>5. CASE Backup(p)
    BY <1>0, <2>5 DEF Backup, Typed, Served, Has
  <2>6. CASE Import(p)
    <3>1. shared' \in Legacy /\ (basis[p] # "bytes" => saw[p] = {shared'}) /\ shared' # Absent
      BY <2>6, Imports, RowsOfFiles
    <3>2. CASE p = q
      <4>1. /\ basis'[q] \notin {"bytes", "absence"} => saw'[q] = {shared'}
            /\ phase'[q] = "opening"
        BY <1>0, <2>6, <3>1, <3>2 DEF Import, Typed
      <4> QED BY <3>1, <4>1 DEF Served, Has
    <3>3. CASE p # q
      BY <1>0, <1>1, <2>6, <3>1, <3>3 DEF Import, Typed
    <3> QED BY <3>2, <3>3
  <2>7. CASE ImportFails(p)
    <3>1. shared # Absent => shared' # Absent
      BY <2>7 DEF ImportFails, Cut
    <3> QED BY <1>0, <1>1, <2>7, <3>1 DEF ImportFails, Typed, Served
  <2> QED BY <1>2, <2>1, <2>2, <2>3, <2>4, <2>5, <2>6, <2>7 DEF Opens
<1>3. ASSUME NEW p \in Process, Uses(p) PROVE Served(q)'
  <2>1. CASE Open(p) \/ Write(p)
    <3>1. shared' # Absent
      BY <2>1, Writes, RowsOfFiles
    <3> QED BY <1>0, <1>1, <2>1, <3>1 DEF Open, Write, Typed
  <2>2. CASE WriteStray(p)
    BY <1>0, <1>1, <2>2 DEF WriteStray, Typed, Served
  <2>3. CASE Rerun(p)
    BY <1>0, <1>1, <2>3 DEF Rerun, Typed, Served
  <2>4. CASE Crash(p)
    <3>1. shared # Absent => shared' # Absent
      BY <2>4 DEF Crash, Cut
    <3> QED BY <1>0, <1>1, <2>4, <3>1 DEF Crash, Typed, Served
  <2> QED BY <1>3, <2>1, <2>2, <2>3, <2>4 DEF Uses
<1>4. ASSUME NEW w \in Worktree, Discard(w) \/ Restore(w) PROVE Served(q)'
  BY <1>0, <1>1, <1>4 DEF Discard, Restore, Served
<1>5. CASE Wipe
  BY <1>0, <1>1, <1>5 DEF Wipe, Typed
<1>6. CASE Untrack
  BY <1>0, <1>1, <1>6 DEF Untrack, Served
<1> QED BY <1>2, <1>3, <1>4, <1>5, <1>6 DEF Next

----------------------------------------------------------------------------

LEMMA InitIInv == Init => IInv
<1> SUFFICES ASSUME Init PROVE IInv
  OBVIOUS
<1>1. Typed
  BY RowsOfFiles DEF Init, Typed, File
<1>2. OldKept /\ Has(acked)
  BY DEF Init, OldKept, Has
<1>3. \A p \in Process : LookHolds(p) /\ ImportsOne(p) /\ Served(p)
  BY DEF Init, LookHolds, ImportsOne, Served
<1> QED BY <1>1, <1>2, <1>3 DEF IInv

LEMMA NextKeepsIInv == IInv /\ [Next]_vars => IInv'
<1>1. ASSUME IInv, Next PROVE IInv'
  BY <1>1, StepTyped, StepKeepsOld, StepKeepsAcked, StepKeepsLook, StepKeepsServed DEF IInv
<1>2. ASSUME IInv, UNCHANGED vars PROVE IInv'
  BY <1>2 DEF IInv, vars, files, look, Typed, OldKept, Has, LookHolds, ImportsOne, Served
<1> QED BY <1>1, <1>2

LEMMA IInvSafe == IInv => TypeOK /\ NothingLost
<1> SUFFICES ASSUME IInv PROVE TypeOK /\ NothingLost
  OBVIOUS
<1>1. TypeOK
  BY DEF IInv, Typed, TypeOK, ImportsOne
<1>2. ASSUME NEW c \in old PROVE \E f \in Kept \cup {{}} : c \ removed \subseteq f
  <2>1. CASE \E w \in Worktree : legacy[w] = c
    <3>1. c \in Kept
      BY <1>2, <2>1, RowsOfFiles DEF IInv, Typed, Kept
    <3> QED BY <3>1
  <2>2. CASE c \subseteq removed
    BY <2>2
  <2> QED BY <1>2, <2>1, <2>2 DEF IInv, OldKept
<1>3. shared # Absent => Holds(acked)
  BY DEF IInv, Has, Holds
<1>4. \A p \in Process : phase[p] = "open" /\ basis[p] \notin {"bytes", "absence"} =>
                               \A c \in saw[p] : Holds(c)
  BY DEF IInv, Served, Has, Holds
<1> QED BY <1>1, <1>2, <1>3, <1>4 DEF NothingLost

\* Types hold, and every command that is about to import and compared what its files
\* hold has found one content (recoverWorktreeDatabaseState).
THEOREM RecoveryTyped == Spec => []TypeOK
<1> QED BY InitIInv, NextKeepsIInv, IInvSafe, PTL DEF Spec

\* What an old file held is kept in one piece, reported writes are in the shared
\* file, and a command works on all that it found: but for what wipes, the operator
\* and imports of overlapping commands took, and for commands that compared main
\* files alone or found the shared file gone when they compared.
THEOREM NothingIsLost == Spec => []NothingLost
<1> QED BY InitIInv, NextKeepsIInv, IInvSafe, PTL DEF Spec
=============================================================================
